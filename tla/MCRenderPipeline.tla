-------------------------- MODULE MCRenderPipeline --------------------------
(* Small instances of RenderPipeline: one renderer could build its mongo   *)
(* client when it started, any other could not.                            *)
EXTENDS RenderPipeline, TLC

CONSTANTS none, w1, w2

MCTarget == [r \in Renders |-> CHOOSE d \in Devices : TRUE]

\* A bound, on the initial states: no step changes mongo.
OneHasMongo == mongo = [w \in Renderers |-> w = w1]

\* A bound: a second fault only as long as one render was not queued.
FaultBound == faults < 2 \/ \E r \in Renders : request[r] = "new"

=============================================================================
