-------------------------- MODULE PipelineLifecycle --------------------------
(* JobPipeline seen as an implementation of JobLifecycle. *)
EXTENDS JobPipeline

\* The three in-flight statuses are one, whoever is or is not at work.
Status == [j \in Jobs |-> IF row[j].st \in InFlight THEN "working" ELSE row[j].st]
Asked == [j \in Jobs |-> [mode |-> row[j].mode, fresh |-> row[j].fresh]]
Result == [j \in Jobs |-> IF resume[j] = NoResume THEN {}
                          ELSE {[mode |-> resume[j].of.mode, reused |-> resume[j].cached]}]

Lifecycle == INSTANCE JobLifecycle
    WITH status <- Status, asked <- Asked, result <- Result

\* Whatever fails, restarts, is edited or deleted meanwhile, the pipeline keeps
\* the promises of JobLifecycle, if clients retry settled jobs only.
KeepsLifecycle == Lifecycle!Spec
=============================================================================
