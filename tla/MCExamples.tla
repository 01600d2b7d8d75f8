----------------------------- MODULE MCExamples -----------------------------
(***************************************************************************)
(* Instance of Examples for TLC.  The suites register in the order in      *)
(* which the build lists their files.                                      *)
(***************************************************************************)
EXTENDS Examples

Category(name, suites) == [i \in DOMAIN suites |-> [category |-> name, name |-> suites[i]]]

AllSuites ==
    Category("advanced", <<"discard_shutdown", "exception_handling", "runtime_stats",
                           "worker_stealing">>)
    \o Category("integration", <<"parallel_for", "pipeline_stages", "producer_consumer",
                                 "stl_algorithms">>)
    \o Category("misuse", <<"double_get", "empty_future_get", "submit_after_shutdown",
                            "worker_self_join">>)
    \o Category("patterns", <<"batch_enqueue", "nested_submit", "pause_resume",
                              "wait_idle">>)
    \o Category("quickstart", <<"basic_usage", "detach_task", "enqueue_future",
                                "pool_shutdown">>)

Letters == [advanced |-> "A", integration |-> "I", misuse |-> "M", patterns |-> "P",
            quickstart |-> "Q"]

\* Everything, a name, an id, a category, help, the list, and none of these.
Arguments == {"", "pool_shutdown", "P3", "misuse", "-h", "list", "basic_behavior"}

SelfJoin == {"worker_self_join"}
NestedSubmit == {"nested_submit"}
DiscardShutdown == {"discard_shutdown"}
=============================================================================
