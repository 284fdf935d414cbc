---------------------------- MODULE MCCapturePlan -----------------------------
(* Two captures, of which the second lists its attempts in completion order,
   and what stubs hold: another split and another protocol. *)
EXTENDS CapturePlan, TLC

Trials(first, second) ==
    {[task |-> t, index |-> i, passed |-> IF t = "t1" THEN (IF i = 0 THEN first ELSE second)
                                          ELSE TRUE] : t \in {"t1", "t2"}, i \in {0, 1}}
Network == [bandwidth |-> 1, mirrored |-> {"m"}]
Proposals(outcomes) ==
    ("p1" :> [decision |-> "accepted", surface |-> "prompt", outcomes |-> outcomes])
    @@ ("p2" :> [decision |-> "rejected", surface |-> "tools", outcomes |-> <<>>])
Row(t, i) == [task |-> t, index |-> i, passed |-> TRUE]
Pattern(tasks, category, text, hash) ==
    [cluster |-> "c", tasks |-> tasks, category |-> category, text |-> text, hash |-> hash]

\* The second capture lists outcomes in another order and states only hashes.
Capture(trials, order) ==
    [version |-> "v1", images |-> {[digest |-> "i1", children |-> {}]}, digests |-> {"i1"},
     rounds |-> 1, calls |-> 1, width |-> 2, committed |-> 1,
     proposals |-> Proposals(<<Row("t1", order[1]), Row("t1", order[2])>>),
     patterns |-> {Pattern({"t1"}, "timeout", IF order = <<0, 1>> THEN "e" ELSE Unstated, "e")},
     passing |-> {"t1"}, leakage |-> FALSE, recorded |-> Records,
     controls |-> Network, heldIn |-> {"t1"}, heldOut |-> {"t2"},
     models |-> {"m"}, probed |-> {"m"}, asked |-> {"m"},
     trials |-> trials, order |-> order, records |-> StatesRun]

ObservedDef == ("A" :> Capture(Trials(FALSE, TRUE), <<0, 1>>))
               @@ ("B" :> Capture(Trials(TRUE, FALSE), <<1, 0>>))
               @@ ("stub" :> [Capture(Trials(TRUE, TRUE), <<0, 1>>) EXCEPT
                                 !.heldIn = {"t2"}, !.heldOut = {"t1"}, !.width = 3,
                                 !.digests = {}, !.passing = {"t2"},
                                 !.patterns = {Pattern({"t2"}, "unknown", "stub", Unstated)},
                                 !.proposals = Proposals(<<>>)])

Planned == [bundle |-> "planned", sources |-> "planned"]
LabelsDef == {Planned, [Planned EXCEPT !.bundle = "other"], [Planned EXCEPT !.sources = "other"]}

Inputs(kindOf, fromOf) ==
    [class \in Classes |-> [kind |-> kindOf[class], from |-> fromOf[class]]]
Kinds(absent) ==
    [class \in Classes |-> IF class \in absent THEN "absent"
                           ELSE IF class \in Derived \cup {"proposal_validation_manifest"}
                           THEN "supplied" ELSE "raw"]
From(c, other, classes) ==
    [class \in Classes |-> IF class \in classes THEN other ELSE c]
Plan(flag, kinds, from, signed) ==
    [flag |-> flag, input |-> Inputs(kinds, from), sidecar |-> signed,
     labels |-> Planned]

\* All of one capture; all but one class, of which the directory may hold another
\* file; one class of the other capture; what records its run; one class alone.
PlansDef ==
    {Plan(c, Kinds({}), From(c, c, {}), FALSE) : c \in Captures} \cup
    {Plan("A", Kinds({"network_resource_controls_attestation"}), From("A", "B", {}), TRUE),
     Plan("A", Kinds({}), From("A", "B", {"live_harbor_audit"}), FALSE),
     Plan(NoRun, Kinds({"live_harbor_audit", "live_harbor_preflight_report",
                        "container_image_trust_report", "model_backend_preflight_report"}),
          From("A", "A", {}), TRUE),
     Plan("B", Kinds(Classes \ {"fixed_protocol_config"}), From("B", "B", {}), FALSE)}

PlanOf(runId, given) ==
    [run |-> runId, labels |-> Planned, custody |-> "k1", controls |-> Network, given |-> given]
OrdersDef ==
    {PlanOf("A", [class \in {} |-> "A"]),
     PlanOf("A", [class \in {"fixed_protocol_config"} |-> "A"]),
     PlanOf("A", [class \in Classes |-> "A"]),
     PlanOf("B", [class \in Classes |-> "A"]),
     PlanOf("A", [class \in Classes \ {"live_terminal_bench_split_manifest"} |-> "A"])}
=============================================================================
