----------------------------- MODULE MCMigration -----------------------------
(* Three workloads in two namespaces, moved by plans over both or over the *)
(* first; templates are judged by the classifier's own rules. *)
EXTENDS Migration, SequencesExt

CONSTANTS NoFacts, NoRunsc, NoRuntimeClass, NotProbed, AutoLabel, SupportedProducts

C == INSTANCE Classifier

MCNsOf == <<"n1", "n1", "n2">>
MCKindOf == <<"StatefulSet", "Deployment", "CronJob">>

Plain == [host |-> {}, volumes |-> {}, containers |->
            {[init |-> FALSE, privileged |-> FALSE, caps |-> {}, gpu |-> {},
              env |-> {}, runs |-> "image", image |-> {}]}]
HostPath == [Plain EXCEPT !.volumes = {"hostPath"}]
HostNetwork == [Plain EXCEPT !.host = {"network"}]

MCTemplate == {Plain, HostPath, HostNetwork}
MCInitTemplates == {<<Plain, HostPath, HostPath>>}
MCVerdict ==
    [t \in MCTemplate |->
        C!ClassifyWithFacts([spec |-> t, annotations |-> {}], C!Builtins, NoFacts)]

MCScopes == {{1, 2, 3}}
Wanted(review, class_) ==
    [includeReview |-> review, class |-> class_, toleration |-> FALSE]
MCPlanOptions == {Wanted(TRUE, "gvisor"), Wanted(FALSE, "kata")}

\* The templates that MaxUpsets = 1 leads to, and what is planned from them.
Reached ==
    MCInitTemplates \cup
    {[ts EXCEPT ![w] = t] : ts \in MCInitTemplates, w \in 1..3, t \in MCTemplate}
Planned ==
    {Written(P!PlanOf(RowsOf([w \in scope |-> ts[w]]), options, "now", {})) :
        ts \in Reached, scope \in MCScopes, options \in MCPlanOptions}
RECURSIVE Listed(_)
Listed(contents) ==
    IF contents = {} THEN << >>
    ELSE LET c == CHOOSE c \in contents : TRUE
         IN  <<c>> \o Listed(contents \ {c})
InOrder == Listed(Planned)

\* Document k is planned, 100 + k is k without its hash, and 100 * (i + 1) + k
\* is k with another class at step i: all that MaxUpsets = 1 leads to.
OtherClass(c) == IF c = "gvisor" THEN "kata" ELSE "gvisor"
Edition(original, e) ==
    CASE e = 0 -> original
      [] e = 1 -> [original EXCEPT !.claim = NoStamp]
      [] e > 1 -> [original EXCEPT !.steps[e - 1].class = OtherClass(@)]
MCDoc ==
    LET order == InOrder
    IN  {100 * e + k : e \in 0..1, k \in DOMAIN order} \cup
        UNION {{100 * (i + 1) + k : i \in DOMAIN order[k].steps} : k \in DOMAIN order}
MCContent == LET order == InOrder
             IN  [d \in MCDoc |-> Edition(order[d % 100], d \div 100)]

\* Those that the loader lets through.
MCPlan == {d \in MCDoc : d < 200}
MCHash == [d \in MCPlan |-> IF d < 100 THEN d ELSE NoStamp]
MCStamp == {d \in MCDoc : d < 100}
MCSteps ==
    LET content == MCContent
    IN  [d \in MCPlan |->
            [i \in DOMAIN content[d].steps |->
                [target |-> content[d].steps[i].target,
                 class |-> content[d].steps[i].class, supported |-> TRUE]]]
=============================================================================
