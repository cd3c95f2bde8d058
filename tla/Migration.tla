------------------------------ MODULE Migration ------------------------------
(***************************************************************************)
(* The whole cycle around the applier: a scan is planned, the plan is       *)
(* written to a file, the file may be edited, workloads get new templates,  *)
(* and apply and rollback load the file as it is by then, from a terminal or*)
(* through the MCP server.  Composes Planner, the loader, the decoding of   *)
(* dry-run, the gate's refusal and Applier.                                 *)
(*                                                                          *)
(* Every content a plan file may come to have is a document with a number of*)
(* its own, and Applier's plans are the documents that the loader lets      *)
(* through.  A hash is the number of the document it was computed from.     *)
(*                                                                          *)
(* Crashes, lost answers and other clients' deletions and reverts are       *)
(* Applier's (runs of MCApplier); here operators are undisturbed, because   *)
(* what is asked is whether the cycle is right when nothing goes wrong.     *)
(***************************************************************************)
EXTENDS Applier

CONSTANTS
    KindOf,         \* the kind of each workload
    Template,       \* pod templates, as far as the classifier tells them apart
    InitTemplates,  \* the templates to start from, [Workload -> Template]
    Verdict,        \* Verdict[t]: what the classifier says of template t
    Scopes,         \* the sets of workloads that scans are made of
    PlanOptions,    \* the options of `plan`
    Doc, Content,   \* documents, and what is in each: [steps, options, claim],
                    \* claim being NoStamp or what the hash was computed from
    File,           \* plan files
    NoPlanFile,     \* no file, not parseable, or of another kind
    Asks,           \* dry_run as given: "absent", "true", "false" or "text"
    MaxPlans,
    MaxUpsets       \* edits of files and rollouts of templates

P == INSTANCE Planner

\* Runs are numbered in the order in which they are called.
ASSUME MigrationAssumption ==
    /\ Run \subseteq Nat /\ IsFiniteSet(Run)
    /\ Workload \subseteq Nat /\ IsFiniteSet(Workload)
    /\ KindOf \in [Workload -> {P!Kinds[k] : k \in DOMAIN P!Kinds}]
    /\ Scopes \subseteq SUBSET Workload
    /\ InitTemplates \subseteq [Workload -> Template]
    /\ \A t \in Template : IsFiniteSet(DOMAIN Verdict[t].reasons)
    /\ Plan # {} /\ Ops # {} /\ DryRuns = BOOLEAN
    /\ MaxPlans \in Nat /\ MaxUpsets \in Nat

\* Documents are told apart by what is in them.  Applier's plans are those that
\* have no hash or the right one; their steps can be expressed as patches,
\* because all kinds that are scanned are supported and all steps name a class.
ASSUME DocumentAssumption ==
    /\ Plan \subseteq Doc
    /\ NoPlanFile \notin Doc
    /\ \A d \in Doc : DOMAIN Content[d] = {"steps", "options", "claim"}
    /\ \A c, d \in Doc :
         /\ Content[c].steps = Content[d].steps
         /\ Content[c].options = Content[d].options
         /\ Content[c].claim = Content[d].claim
         => c = d
    /\ \A d \in Doc :
         LET c == Content[d]
         IN  c.claim \in {NoStamp, P!ComputePlanHash(c.steps, c.options)} => d \in Plan
    /\ \A p \in Plan :
         /\ Hash[p] = (IF Content[p].claim = NoStamp THEN NoStamp ELSE p)
         /\ DOMAIN Steps[p] = DOMAIN Content[p].steps
         /\ \A i \in DOMAIN Steps[p] :
              /\ Steps[p][i].target = Content[p].steps[i].target
              /\ Steps[p][i].class = Content[p].steps[i].class
              /\ Steps[p][i].class # NoClass /\ Steps[p][i].supported

VARIABLES
    template,   \* template[w]: what w runs, its class apart
    files,      \* files[f]: the document in file f
    loaded,     \* runs that have loaded their plan
    asked,      \* asked[r]: dry_run as r was given it
    proposals,  \* history: the documents planned, with their scans
    upsets

surroundings == <<template, files, loaded, asked, proposals, upsets>>

\* What apply and rollback read of a plan.
Written(made) ==
    [steps |-> made.steps, options |-> made.options, claim |-> made.hash]
\* The document with this content: one, as long as the instance has them all.
DocsOf(content) == {d \in Doc : Content[d] = content}

MigrationInit ==
    /\ op = [r \in Run |-> CHOOSE o \in Ops : TRUE]
    /\ plan = [r \in Run |-> CHOOSE p \in Plan : TRUE]
    /\ dry = [r \in Run |-> CHOOSE d \in DryRuns : TRUE]
    /\ Init
    /\ template \in InitTemplates
    /\ files = [f \in File |-> NoPlanFile]
    /\ loaded = {}
    /\ asked = [r \in Run |-> "absent"]
    /\ proposals = {}
    /\ upsets = 0

\* Operators take turns where MaxActive is 1.
Pending == {r \in loaded : pc[r] = "idle"}
Fresh   == {r \in Run \ loaded : pc[r] = "idle"}
Free    == Cardinality(Active \cup Pending) < MaxActive

\* The report on these templates: one row for each workload.
RowsOf(templates) ==
    [r \in {<<w, 1>> : w \in DOMAIN templates} |-> Verdict[templates[r[1]]]]
\* scan and plan, over the templates of one moment (module Scan has the rest).
Propose(f, scope, options) ==
    /\ Free
    /\ Cardinality(proposals) < MaxPlans
    /\ LET moment == [w \in scope |-> template[w]]
           made == P!PlanOf(RowsOf(moment), options, "now", {})
       IN  \E d \in DocsOf(Written(made)) :
             /\ files' = [files EXCEPT ![f] = d]
             /\ proposals' = proposals \cup {[doc |-> d, templates |-> moment]}
    /\ UNCHANGED <<vars, template, loaded, asked, upsets>>

\* By hand: the hash is taken out, or a step gets another class.
Edited(c) ==
    {[c EXCEPT !.claim = NoStamp]}
    \cup {[c EXCEPT !.steps[i].class = k] : i \in DOMAIN c.steps, k \in Class}

\* A run reads neither files nor templates again once its plan is loaded, so
\* edits and rollouts fall between runs.
Edit(f) ==
    /\ Free
    /\ upsets < MaxUpsets
    /\ files[f] # NoPlanFile
    /\ \E c \in Edited(Content[files[f]]) : \E d \in DocsOf(c) :
          files' = [files EXCEPT ![f] = d]
    /\ upsets' = upsets + 1
    /\ UNCHANGED <<vars, template, loaded, asked, proposals>>

\* A new template is rolled out, by a patch that leaves the class alone.
Change(w, t) ==
    /\ Free
    /\ upsets < MaxUpsets
    /\ template[w] # t
    /\ template' = [template EXCEPT ![w] = t]
    /\ upsets' = upsets + 1
    /\ UNCHANGED <<vars, files, loaded, asked, proposals>>

-----------------------------------------------------------------------------
(* The loader, the flags, the gate. *)

\* mutant: the hash is not compared
AnyDocument(d) == d # NoPlanFile
\* loadPlan: a document that claims a hash has the hash of its steps and options.
Loadable(d) ==
    /\ d # NoPlanFile
    /\ LET c == Content[d]
       IN  c.claim # NoStamp => c.claim = P!ComputePlanHash(c.steps, c.options)

\* mutant: a missing argument is the zero value of a bool
ZeroValue(ask) == ask = "true"
\* readDryRun, and the flag of the same name: only a false given as a boolean
\* asks for changes.
ReadDryRun(ask) == ask # "false"

Load(r, o, f, ask) ==
    /\ Free
    /\ r \in Fresh /\ \A q \in Fresh : r <= q
    /\ op' = [op EXCEPT ![r] = o]
    /\ dry' = [dry EXCEPT ![r] = ReadDryRun(ask)]
    /\ asked' = [asked EXCEPT ![r] = ask]
    /\ IF ask # "text" /\ Loadable(files[f])
         THEN /\ plan' = [plan EXCEPT ![r] = files[f]]
              /\ loaded' = loaded \cup {r}
              /\ UNCHANGED pc
         ELSE /\ pc' = [pc EXCEPT ![r] = "error"]
              /\ UNCHANGED <<plan, loaded>>
    /\ UNCHANGED <<cluster, todo, existing, allSuccess, results, answer,
                   durable, patched, bounds, template, files, proposals,
                   upsets>>

\* The preflight refuses, in a dry run too (module Gate has its reasons).
Blocked(r) ==
    /\ r \in Pending /\ op[r] = "apply"
    /\ pc' = [pc EXCEPT ![r] = "error"]
    /\ UNCHANGED <<cluster, request, todo, existing, allSuccess, results,
                   answer, durable, patched, bounds, surroundings>>

Invocation(r) ==
    \/ \E o \in Ops, f \in File, ask \in Asks : Load(r, o, f, ask)
    \/ Blocked(r)
    \/ r \in loaded /\ Start(r) /\ UNCHANGED surroundings
    \/ Proceed(r) /\ UNCHANGED surroundings

MigrationNext ==
    \/ \E r \in Run : Invocation(r)
    \/ \E f \in File, scope \in Scopes, options \in PlanOptions :
          Propose(f, scope, options)
    \/ \E f \in File : Edit(f)
    \/ \E w \in Workload, t \in Template : Change(w, t)

migrationVars == <<vars, surroundings>>
MigrationSpec == MigrationInit /\ [][MigrationNext]_migrationVars

-----------------------------------------------------------------------------
(* Properties. *)

\* Planning found nothing against moving w, or was told to move it all the same.
Fit(p, w) ==
    LET verdict == Verdict[p.templates[w]].compatibility
    IN  \/ verdict = "compatible"
        \/ verdict = "review" /\ Content[p.doc].options.includeReview
Targets(p) == {Content[p.doc].steps[i].target : i \in DOMAIN Content[p.doc].steps}

\* What runs is what was planned and asked for.  A run with a plan that claims
\* a hash has a document the planner wrote, whatever was edited before, or is
\* overwritten while it runs; and the server performs a patch only for a run
\* whose caller gave a false dry_run in so many words.
PlannedAndAsked ==
    \A r \in Run :
      /\ r \in loaded /\ Content[plan[r]].claim # NoStamp =>
           \E p \in proposals : plan[r] = p.doc
      /\ patched[r] # {} => r \in loaded /\ asked[r] = "false"

\* Steps of documents without a hash, which nothing vouches for.
ByHand(w) ==
    \E r \in Run : /\ Hash[plan[r]] = NoStamp
                   /\ \E i \in patched[r] : Steps[plan[r]][i].target = w
\* A workload runs under a RuntimeClass only if some plan asked for that class
\* and the scan behind that plan saw a template of it that may be moved: from
\* the verdict over the partition, the file and the walk, nothing is mixed up.
\* (The template may have changed since: nobody looks again.)
NoneForced ==
    \A w \in Workload :
      class[w] # NoClass /\ ~ByHand(w) =>
        \E p \in proposals :
          /\ w \in Targets(p) /\ Fit(p, w)
          /\ class[w] = Content[p.doc].options.class

\* A rollback that has just ended took back its own plan and nothing else:
\* where the namespace carried the plan's hash, no target that is left has a
\* class and the hash is gone; where it carried another plan's, that hash is
\* still there and its plan still in force.
RollbackUndoes ==
    [][\A r \in Run :
        /\ op[r] = "rollback" /\ ~dry[r] /\ Hash[plan[r]] # NoStamp
        /\ pc[r] # "done" /\ pc'[r] = "done"
        => \A n \in AffectedNamespaces(plan[r]) :
             LET found == existing[r][n] IN
             /\ found = Hash[plan[r]] =>
                  /\ \A i \in StepsIn(plan[r], n) :
                       LET w == Steps[plan[r]][i].target
                       IN  w \in live => class[w] = NoClass
                  /\ stamp[n] = NoStamp
             /\ found \notin {NoStamp, Hash[plan[r]]} =>
                  /\ stamp[n] = found
                  /\ \A p \in Plan : Hash[p] = found => InForce(p, n)
      ]_migrationVars
=============================================================================
