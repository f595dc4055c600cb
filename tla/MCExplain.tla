----------------------------- MODULE MCExplain -----------------------------
(***************************************************************************)
(* One client writes histories for the questions to be asked of.  The      *)
(* first instance has a whole chain up to feedback: the change set cs and  *)
(* base depend on each other, n depends on base and invalidates it, s      *)
(* supersedes base, m invalidates n.  The second has only relations: two   *)
(* from a to b, one from b to itself, and a cycle over c.  The others are  *)
(* about effective states: a cycle of bindings, and lines of revisions.    *)
(***************************************************************************)
EXTENDS ExplainProperties, MCRepository

ChainOfRecords ==
    FeedbackSetup \o
    << Make("s", "Claim"),
       Relate("bc", "depends_on", "base", "cs"), Relate("nd", "depends_on", "n", "base"),
       Relate("sb", "supersedes", "s", "base"), Bind("cb"), Bind("bc") >>

Activating == {Bind("pb"), Bind("nd"),
               Invalidate("nb"), Invalidate("mn"), Supersede("sb")}

OnlyRecords == << Make("a", "Claim"), Make("b", "Claim"), Make("c", "Claim"),
                  Make("d", "Claim"), Relate("ab", "depends_on", "a", "b") >>

Relating == {Relate("ab2", "supports", "a", "b"),
             Relate("bb", "supports", "b", "b"), Relate("bc", "depends_on", "b", "c"),
             Relate("ca", "depends_on", "c", "a"), Relate("cd", "supports", "c", "d")}

Narrow == {[depth |-> 8, results |-> 3, expansions |-> 60],
           [depth |-> 2, results |-> 60, expansions |-> 9],
           [depth |-> 1, results |-> 60, expansions |-> 60]}

FewSteps == {[depth |-> 3, results |-> 50, expansions |-> 60],
             [depth |-> 3, results |-> 1, expansions |-> 60],
             [depth |-> 2, results |-> 50, expansions |-> 4]}

ViewScenarios == "whole chain" :> Scene(ChainOfRecords, Activating, 0)
              @@ "relations"   :> Scene(OnlyRecords, Relating, 0)
              @@ "cycle"       :> Scene(StateSetup, CycleMenu, 0)
              @@ "lines"       :> Scene(StateSetup, LinesMenu, 0)

ViewBounds == "whole chain" :> [queries |-> Narrow,   provenance |-> {}]
           @@ "relations"   :> [queries |-> FewSteps, provenance |-> FewSteps]
           @@ "cycle"       :> [queries |-> Narrow,   provenance |-> {}]
           @@ "lines"       :> [queries |-> Narrow,   provenance |-> {}]

(***************************************************************************)
(* Two steps from a to c, one of them bound, and a depth of one; the other *)
(* bounds are ample.                                                       *)
(***************************************************************************)
TwoSteps == << Make("a", "Claim"), Make("b", "Claim"), Make("c", "Claim"),
               Relate("ab", "depends_on", "a", "b"), Bind("ab") >>

SecondStep == {Relate("bc", "depends_on", "b", "c"), Bind("bc")}

OneStepDeep == {[depth |-> 1, results |-> 60, expansions |-> 60]}

DepthScenario == "two steps" :> Scene(TwoSteps, SecondStep, 0)

DepthBounds == "two steps" :> [queries |-> OneStepDeep, provenance |-> OneStepDeep]
=============================================================================
