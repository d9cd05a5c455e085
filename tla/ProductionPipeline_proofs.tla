------------------------ MODULE ProductionPipeline_proofs ------------------------
(***************************************************************************)
(* Proofs about the production pipeline, for any number of invocations of  *)
(* any kinds, any stages and any bound on the attempts.                    *)
(***************************************************************************)
EXTENDS ProductionPipeline, TLAPS

\* Where a run has a manifest that its process is writing.
AtWork == {"resolve", "stage", "work", "paper", "raised", "worked", "commit"}

\* What the place of an invocation says of its own record.
Control(i) ==
    /\ pc[i] = "idle" => kind[i] = "none" /\ attempt[i] = 0 /\ outcome[i] = "none"
    /\ pc[i] # "idle" => kind[i] \in Kinds
    /\ pc[i] \in {"deciding", "checking"} => attempt[i] = 0
    /\ pc[i] = "ready" => attempt[i] < MaxAttempts
    /\ pc[i] \in Inside \cup {"report", "escaped"} => attempt[i] # 0
    /\ pc[i] \in AtWork \cup {"create"} => outcome[i] = "none"
    /\ pc[i] \in {"release", "report"} => outcome[i] # "none"
    /\ status[i] = "success" => pc[i] = "done" /\ outcome[i] = "success"

\* Where in its plan it is.
Position(i) ==
    /\ pc[i] \in {"create", "resolve"} => next[i] = 1
    /\ pc[i] = "stage" => next[i] \in 1..(Len(Plan(i)) + 1)
    /\ pc[i] \in {"work", "paper", "raised", "worked"} => next[i] \in 1..Len(Plan(i))
    /\ pc[i] = "paper" => StageOf(i) = "paper_trading_daily"
    /\ pc[i] = "commit" => next[i] > Len(Plan(i))

\* Its result is what the manifest of its run says; a run that it has not begun has
\* no manifest, and one that it has left does not say running.
Recorded(i) ==
    /\ \A n \in 1..MaxAttempts : n > attempt[i] => man[<<i, n>>] = NoRun
    /\ pc[i] = "create" => man[RunOf(i)] = NoRun
    /\ pc[i] \in AtWork => man[RunOf(i)] # NoRun /\ man[RunOf(i)].status = "running"
    /\ outcome[i] # "none" =>
          /\ attempt[i] # 0
          /\ man[RunOf(i)] # NoRun
          /\ man[RunOf(i)].status = IF outcome[i] = "success" THEN "success" ELSE "failed"
    /\ \A n \in 1..MaxAttempts :
          man[<<i, n>>] # NoRun /\ man[<<i, n>>].status = "running"
             => /\ n = attempt[i]
                /\ \/ pc[i] \in Inside \cup {"dead", "escaped", "closing"}
                   \/ pc[i] = "done" /\ outcome[i] = "none"

\* What names a publication names a production run that has a manifest.
Referenced(r) == r # NoRun => IsProduction(r[1]) /\ man[r] # NoRun
References ==
    /\ Referenced(summary)
    /\ \A i \in Invocations : Referenced(seen[i])
    /\ \A r \in pending : IsProduction(r[1])

\* The work of a stage of its current run is done.
Worked(i, n) == n < next[i] \/ (n = next[i] /\ pc[i] = "worked")

PublishAt == Len(DailyStages) + Len(ReportStages) + 2

\* A production run at work finds its own files behind it.
OwnFiles(i) ==
    pc[i] \in AtWork /\ IsProduction(i) =>
        /\ summary = RunOf(i) => Worked(i, PublishAt)
        /\ pc[i] = "commit" => summary = RunOf(i)
        /\ \A n \in 1..Len(ProductionPlan) : Worked(i, n) =>
              /\ ProductionPlan[n] \in Elements(ReportStages)
                    => artifact[ProductionPlan[n]] \in {RunOf(i), NoRun}
              /\ ProductionPlan[n] = "publish_closed_loop_manifest" => loop = RunOf(i)

InvocationInv(i) ==
    /\ pc[i] \in Inside => holder = i
    /\ Control(i) /\ Position(i) /\ Recorded(i) /\ OwnFiles(i)

\* The inductive invariant.
PipelineInv ==
    /\ TypeOK
    /\ \A i \in Invocations : InvocationInv(i)
    /\ References /\ PendingIsUnpublished /\ SkipIsJustified

-----------------------------------------------------------------------------

\* A step of an invocation leaves alone the records and the runs of all others.
Alone(i) ==
    \A j \in Invocations \ {i} :
        /\ kind'[j] = kind[j] /\ status'[j] = status[j] /\ reason'[j] = reason[j]
        /\ attempt'[j] = attempt[j] /\ pc'[j] = pc[j] /\ next'[j] = next[j]
        /\ outcome'[j] = outcome[j] /\ seen'[j] = seen[j]
        /\ \A n \in 1..MaxAttempts : man'[<<j, n>>] = man[<<j, n>>]

Step(i) == Trigger(i) \/ Proceed(i) \/ Escape(i) \/ Unreported(i) \/ Crash(i)

-----------------------------------------------------------------------------
(* Plans *)

LEMMA ConcatFacts ==
    ASSUME NEW S, NEW f \in Seq(S), NEW g \in Seq(S)
    PROVE  /\ f \o g \in Seq(S)
           /\ Len(f) \in Nat /\ Len(g) \in Nat
           /\ Len(f \o g) = Len(f) + Len(g)
           /\ \A n \in 1..Len(f) : (f \o g)[n] = f[n]
           /\ \A n \in 1..Len(g) : (f \o g)[Len(f) + n] = g[n]
OBVIOUS

\* p is d, r, m, s and t one after the other.
Follow(p, d, r, m, s, t) ==
    /\ Len(p) = Len(d) + Len(r) + Len(m) + Len(s) + Len(t)
    /\ \A n \in 1..Len(d) : p[n] = d[n]
    /\ \A n \in 1..Len(r) : p[Len(d) + n] = r[n]
    /\ \A n \in 1..Len(m) : p[Len(d) + Len(r) + n] = m[n]
    /\ \A n \in 1..Len(s) : p[Len(d) + Len(r) + Len(m) + n] = s[n]
    /\ \A n \in 1..Len(t) : p[Len(d) + Len(r) + Len(m) + Len(s) + n] = t[n]

LEMMA ConcatFollow ==
    ASSUME NEW S, NEW d \in Seq(S), NEW r \in Seq(S), NEW m \in Seq(S), NEW s \in Seq(S),
           NEW t \in Seq(S), NEW p, p = d \o r \o m \o s \o t
    PROVE  p \in Seq(S) /\ Follow(p, d, r, m, s, t)
<1>0. /\ Len(d) \in Nat /\ Len(r) \in Nat /\ Len(m) \in Nat /\ Len(s) \in Nat /\ Len(t) \in Nat
  OBVIOUS
<1>1. PICK a : a = d \o r
  OBVIOUS
<1>2. PICK b : b = a \o m
  OBVIOUS
<1>3. PICK c : c = b \o s
  OBVIOUS
<1>4. p = c \o t
  BY <1>1, <1>2, <1>3
<1>5. a \in Seq(S) /\ b \in Seq(S) /\ c \in Seq(S) /\ p \in Seq(S)
  BY <1>1, <1>2, <1>3, <1>4
<1>6. /\ Len(a) = Len(d) + Len(r) /\ Len(b) = Len(a) + Len(m)
      /\ Len(c) = Len(b) + Len(s) /\ Len(p) = Len(c) + Len(t)
  BY <1>1, <1>2, <1>3, <1>4, <1>5
<1>7. /\ \A n \in 1..Len(d) : a[n] = d[n]
      /\ \A n \in 1..Len(r) : a[Len(d) + n] = r[n]
  BY <1>1, ConcatFacts
<1>8. /\ \A n \in 1..Len(a) : b[n] = a[n]
      /\ \A n \in 1..Len(m) : b[Len(a) + n] = m[n]
  BY <1>2, <1>5, ConcatFacts
<1>9. /\ \A n \in 1..Len(b) : c[n] = b[n]
      /\ \A n \in 1..Len(s) : c[Len(b) + n] = s[n]
  BY <1>3, <1>5, ConcatFacts
<1>10. /\ \A n \in 1..Len(c) : p[n] = c[n]
       /\ \A n \in 1..Len(t) : p[Len(c) + n] = t[n]
  BY <1>4, <1>5, ConcatFacts
<1>11. /\ Len(b) = Len(d) + Len(r) + Len(m)
       /\ Len(c) = Len(d) + Len(r) + Len(m) + Len(s)
       /\ Len(p) = Len(d) + Len(r) + Len(m) + Len(s) + Len(t)
  BY <1>6
<1>12. /\ \A n \in 1..Len(d) : n \in 1..Len(a) /\ n \in 1..Len(b) /\ n \in 1..Len(c)
       /\ \A n \in 1..Len(r) : Len(d) + n \in 1..Len(a) /\ Len(d) + n \in 1..Len(b)
                                  /\ Len(d) + n \in 1..Len(c)
       /\ \A n \in 1..Len(m) : Len(a) + n \in 1..Len(b) /\ Len(a) + n \in 1..Len(c)
       /\ \A n \in 1..Len(s) : Len(b) + n \in 1..Len(c)
  BY <1>0, <1>6, SMTT(30)
<1>13. /\ \A n \in 1..Len(d) : p[n] = d[n]
       /\ \A n \in 1..Len(r) : p[Len(d) + n] = r[n]
       /\ \A n \in 1..Len(m) : p[Len(a) + n] = m[n]
       /\ \A n \in 1..Len(s) : p[Len(b) + n] = s[n]
  <2>1. ASSUME NEW n \in 1..Len(d) PROVE p[n] = d[n]
    <3>1. n \in 1..Len(a) /\ n \in 1..Len(b) /\ n \in 1..Len(c)
      BY <1>12
    <3>2. a[n] = d[n] /\ b[n] = a[n] /\ c[n] = b[n] /\ p[n] = c[n]
      BY <3>1, <1>7, <1>8, <1>9, <1>10
    <3> QED
      BY <3>2
  <2>2. ASSUME NEW n \in 1..Len(r) PROVE p[Len(d) + n] = r[n]
    <3>1. Len(d) + n \in 1..Len(a) /\ Len(d) + n \in 1..Len(b) /\ Len(d) + n \in 1..Len(c)
      BY <1>12
    <3>2. PICK k : k = Len(d) + n
      OBVIOUS
    <3>3. a[k] = r[n] /\ b[k] = a[k] /\ c[k] = b[k] /\ p[k] = c[k]
      BY <3>1, <3>2, <1>7, <1>8, <1>9, <1>10
    <3> QED
      BY <3>2, <3>3
  <2>3. ASSUME NEW n \in 1..Len(m) PROVE p[Len(a) + n] = m[n]
    <3>1. Len(a) + n \in 1..Len(b) /\ Len(a) + n \in 1..Len(c)
      BY <1>12
    <3>2. PICK k : k = Len(a) + n
      OBVIOUS
    <3>3. b[k] = m[n] /\ c[k] = b[k] /\ p[k] = c[k]
      BY <3>1, <3>2, <1>8, <1>9, <1>10
    <3> QED
      BY <3>2, <3>3
  <2>4. ASSUME NEW n \in 1..Len(s) PROVE p[Len(b) + n] = s[n]
    <3>1. Len(b) + n \in 1..Len(c)
      BY <1>12
    <3>2. PICK k : k = Len(b) + n
      OBVIOUS
    <3>3. c[k] = s[n] /\ p[k] = c[k]
      BY <3>1, <3>2, <1>9, <1>10
    <3> QED
      BY <3>2, <3>3
  <2> QED
    BY <2>1, <2>2, <2>3, <2>4
<1> QED
  BY <1>5, <1>6, <1>10, <1>11, <1>13 DEF Follow

\* Where the stages that the pipeline treats apart stand in a production plan.
LEMMA ProductionPlanFacts ==
    /\ ProductionPlan \in Seq(StageNames) /\ PublishAt \in 2..Len(ProductionPlan)
    /\ \A n \in 1..Len(ProductionPlan) :
          /\ ProductionPlan[n] = "publish_production_summary" <=> n = PublishAt
          /\ ProductionPlan[n] = "paper_trading_daily" <=> n = PublishAt - 1
          /\ ProductionPlan[n] \in Elements(SoftStages)
                => ProductionPlan[n] \notin Elements(ReportStages) \cup NamedStages
    /\ \A a \in Elements(ReportStages) :
          a \notin NamedStages /\ \E n \in 1..Len(ProductionPlan) : ProductionPlan[n] = a
    /\ SoftStages # <<>> =>
          ProductionPlan[Len(ProductionPlan)] = "publish_closed_loop_manifest"
<1>1. PICK U : U = StageNames \cup NamedStages
  OBVIOUS
<1>2. PICK m : m = <<"paper_trading_daily", "publish_production_summary">>
  OBVIOUS
<1>3. PICK t : t = IF SoftStages = <<>> THEN <<>> ELSE <<"publish_closed_loop_manifest">>
  OBVIOUS
<1>4. /\ m \in Seq(U) /\ Len(m) = 2
      /\ m[1] = "paper_trading_daily" /\ m[2] = "publish_production_summary"
  BY <1>1, <1>2 DEF NamedStages
<1>5. /\ t \in Seq(U) /\ Len(t) \in 0..1 /\ (SoftStages # <<>> => Len(t) = 1)
      /\ Len(t) = 1 => t[1] = "publish_closed_loop_manifest"
  <2>1. CASE SoftStages = <<>>
    BY <1>3, <2>1
  <2>2. CASE SoftStages # <<>>
    BY <1>1, <1>3, <2>2 DEF NamedStages
  <2> QED
    BY <2>1, <2>2
<1>6. /\ DailyStages \in Seq(U) /\ ReportStages \in Seq(U) /\ SoftStages \in Seq(U)
      /\ \A x \in Elements(DailyStages) \cup Elements(ReportStages) \cup Elements(SoftStages) :
            x \notin NamedStages
      /\ Elements(ReportStages) \cap Elements(SoftStages) = {}
  <2>1. ASSUME NEW stages \in {DailyStages, ReportStages, SoftStages}
        PROVE  stages \in Seq(U) /\ \A x \in Elements(stages) : x \notin NamedStages
    <3>1. stages \in Seq(StageNames) /\ Elements(stages) \cap NamedStages = {}
      BY StageAssumption
    <3> QED
      BY <1>1, <3>1
  <2> QED
    BY <2>1, StageAssumption
<1>7. PICK d : d = Len(DailyStages)
  OBVIOUS
<1>8. PICK r : r = Len(ReportStages)
  OBVIOUS
<1>9. PICK s : s = Len(SoftStages)
  OBVIOUS
<1>10. PICK p : p = ProductionPlan
  OBVIOUS
<1>11. /\ d \in Nat /\ r \in Nat /\ s \in Nat
       /\ \A n \in 1..d : DailyStages[n] \in Elements(DailyStages)
       /\ \A n \in 1..r : ReportStages[n] \in Elements(ReportStages)
       /\ \A n \in 1..s : SoftStages[n] \in Elements(SoftStages)
       /\ \A x \in Elements(ReportStages) : \E n \in 1..r : ReportStages[n] = x
  BY <1>6, <1>7, <1>8, <1>9 DEF Elements
<1>12. /\ p \in Seq(U) /\ Len(p) = d + r + 2 + s + Len(t)
       /\ \A n \in 1..d : p[n] = DailyStages[n]
       /\ \A n \in 1..r : p[d + n] = ReportStages[n]
       /\ \A n \in 1..2 : p[d + r + n] = m[n]
       /\ \A n \in 1..s : p[d + r + 2 + n] = SoftStages[n]
       /\ \A n \in 1..Len(t) : p[d + r + 2 + s + n] = t[n]
  <2>1. p = DailyStages \o ReportStages \o m \o SoftStages \o t
    BY <1>2, <1>3, <1>10 DEF ProductionPlan
  <2>2. p \in Seq(U) /\ Follow(p, DailyStages, ReportStages, m, SoftStages, t)
    BY <1>4, <1>5, <1>6, <2>1, ConcatFollow
  <2>3. Len(m) = 2
    BY <1>4
  <2> QED
    BY ONLY <1>7, <1>8, <1>9, <2>2, <2>3 DEF Follow
<1>13. ASSUME NEW n \in 1..Len(p)
       PROVE  \/ n \in 1..d /\ p[n] \in Elements(DailyStages)
              \/ n \in (d + 1)..(d + r) /\ p[n] \in Elements(ReportStages)
              \/ n = d + r + 1 /\ p[n] = "paper_trading_daily"
              \/ n = d + r + 2 /\ p[n] = "publish_production_summary"
              \/ n > d + r + 2 /\ p[n] \in Elements(SoftStages)
              \/ n > d + r + 2 /\ p[n] = "publish_closed_loop_manifest"
  <2>1. CASE n \in 1..d
    BY <1>11, <1>12, <2>1
  <2>2. CASE n \in (d + 1)..(d + r)
    <3>1. n - d \in 1..r /\ n = d + (n - d)
      BY <1>11, <2>2
    <3> QED
      BY <1>11, <1>12, <2>2, <3>1
  <2>3. CASE n = d + r + 1 \/ n = d + r + 2
    BY <1>4, <1>12, <2>3
  <2>4. CASE n \in (d + r + 3)..(d + r + 2 + s)
    <3>1. n - (d + r + 2) \in 1..s /\ n = d + r + 2 + (n - (d + r + 2)) /\ n > d + r + 2
      BY <1>11, <2>4
    <3> QED
      BY <1>11, <1>12, <3>1
  <2>5. CASE n > d + r + 2 + s
    <3>1. Len(t) = 1 /\ n = d + r + 2 + s + 1 /\ n > d + r + 2
      BY <1>5, <1>11, <1>12, <2>5, SMTT(30)
    <3> QED
      BY <1>5, <1>12, <3>1
  <2> QED
    BY <1>11, <1>12, <2>1, <2>2, <2>3, <2>4, <2>5
<1>14. p[d + r + 1] = "paper_trading_daily" /\ p[d + r + 2] = "publish_production_summary"
  BY <1>4, <1>12
<1>15. PublishAt = d + r + 2 /\ PublishAt \in 2..Len(p)
  BY <1>5, <1>7, <1>8, <1>11, <1>12 DEF PublishAt
<1>16. ASSUME NEW n \in 1..Len(p)
       PROVE  /\ p[n] = "publish_production_summary" <=> n = PublishAt
              /\ p[n] = "paper_trading_daily" <=> n = PublishAt - 1
              /\ p[n] \in Elements(SoftStages)
                    => p[n] \notin Elements(ReportStages) \cup NamedStages
  BY <1>6, <1>11, <1>13, <1>14, <1>15 DEF NamedStages
<1>17. \A a \in Elements(ReportStages) : \E n \in 1..Len(p) : p[n] = a
  <2> SUFFICES ASSUME NEW a \in Elements(ReportStages) PROVE \E n \in 1..Len(p) : p[n] = a
    OBVIOUS
  <2>1. PICK n \in 1..r : ReportStages[n] = a
    BY <1>11
  <2>2. d + n \in 1..Len(p) /\ p[d + n] = a
    BY <1>5, <1>11, <1>12, <2>1
  <2> QED
    BY <2>2
<1>18. SoftStages # <<>> => p[Len(p)] = "publish_closed_loop_manifest"
  <2> SUFFICES ASSUME SoftStages # <<>> PROVE p[Len(p)] = "publish_closed_loop_manifest"
    OBVIOUS
  <2>1. Len(t) = 1 /\ t[1] = "publish_closed_loop_manifest"
    BY <1>5
  <2>2. Len(p) = d + r + 2 + s + 1 /\ p[d + r + 2 + s + 1] = t[1]
    BY <1>12, <2>1
  <2> QED
    BY <2>1, <2>2
<1>19. p \in Seq(StageNames)
  <2>1. Elements(PlanOf("explicit")) \subseteq StageNames /\ PlanOf("explicit") = p
    BY <1>10, StageAssumption DEF Kinds, PlanOf
  <2> QED
    BY <1>12, <2>1 DEF Elements
<1> QED
  BY <1>6, <1>10, <1>15, <1>16, <1>17, <1>18, <1>19

\* Every kind of run has a plan of names that a manifest may carry.
LEMMA PlanType == ASSUME NEW k PROVE PlanOf(k) \in Seq(StageNames)
<1>1. CASE k = "dry"
  BY <1>1, StageAssumption DEF PlanOf, Kinds, Elements
<1>2. CASE k = "full"
  BY <1>2, StageAssumption DEF PlanOf, Kinds, Elements
<1> QED
  BY <1>1, <1>2, ProductionPlanFacts DEF PlanOf
-----------------------------------------------------------------------------
(* What the operations leave in a manifest *)

LEMMA NewRunFacts ==
    ASSUME NEW declared PROVE NewRun(declared) \in Manifests /\ NewRun(declared).status = "running"
BY DEF NewRun, Manifests, StageStatuses

LEMMA FailFacts ==
    ASSUME NEW m \in Manifests PROVE Fail(m) \in Manifests /\ Fail(m).status = "failed"
BY DEF Fail, Manifests, StageStatuses

LEMMA FailureFacts ==
    ASSUME NEW m \in Manifests, NEW stage \in StageNames \cup {NoStage}
    PROVE  /\ FailureRecorded(m, stage) \in Manifests
           /\ FailureRecorded(m, stage).status = "failed"
           /\ m.status = "failed" => FailureRecorded(m, stage) = m
<1> DEFINE selected == IF stage # NoStage THEN stage ELSE m.current
           n == [m EXCEPT !.stage[selected] = "failed", !.current = selected]
<1>1. CASE m.status = "failed"
  BY <1>1 DEF FailureRecorded
<1>2. CASE m.status # "failed" /\ selected = NoStage
  BY <1>2, FailFacts DEF FailureRecorded
<1>3. CASE m.status # "failed" /\ selected # NoStage
  <2>1. selected \in StageNames
    BY <1>3 DEF Manifests
  <2>2. n \in Manifests
    BY <2>1 DEF Manifests, StageStatuses
  <2>3. FailureRecorded(m, stage) = Fail(n)
    BY <1>3 DEF FailureRecorded
  <2> QED
    BY <1>3, <2>2, <2>3, FailFacts
<1> QED
  BY <1>1, <1>2, <1>3

LEMMA StageFacts ==
    ASSUME NEW m \in Manifests, NEW s \in StageNames
    PROVE  /\ StageStarted(m, s) \in Manifests /\ StageStarted(m, s).status = m.status
           /\ StageEnded(m, s, "success") \in Manifests
           /\ StageEnded(m, s, "success").status = m.status
<1>1. StageStarted(m, s) \in Manifests /\ StageStarted(m, s).status = m.status
  BY DEF StageStarted, Manifests, StageStatuses
<1>2. StageEnded(m, s, "success") = IF m.stage[s] = "success" THEN m
                    ELSE [m EXCEPT !.stage[s] = "success", !.current = NoStage]
  BY DEF StageEnded
<1>3. PICK n : n = [m EXCEPT !.stage[s] = "success", !.current = NoStage]
  OBVIOUS
<1>4. n \in Manifests /\ n.status = m.status
  BY <1>3 DEF Manifests, StageStatuses
<1> QED
  BY <1>1, <1>2, <1>3, <1>4

LEMMA SuccessFacts ==
    ASSUME NEW m \in Manifests, m.status = "running"
    PROVE  /\ StatusUpdated(m, "success") \in Manifests
           /\ StatusUpdated(m, "success").status = "success"
<1>1. StatusUpdated(m, "success") = [m EXCEPT !.status = "success", !.current = NoStage]
  BY DEF StatusUpdated, TerminalStatuses
<1> QED
  BY <1>1 DEF Manifests

-----------------------------------------------------------------------------
(* What an invocation at work is about *)

LEMMA WorkFacts ==
    ASSUME TypeOK, NEW i \in Invocations, Control(i), Position(i)
    PROVE  /\ pc[i] \in Inside \cup {"report", "escaped"} => RunOf(i) \in Runs
           /\ pc[i] \in {"work", "paper", "raised", "worked"} => StageOf(i) \in StageNames
           /\ pc[i] = "stage" /\ next[i] <= Len(Plan(i)) => StageOf(i) \in StageNames
<1>1. Plan(i) \in Seq(StageNames)
  BY PlanType DEF Plan
<1>2. MaxAttempts \in 1..3 /\ attempt[i] \in 0..MaxAttempts /\ next[i] \in Nat
  BY PipelineAssumption DEF TypeOK
<1>3. pc[i] \in Inside \cup {"report", "escaped"} => RunOf(i) \in Runs
  BY <1>2 DEF Control, RunOf, Runs
<1>4. \A n \in 1..Len(Plan(i)) : Plan(i)[n] \in StageNames
  BY <1>1
<1> QED
  BY <1>1, <1>2, <1>3, <1>4 DEF Position, StageOf

-----------------------------------------------------------------------------
(* Types *)

LEMMA TypeStep ==
    ASSUME TypeOK, NEW i \in Invocations, Control(i), Position(i), Recorded(i), Step(i)
    PROVE  TypeOK'
<1>0. /\ MaxAttempts \in 1..3 /\ Triggers \subseteq Kinds
      /\ attempt[i] \in 0..MaxAttempts /\ next[i] \in Nat
  BY PipelineAssumption DEF TypeOK
<1>1. ASSUME NEW m \in Manifests, pc[i] \in Inside \cup {"report", "escaped"},
             man' = [man EXCEPT ![RunOf(i)] = m]
      PROVE  man' \in [Runs -> Manifests \cup {NoRun}]
  BY <1>1, WorkFacts DEF TypeOK
<1>2. ASSUME NEW stage, stage \in StageNames \cup {NoStage}, FailRun(i, stage),
             pc[i] \in AtWork
      PROVE  /\ man' \in [Runs -> Manifests \cup {NoRun}]
             /\ outcome' \in [Invocations -> {"none", "success", "failed"}]
             /\ pc' \in [Invocations -> Places]
  <2>1. man[RunOf(i)] \in Manifests
    BY <1>2, WorkFacts DEF Recorded, TypeOK, AtWork, Inside
  <2>2. FailureRecorded(man[RunOf(i)], stage) \in Manifests
    BY <1>2, <2>1, FailureFacts
  <2>3. pc[i] \in Inside
    BY <1>2 DEF AtWork, Inside
  <2>4. man' \in [Runs -> Manifests \cup {NoRun}]
    BY <1>1, <1>2, <2>2, <2>3 DEF FailRun
  <2> QED
    BY <1>2, <2>4 DEF FailRun, Goto, TypeOK, Places
<1>3. CASE Trigger(i)
  BY <1>0, <1>3 DEF Trigger, TypeOK, Goto, Finish, Places, fileVars
<1>4. CASE NotToday(i) \/ ReadSummary(i) \/ SkipSuccessful(i) \/ NothingPublished(i)
  <2>1. CASE NotToday(i)
    BY <2>1 DEF NotToday, TypeOK, Finish, Places, fileVars
  <2>2. CASE ReadSummary(i)
    BY <2>2 DEF ReadSummary, TypeOK, Goto, Places, fileVars
  <2>3. CASE SkipSuccessful(i)
    BY <2>3 DEF SkipSuccessful, TypeOK, Finish, Places, fileVars
  <2>4. CASE NothingPublished(i)
    BY <2>4 DEF NothingPublished, TypeOK, Goto, Places, fileVars
  <2> QED
    BY <1>4, <2>1, <2>2, <2>3, <2>4
<1>5. CASE AcquireLock(i)
  <2>1. attempt[i] + 1 \in 0..MaxAttempts
    BY <1>0, <1>5 DEF AcquireLock, Control
  <2> QED
    BY <1>5, <2>1 DEF AcquireLock, TypeOK, Goto, Places, fileVars
<1>6. CASE LockRefused(i)
  BY <1>0, <1>6 DEF LockRefused, TypeOK, Goto, Finish, Places, fileVars
<1>7. CASE CreateRun(i)
  <2>1. NewRun(Elements(Plan(i))) \in Manifests
    BY NewRunFacts
  <2>2. man' \in [Runs -> Manifests \cup {NoRun}]
    BY <1>1, <1>7, <2>1 DEF CreateRun, Inside
  <2> QED
    BY <1>7, <2>2 DEF CreateRun, TypeOK, Goto, Places
<1>8. CASE ResolveFails(i)
  <2>1. FailRun(i, NoStage) /\ pc[i] \in AtWork
    BY <1>8 DEF ResolveFails, AtWork
  <2>2. /\ man' \in [Runs -> Manifests \cup {NoRun}]
        /\ outcome' \in [Invocations -> {"none", "success", "failed"}]
        /\ pc' \in [Invocations -> Places]
    BY <1>2, <2>1
  <2>3. UNCHANGED <<kind, holder, status, reason, attempt, next, seen,
                    artifact, pending, summary, loop>>
    BY <1>8 DEF ResolveFails
  <2> QED
    BY <2>2, <2>3 DEF TypeOK
<1>9. CASE ResolveAsOf(i) \/ PaperTraded(i) \/ SoftStageFails(i) \/ Validate(i)
  <2>1. CASE ResolveAsOf(i)
    BY <2>1 DEF ResolveAsOf, TypeOK, Goto, Places, fileVars
  <2>2. CASE PaperTraded(i)
    BY <2>2 DEF PaperTraded, TypeOK, Goto, Places, fileVars
  <2>3. CASE SoftStageFails(i)
    BY <2>3 DEF SoftStageFails, TypeOK, Goto, Places, fileVars
  <2>4. CASE Validate(i)
    BY <2>4 DEF Validate, TypeOK, Goto, Places, fileVars
  <2> QED
    BY <1>9, <2>1, <2>2, <2>3, <2>4
<1>10. CASE StageStart(i)
  <2>1. pc[i] \in AtWork /\ StageOf(i) \in StageNames
    BY <1>10, WorkFacts DEF StageStart, AtWork
  <2>2. man[RunOf(i)] \in Manifests
    BY <2>1, WorkFacts DEF Recorded, TypeOK, AtWork, Inside
  <2>3. StageStarted(man[RunOf(i)], StageOf(i)) \in Manifests
    BY <2>1, <2>2, StageFacts
  <2>4. man' \in [Runs -> Manifests \cup {NoRun}]
    BY <1>1, <1>10, <2>3 DEF StageStart, Inside
  <2> QED
    BY <1>10, <2>4 DEF StageStart, TypeOK, Goto, Places
<1>11. CASE StageWork(i)
  <2>1. RunOf(i) \in Runs
    BY <1>11, WorkFacts DEF StageWork, Inside
  <2> QED
    BY <1>11, <2>1 DEF StageWork, TypeOK, Goto, Places
<1>12. CASE PaperPending(i)
  <2>1. RunOf(i) \in Runs
    BY <1>12, WorkFacts DEF PaperPending, Inside
  <2> QED
    BY <1>12, <2>1 DEF PaperPending, TypeOK, Goto, Places
<1>13. CASE PaperFails(i)
  BY <1>13 DEF PaperFails, TypeOK, Goto, Places
<1>14. CASE StageFails(i)
  <2>1. FailRun(i, StageOf(i)) /\ pc[i] \in AtWork /\ StageOf(i) \in StageNames
    BY <1>14, WorkFacts DEF StageFails, AtWork
  <2> QED
    BY <1>2, <1>14, <2>1 DEF StageFails, TypeOK
<1>15. CASE StageEnd(i)
  <2>1. pc[i] \in AtWork /\ StageOf(i) \in StageNames
    BY <1>15, WorkFacts DEF StageEnd, AtWork
  <2>2. man[RunOf(i)] \in Manifests
    BY <2>1, WorkFacts DEF Recorded, TypeOK, AtWork, Inside
  <2>3. StageEnded(man[RunOf(i)], StageOf(i), "success") \in Manifests
    BY <2>1, <2>2, StageFacts
  <2>4. man' \in [Runs -> Manifests \cup {NoRun}]
    BY <1>1, <1>15, <2>3 DEF StageEnd, Inside
  <2> QED
    BY <1>0, <1>15, <2>4 DEF StageEnd, TypeOK, Goto, Places
<1>16. CASE ValidationFails(i)
  <2>1. "publish_production_summary" \in StageNames
    BY ProductionPlanFacts
  <2>2. FailRun(i, "publish_production_summary") /\ pc[i] \in AtWork
    BY <1>16 DEF ValidationFails, AtWork
  <2> QED
    BY <1>2, <1>16, <2>1, <2>2 DEF ValidationFails, TypeOK
<1>17. CASE CommitSuccess(i)
  <2>1. pc[i] \in AtWork
    BY <1>17 DEF CommitSuccess, AtWork
  <2>2. man[RunOf(i)] \in Manifests /\ man[RunOf(i)].status = "running"
    BY <2>1, WorkFacts DEF Recorded, TypeOK, AtWork, Inside
  <2>3. StatusUpdated(man[RunOf(i)], "success") \in Manifests
    BY <2>2, SuccessFacts
  <2>4. man' \in [Runs -> Manifests \cup {NoRun}]
    BY <1>1, <1>17, <2>3 DEF CommitSuccess, Inside
  <2> QED
    BY <1>17, <2>4 DEF CommitSuccess, TypeOK, Goto, Places
<1>18. CASE ReleaseLock(i) \/ Escape(i) \/ Unreported(i) \/ Crash(i)
  BY <1>0, <1>18 DEF ReleaseLock, Escape, Unreported, Crash, TypeOK, Goto, Places, fileVars
<1>19. CASE Escaped(i)
  <2>1. CASE man[RunOf(i)] # NoRun /\ man' = [man EXCEPT ![RunOf(i)] = FailureRecorded(@, NoStage)]
    <3>1. RunOf(i) \in Runs
      BY <1>19, WorkFacts DEF Escaped
    <3>2. FailureRecorded(man[RunOf(i)], NoStage) \in Manifests
      BY <2>1, <3>1, FailureFacts DEF TypeOK
    <3>3. man' \in [Runs -> Manifests \cup {NoRun}]
      BY <2>1, <3>1, <3>2 DEF TypeOK
    <3> QED
      BY <1>19, <3>3 DEF Escaped, TypeOK, Goto, Places
  <2>2. CASE man' = man
    BY <1>19, <2>2 DEF Escaped, TypeOK, Goto, Places
  <2> QED
    BY <1>19, <2>1, <2>2 DEF Escaped
<1>20. CASE CloseEscaped(i) \/ Retry(i) \/ ReportFailure(i) \/ ReportSuccess(i)
  <2>0. CASE CloseEscaped(i)
    BY <2>0 DEF CloseEscaped, TypeOK, Finish, Places, fileVars
  <2>1. CASE Retry(i)
    BY <2>1 DEF Retry, TypeOK, Goto, Places, fileVars
  <2>2. CASE ReportFailure(i)
    BY <2>2 DEF ReportFailure, TypeOK, Finish, Places, fileVars
  <2>3. CASE ReportSuccess(i)
    BY <2>3 DEF ReportSuccess, TypeOK, Finish, Places, fileVars
  <2> QED
    BY <1>20, <2>0, <2>1, <2>2, <2>3
<1> QED
  BY <1>3, <1>4, <1>5, <1>6, <1>7, <1>8, <1>9, <1>10, <1>11, <1>12, <1>13, <1>14, <1>15, <1>16, <1>17, <1>18, <1>19, <1>20, ZenonT(60) DEF Step, Proceed
-----------------------------------------------------------------------------
(* One invocation *)

\* A step of an invocation leaves alone the records and the runs of all others.
LEMMA StepAlone ==
    ASSUME TypeOK, NEW i \in Invocations, Step(i) PROVE Alone(i)
<1> USE DEF TypeOK, Alone, Goto, Finish, FailRun, fileVars, RunOf, Runs
<1>1. CASE Trigger(i)
  BY <1>1 DEF Trigger
<1>2. CASE NotToday(i)
  BY <1>2 DEF NotToday
<1>3. CASE ReadSummary(i)
  BY <1>3 DEF ReadSummary
<1>4. CASE SkipSuccessful(i)
  BY <1>4 DEF SkipSuccessful
<1>5. CASE NothingPublished(i)
  BY <1>5 DEF NothingPublished
<1>6. CASE LockRefused(i)
  BY <1>6 DEF LockRefused
<1>7. CASE AcquireLock(i)
  BY <1>7 DEF AcquireLock
<1>8. CASE CreateRun(i)
  BY <1>8 DEF CreateRun
<1>9. CASE ResolveFails(i) \/ ResolveAsOf(i)
  BY <1>9 DEF ResolveFails, ResolveAsOf
<1>10. CASE StageStart(i)
  BY <1>10 DEF StageStart
<1>11. CASE StageWork(i)
  BY <1>11 DEF StageWork
<1>12. CASE PaperPending(i) \/ PaperTraded(i)
  BY <1>12 DEF PaperPending, PaperTraded
<1>13. CASE PaperFails(i)
  BY <1>13 DEF PaperFails
<1>14. CASE StageFails(i) \/ SoftStageFails(i)
  BY <1>14 DEF StageFails, SoftStageFails
<1>15. CASE StageEnd(i)
  BY <1>15 DEF StageEnd
<1>16. CASE Validate(i)
  BY <1>16 DEF Validate
<1>17. CASE ValidationFails(i)
  BY <1>17 DEF ValidationFails
<1>18. CASE CommitSuccess(i)
  BY <1>18 DEF CommitSuccess
<1>19. CASE ReleaseLock(i) \/ Escape(i)
  BY <1>19 DEF ReleaseLock, Escape
<1>20. CASE Escaped(i) \/ CloseEscaped(i) \/ Unreported(i) \/ Crash(i)
  BY <1>20 DEF Escaped, CloseEscaped, Unreported, Crash
<1>21. CASE Retry(i) \/ ReportFailure(i) \/ ReportSuccess(i)
  BY <1>21, SMTT(10), ZenonT(60) DEF Retry, ReportFailure, ReportSuccess
<1> QED
  BY <1>1, <1>2, <1>3, <1>4, <1>5, <1>6, <1>7, <1>8, <1>9, <1>10, <1>11, <1>12, <1>13, <1>14, <1>15, <1>16, <1>17, <1>18, <1>19, <1>20, <1>21, ZenonT(60) DEF Step, Proceed

\* The lock is taken when it is free and given back by the one that has it.
LEMMA LockStep ==
    ASSUME TypeOK, InsideHoldsLock, NEW i \in Invocations, Step(i) PROVE InsideHoldsLock'
<1>0. pc \in [Invocations -> Places] /\ Nobody \notin Invocations
  BY PipelineAssumption DEF TypeOK
<1> USE <1>0 DEF InsideHoldsLock, Inside, Goto, Finish, FailRun, fileVars
<1>1. CASE Trigger(i)
  BY <1>1 DEF Trigger
<1>2. CASE NotToday(i)
  BY <1>2 DEF NotToday
<1>3. CASE ReadSummary(i)
  BY <1>3 DEF ReadSummary
<1>4. CASE SkipSuccessful(i)
  BY <1>4 DEF SkipSuccessful
<1>5. CASE NothingPublished(i)
  BY <1>5 DEF NothingPublished
<1>6. CASE LockRefused(i)
  BY <1>6 DEF LockRefused
<1>7. CASE AcquireLock(i)
  BY <1>7 DEF AcquireLock
<1>8. CASE CreateRun(i)
  BY <1>8 DEF CreateRun
<1>9. CASE ResolveFails(i) \/ ResolveAsOf(i)
  BY <1>9 DEF ResolveFails, ResolveAsOf
<1>10. CASE StageStart(i)
  BY <1>10 DEF StageStart
<1>11. CASE StageWork(i)
  BY <1>11 DEF StageWork
<1>12. CASE PaperPending(i) \/ PaperTraded(i)
  BY <1>12 DEF PaperPending, PaperTraded
<1>13. CASE PaperFails(i)
  BY <1>13 DEF PaperFails
<1>14. CASE StageFails(i) \/ SoftStageFails(i)
  BY <1>14 DEF StageFails, SoftStageFails
<1>15. CASE StageEnd(i)
  BY <1>15 DEF StageEnd
<1>16. CASE Validate(i)
  BY <1>16 DEF Validate
<1>17. CASE ValidationFails(i)
  BY <1>17 DEF ValidationFails
<1>18. CASE CommitSuccess(i)
  BY <1>18 DEF CommitSuccess
<1>19. CASE ReleaseLock(i) \/ Escape(i)
  BY <1>19 DEF ReleaseLock, Escape
<1>20. CASE Escaped(i) \/ CloseEscaped(i) \/ Unreported(i) \/ Crash(i)
  BY <1>20 DEF Escaped, CloseEscaped, Unreported, Crash
<1>21. CASE Retry(i) \/ ReportFailure(i) \/ ReportSuccess(i)
  BY <1>21 DEF Retry, ReportFailure, ReportSuccess
<1> QED
  BY <1>1, <1>2, <1>3, <1>4, <1>5, <1>6, <1>7, <1>8, <1>9, <1>10, <1>11, <1>12, <1>13, <1>14, <1>15, <1>16, <1>17, <1>18, <1>19, <1>20, <1>21, ZenonT(60) DEF Step, Proceed

LEMMA ControlStep ==
    ASSUME TypeOK, NEW i \in Invocations, Control(i), Step(i) PROVE Control(i)'
<1>0. /\ kind \in [Invocations -> Kinds \cup {"none"}]
      /\ status \in [Invocations -> {"none", "running", "success", "failed", "skipped"}]
      /\ attempt \in [Invocations -> 0..MaxAttempts]
      /\ pc \in [Invocations -> Places]
      /\ outcome \in [Invocations -> {"none", "success", "failed"}]
      /\ MaxAttempts \in 1..3 /\ Triggers \subseteq Kinds
  BY PipelineAssumption DEF TypeOK
<1> USE <1>0 DEF Goto, Finish, FailRun, Inside, AtWork, Control, fileVars
<1>1. CASE Trigger(i)
  BY <1>1 DEF Trigger
<1>2. CASE NotToday(i)
  BY <1>2 DEF NotToday
<1>3. CASE ReadSummary(i)
  BY <1>3 DEF ReadSummary
<1>4. CASE SkipSuccessful(i)
  BY <1>4 DEF SkipSuccessful
<1>5. CASE NothingPublished(i)
  BY <1>5 DEF NothingPublished
<1>6. CASE LockRefused(i)
  BY <1>6 DEF LockRefused
<1>7. CASE AcquireLock(i)
  BY <1>7 DEF AcquireLock
<1>8. CASE CreateRun(i)
  BY <1>8 DEF CreateRun
<1>9. CASE ResolveFails(i) \/ ResolveAsOf(i)
  BY <1>9 DEF ResolveFails, ResolveAsOf
<1>10. CASE StageStart(i)
  BY <1>10 DEF StageStart
<1>11. CASE StageWork(i)
  BY <1>11 DEF StageWork
<1>12. CASE PaperPending(i) \/ PaperTraded(i)
  BY <1>12 DEF PaperPending, PaperTraded
<1>13. CASE PaperFails(i)
  BY <1>13 DEF PaperFails
<1>14. CASE StageFails(i) \/ SoftStageFails(i)
  BY <1>14 DEF StageFails, SoftStageFails
<1>15. CASE StageEnd(i)
  BY <1>15 DEF StageEnd
<1>16. CASE Validate(i)
  BY <1>16 DEF Validate
<1>17. CASE ValidationFails(i)
  BY <1>17 DEF ValidationFails
<1>18. CASE CommitSuccess(i)
  BY <1>18 DEF CommitSuccess
<1>19. CASE ReleaseLock(i) \/ Escape(i)
  BY <1>19 DEF ReleaseLock, Escape
<1>20. CASE Escaped(i) \/ CloseEscaped(i) \/ Unreported(i) \/ Crash(i)
  BY <1>20 DEF Escaped, CloseEscaped, Unreported, Crash
<1>21. CASE Retry(i) \/ ReportFailure(i) \/ ReportSuccess(i)
  BY <1>21, SMTT(10), ZenonT(60) DEF Retry, ReportFailure, ReportSuccess
<1> QED
  BY <1>1, <1>2, <1>3, <1>4, <1>5, <1>6, <1>7, <1>8, <1>9, <1>10, <1>11, <1>12, <1>13, <1>14, <1>15, <1>16, <1>17, <1>18, <1>19, <1>20, <1>21, ZenonT(60) DEF Step, Proceed

LEMMA PositionStep ==
    ASSUME TypeOK, NEW i \in Invocations, Position(i), Step(i) PROVE Position(i)'
<1>0. /\ kind \in [Invocations -> Kinds \cup {"none"}]
      /\ pc \in [Invocations -> Places]
      /\ next \in [Invocations -> Nat]
      /\ Len(Plan(i)) \in Nat
  BY PlanType DEF TypeOK, Plan
<1> USE <1>0 DEF Goto, Finish, FailRun, Position, Plan, StageOf, fileVars
<1>1. CASE Trigger(i)
  BY <1>1 DEF Trigger
<1>2. CASE NotToday(i)
  BY <1>2 DEF NotToday
<1>3. CASE ReadSummary(i)
  BY <1>3 DEF ReadSummary
<1>4. CASE SkipSuccessful(i)
  BY <1>4 DEF SkipSuccessful
<1>5. CASE NothingPublished(i)
  BY <1>5 DEF NothingPublished
<1>6. CASE AcquireLock(i)
  BY <1>6 DEF AcquireLock
<1>7. CASE LockRefused(i)
  BY <1>7 DEF LockRefused
<1>8. CASE CreateRun(i)
  BY <1>8 DEF CreateRun
<1>9. CASE ResolveFails(i)
  BY <1>9 DEF ResolveFails
<1>10. CASE ResolveAsOf(i)
  BY <1>10 DEF ResolveAsOf
<1>11. CASE StageStart(i)
  BY <1>11 DEF StageStart
<1>12. CASE StageWork(i)
  BY <1>12 DEF StageWork
<1>13. CASE PaperPending(i)
  BY <1>13 DEF PaperPending
<1>14. CASE PaperTraded(i)
  BY <1>14 DEF PaperTraded
<1>15. CASE PaperFails(i)
  BY <1>15 DEF PaperFails
<1>16. CASE StageFails(i)
  BY <1>16 DEF StageFails
<1>17. CASE SoftStageFails(i)
  BY <1>17 DEF SoftStageFails
<1>18. CASE StageEnd(i)
  <2>1. /\ next'[i] = next[i] + 1 /\ pc'[i] = "stage" /\ kind' = kind
        /\ next[i] \in 1..Len(Plan(i))
    BY <1>18 DEF StageEnd
  <2> QED
    BY <2>1
<1>19. CASE Validate(i)
  <2>1. /\ next' = next /\ pc'[i] = "commit" /\ kind' = kind
        /\ next[i] > Len(Plan(i))
    BY <1>19 DEF Validate
  <2> QED
    BY <2>1
<1>20. CASE ValidationFails(i)
  BY <1>20 DEF ValidationFails
<1>21. CASE CommitSuccess(i)
  BY <1>21 DEF CommitSuccess
<1>22. CASE ReleaseLock(i)
  BY <1>22 DEF ReleaseLock
<1>23. CASE Escape(i)
  BY <1>23 DEF Escape
<1>24. CASE Escaped(i)
  BY <1>24 DEF Escaped
<1>25. CASE Retry(i)
  BY <1>25 DEF Retry
<1>26. CASE ReportFailure(i)
  BY <1>26 DEF ReportFailure
<1>27. CASE ReportSuccess(i)
  BY <1>27 DEF ReportSuccess
<1>28. CASE Crash(i)
  BY <1>28 DEF Crash
<1>29. CASE CloseEscaped(i)
  BY <1>29 DEF CloseEscaped
<1>30. CASE Unreported(i)
  BY <1>30 DEF Unreported
<1> QED
  BY <1>1, <1>2, <1>3, <1>4, <1>5, <1>6, <1>7, <1>8, <1>9, <1>10, <1>11, <1>12, <1>13, <1>14, <1>15, <1>16, <1>17, <1>18, <1>19, <1>20, <1>21, <1>22, <1>23, <1>24, <1>25, <1>26, <1>27, <1>28, <1>29, <1>30, ZenonT(60) DEF Step, Proceed

\* Each step of an invocation keeps its result and the manifests of its runs in line.
LEMMA RecordedStep ==
    ASSUME TypeOK, NEW i \in Invocations, Control(i), Position(i), Recorded(i), Step(i)
    PROVE  Recorded(i)'
<1>0. /\ MaxAttempts \in 1..3 /\ attempt \in [Invocations -> 0..MaxAttempts]
      /\ pc \in [Invocations -> Places]
      /\ outcome \in [Invocations -> {"none", "success", "failed"}]
      /\ man \in [Runs -> Manifests \cup {NoRun}] /\ NoRun \notin Manifests
      /\ \A n \in 1..MaxAttempts : <<i, n>> \in Runs
  BY PipelineAssumption DEF TypeOK, Runs
\* A step that writes no manifest, begins no run and has no new result.
<1>1. ASSUME man' = man, attempt' = attempt, outcome' = outcome,
             pc'[i] \in AtWork \cup {"create"} => pc[i] \in AtWork /\ pc'[i] # "create",
             pc[i] \in Inside \cup {"escaped", "closing"}
                => outcome[i] # "none" \/ pc'[i] \in Inside \cup {"dead", "escaped", "closing", "done"},
             pc[i] # "dead" \/ pc'[i] = "dead",
             pc[i] # "done" \/ pc'[i] = "done"
      PROVE  Recorded(i)'
  <2>1. RunOf(i)' = RunOf(i)
    BY <1>1 DEF RunOf
  <2>2. ASSUME NEW n \in 1..MaxAttempts, man[<<i, n>>] # NoRun, man[<<i, n>>].status = "running"
        PROVE  /\ n = attempt[i]
               /\ \/ pc'[i] \in Inside \cup {"dead", "escaped", "closing"}
                  \/ pc'[i] = "done" /\ outcome[i] = "none"
    <3>1. /\ n = attempt[i]
          /\ \/ pc[i] \in Inside \cup {"dead", "escaped", "closing"}
             \/ pc[i] = "done" /\ outcome[i] = "none"
      BY <2>2 DEF Recorded
    <3>2. <<i, n>> = RunOf(i)
      BY <3>1 DEF RunOf
    <3>3. outcome[i] = "none"
      BY <2>2, <3>2 DEF Recorded
    <3> QED
      BY <1>1, <3>1, <3>3
  <2>3. pc'[i] \in AtWork => man[RunOf(i)] # NoRun /\ man[RunOf(i)].status = "running"
    BY <1>1 DEF Recorded, AtWork
  <2> QED
    BY <1>1, <2>1, <2>2, <2>3 DEF Recorded, AtWork
\* A step that writes the manifest of the current run.
<1>2. ASSUME NEW m \in Manifests, man' = [man EXCEPT ![RunOf(i)] = m], attempt' = attempt,
             attempt[i] # 0,
             pc'[i] # "create", pc'[i] \in AtWork => m.status = "running",
             m.status = "running" => pc'[i] \in Inside,
             outcome'[i] # "none" => m.status = IF outcome'[i] = "success" THEN "success" ELSE "failed",
             pc[i] \in Inside \cup {"escaped"}
      PROVE  Recorded(i)'
  <2>1. RunOf(i)' = RunOf(i) /\ RunOf(i) \in Runs /\ attempt[i] \in 1..MaxAttempts
    BY <1>0, <1>2 DEF RunOf, Runs
  <2>2. man'[RunOf(i)] = m /\ m # NoRun
    BY <1>0, <1>2, <2>1
  <2>3. \A n \in 1..MaxAttempts : n # attempt[i] => man'[<<i, n>>] = man[<<i, n>>]
    BY <1>0, <1>2 DEF RunOf
  <2>4. \A n \in 1..MaxAttempts : n > attempt[i] => man'[<<i, n>>] = NoRun
    BY <1>0, <2>1, <2>3 DEF Recorded
  <2>5. ASSUME NEW n \in 1..MaxAttempts, man'[<<i, n>>] # NoRun, man'[<<i, n>>].status = "running"
        PROVE  n = attempt[i] /\ pc'[i] \in Inside
    <3>1. n = attempt[i]
      BY <2>3, <2>5 DEF Recorded
    <3> QED
      BY <1>2, <2>2, <2>5, <3>1 DEF RunOf
  <2> QED
    BY <1>2, <2>1, <2>2, <2>4, <2>5 DEF Recorded
<1>3. ASSUME NEW stage, stage \in StageNames \cup {NoStage}, FailRun(i, stage), pc[i] \in AtWork,
             attempt' = attempt
      PROVE  Recorded(i)'
  <2>1. RunOf(i) \in Runs /\ man[RunOf(i)] \in Manifests
    BY <1>0, <1>3, WorkFacts DEF Recorded, AtWork, Inside
  <2>2. PICK m \in Manifests : m = FailureRecorded(man[RunOf(i)], stage) /\ m.status = "failed"
    BY <1>3, <2>1, FailureFacts
  <2>3. man' = [man EXCEPT ![RunOf(i)] = m] /\ outcome'[i] = "failed"
        /\ pc'[i] = "release"
    BY <1>0, <1>3, <2>2 DEF FailRun, Goto
  <2>4. attempt[i] # 0 /\ pc[i] \in Inside
    BY <1>3 DEF Control, AtWork, Inside
  <2> QED
    BY <1>2, <1>3, <2>2, <2>3, <2>4 DEF AtWork
<1> USE DEF Goto, Finish, fileVars
<1>4. CASE Trigger(i) \/ NotToday(i) \/ ReadSummary(i) \/ SkipSuccessful(i)
          \/ NothingPublished(i) \/ LockRefused(i)
  <2>1. /\ man' = man /\ attempt' = attempt /\ outcome' = outcome
    BY <1>4 DEF Trigger, NotToday, ReadSummary, SkipSuccessful, NothingPublished, LockRefused
  <2>2. /\ pc'[i] \in AtWork \cup {"create"} => pc[i] \in AtWork /\ pc'[i] # "create"
        /\ pc[i] \in Inside \cup {"escaped", "closing"}
              => outcome[i] # "none" \/ pc'[i] \in Inside \cup {"dead", "escaped", "closing", "done"}
        /\ pc[i] # "dead" \/ pc'[i] = "dead"
        /\ pc[i] # "done" \/ pc'[i] = "done"
    BY <1>0, <1>4 DEF Trigger, NotToday, ReadSummary, SkipSuccessful, NothingPublished, LockRefused, AtWork, Inside, Control
  <2> QED
    BY <1>1, <2>1, <2>2
<1>5. CASE ResolveAsOf(i) \/ StageWork(i) \/ PaperPending(i) \/ PaperTraded(i)
          \/ PaperFails(i) \/ SoftStageFails(i) \/ Validate(i)
  <2>1. /\ man' = man /\ attempt' = attempt /\ outcome' = outcome
    BY <1>5 DEF ResolveAsOf, StageWork, PaperPending, PaperTraded, PaperFails, SoftStageFails, Validate
  <2>2. /\ pc'[i] \in AtWork \cup {"create"} => pc[i] \in AtWork /\ pc'[i] # "create"
        /\ pc[i] \in Inside \cup {"escaped", "closing"}
              => outcome[i] # "none" \/ pc'[i] \in Inside \cup {"dead", "escaped", "closing", "done"}
        /\ pc[i] # "dead" \/ pc'[i] = "dead"
        /\ pc[i] # "done" \/ pc'[i] = "done"
    BY <1>0, <1>5 DEF ResolveAsOf, StageWork, PaperPending, PaperTraded, PaperFails, SoftStageFails, Validate, AtWork, Inside, Control
  <2> QED
    BY <1>1, <2>1, <2>2
<1>6. CASE ReleaseLock(i) \/ Escape(i) \/ CloseEscaped(i) \/ Unreported(i) \/ Crash(i)
          \/ Retry(i) \/ ReportFailure(i) \/ ReportSuccess(i)
  <2>1. /\ man' = man /\ attempt' = attempt /\ outcome' = outcome
    BY <1>6 DEF ReleaseLock, Escape, CloseEscaped, Unreported, Crash, Retry, ReportFailure, ReportSuccess
  <2>2. /\ pc'[i] \in AtWork \cup {"create"} => pc[i] \in AtWork /\ pc'[i] # "create"
        /\ pc[i] \in Inside \cup {"escaped", "closing"}
              => outcome[i] # "none" \/ pc'[i] \in Inside \cup {"dead", "escaped", "closing", "done"}
        /\ pc[i] # "dead" \/ pc'[i] = "dead"
        /\ pc[i] # "done" \/ pc'[i] = "done"
    BY <1>0, <1>6 DEF ReleaseLock, Escape, CloseEscaped, Unreported, Crash, Retry, ReportFailure, ReportSuccess, AtWork, Inside, Control
  <2> QED
    BY <1>1, <2>1, <2>2
<1>7. CASE AcquireLock(i)
  <2>1. pc[i] = "ready" /\ pc'[i] = "create" /\ attempt'[i] = attempt[i] + 1
        /\ outcome'[i] = "none" /\ man' = man
    BY <1>0, <1>7 DEF AcquireLock
  <2>2. attempt[i] + 1 \in 1..MaxAttempts
    BY <1>0, <2>1 DEF Control
  <2>3. man[<<i, attempt[i] + 1>>] = NoRun
    BY <1>0, <2>2 DEF Recorded
  <2>4. \A n \in 1..MaxAttempts : man[<<i, n>>] = NoRun \/ man[<<i, n>>].status # "running"
    BY <2>1 DEF Recorded, Inside
  <2>5. \A n \in 1..MaxAttempts : n > attempt[i] + 1 => man[<<i, n>>] = NoRun
    BY <1>0 DEF Recorded
  <2> QED
    BY <2>1, <2>3, <2>4, <2>5 DEF Recorded, RunOf, AtWork
<1>8. CASE CreateRun(i)
  <2>1. attempt[i] # 0 /\ pc[i] \in Inside /\ outcome[i] = "none"
    BY <1>8 DEF AtWork, Inside, Control, CreateRun
  <2>2. PICK m \in Manifests : m = NewRun(Elements(Plan(i))) /\ m.status = "running"
    BY NewRunFacts
  <2>3. man' = [man EXCEPT ![RunOf(i)] = m] /\ attempt' = attempt /\ pc'[i] = "resolve"
        /\ outcome'[i] = "none"
    BY <1>0, <1>8, <2>1, <2>2 DEF CreateRun
  <2> QED
    BY <1>2, <2>1, <2>2, <2>3 DEF AtWork, Inside
<1>9. CASE ResolveFails(i)
  <2>1. FailRun(i, NoStage) /\ pc[i] \in AtWork /\ NoStage \in StageNames \cup {NoStage}
    BY <1>9 DEF ResolveFails, AtWork
  <2> QED
    BY <1>3, <1>9, <2>1 DEF ResolveFails
<1>10. CASE StageStart(i)
  <2>1. RunOf(i) \in Runs /\ man[RunOf(i)] \in Manifests /\ man[RunOf(i)].status = "running"
        /\ attempt[i] # 0 /\ pc[i] \in Inside /\ outcome[i] = "none"
    BY <1>0, <1>10, WorkFacts DEF Recorded, AtWork, Inside, Control, StageStart
  <2>2. PICK m \in Manifests : m = StageStarted(man[RunOf(i)], StageOf(i)) /\ m.status = "running"
    BY <1>10, <2>1, WorkFacts, StageFacts DEF StageStart
  <2>3. man' = [man EXCEPT ![RunOf(i)] = m] /\ attempt' = attempt /\ pc'[i] = "work"
        /\ outcome'[i] = "none"
    BY <1>0, <1>10, <2>1, <2>2 DEF StageStart
  <2> QED
    BY <1>2, <2>1, <2>2, <2>3 DEF AtWork, Inside
<1>12. CASE StageFails(i)
  <2>1. FailRun(i, StageOf(i)) /\ pc[i] \in AtWork /\ StageOf(i) \in StageNames \cup {NoStage}
    BY <1>12, WorkFacts DEF StageFails, AtWork
  <2> QED
    BY <1>3, <1>12, <2>1 DEF StageFails
<1>13. CASE StageEnd(i)
  <2>1. RunOf(i) \in Runs /\ man[RunOf(i)] \in Manifests /\ man[RunOf(i)].status = "running"
        /\ attempt[i] # 0 /\ pc[i] \in Inside /\ outcome[i] = "none"
    BY <1>0, <1>13, WorkFacts DEF Recorded, AtWork, Inside, Control, StageEnd
  <2>2. PICK m \in Manifests : m = StageEnded(man[RunOf(i)], StageOf(i), "success") /\ m.status = "running"
    BY <1>13, <2>1, WorkFacts, StageFacts DEF StageEnd
  <2>3. man' = [man EXCEPT ![RunOf(i)] = m] /\ attempt' = attempt /\ pc'[i] = "stage"
        /\ outcome'[i] = "none"
    BY <1>0, <1>13, <2>1, <2>2 DEF StageEnd
  <2> QED
    BY <1>2, <2>1, <2>2, <2>3 DEF AtWork, Inside
<1>14. CASE ValidationFails(i)
  <2>1. "publish_production_summary" \in StageNames
    BY ProductionPlanFacts
  <2>2. FailRun(i, "publish_production_summary") /\ pc[i] \in AtWork
    BY <1>14 DEF ValidationFails, AtWork
  <2> QED
    BY <1>3, <1>14, <2>1, <2>2 DEF ValidationFails
<1>15. CASE CommitSuccess(i)
  <2>1. RunOf(i) \in Runs /\ man[RunOf(i)] \in Manifests /\ man[RunOf(i)].status = "running"
        /\ attempt[i] # 0 /\ pc[i] \in Inside /\ outcome[i] = "none"
    BY <1>0, <1>15, WorkFacts DEF Recorded, AtWork, Inside, Control, CommitSuccess
  <2>2. PICK m \in Manifests : m = StatusUpdated(man[RunOf(i)], "success") /\ m.status = "success"
    BY <1>15, <2>1, WorkFacts, SuccessFacts DEF CommitSuccess
  <2>3. man' = [man EXCEPT ![RunOf(i)] = m] /\ attempt' = attempt /\ pc'[i] = "release"
        /\ outcome'[i] = "success"
    BY <1>0, <1>15, <2>1, <2>2 DEF CommitSuccess
  <2> QED
    BY <1>2, <2>1, <2>2, <2>3 DEF AtWork, Inside
<1>16. CASE Escaped(i)
  <2>1. pc[i] = "escaped" /\ pc'[i] = "closing" /\ attempt' = attempt /\ outcome' = outcome
        /\ attempt[i] # 0
    BY <1>0, <1>16 DEF Escaped, Control
  <2>2. CASE man[RunOf(i)] # NoRun /\ MayRecordFailure(man[RunOf(i)])
             /\ man' = [man EXCEPT ![RunOf(i)] = FailureRecorded(@, NoStage)]
    <3>1. RunOf(i) \in Runs /\ man[RunOf(i)] \in Manifests
      BY <1>0, <2>1, <2>2, WorkFacts
    <3>2. PICK m \in Manifests : m = FailureRecorded(man[RunOf(i)], NoStage) /\ m.status = "failed"
      BY <3>1, FailureFacts
    <3>3. outcome'[i] # "none" => outcome'[i] # "success"
      BY <2>1, <2>2 DEF Recorded, MayRecordFailure
    <3>4. man' = [man EXCEPT ![RunOf(i)] = m]
      BY <1>0, <2>2, <3>1, <3>2
    <3> QED
      BY <1>2, <2>1, <3>2, <3>3, <3>4 DEF AtWork, Inside
  <2>3. CASE man' = man
    BY <1>1, <2>1, <2>3 DEF AtWork
  <2> QED
    BY <1>16, <2>2, <2>3 DEF Escaped
<1> QED
  BY <1>4, <1>5, <1>6, <1>7, <1>8, <1>9, <1>10, <1>12, <1>13, <1>14, <1>15, <1>16, ZenonT(60) DEF Step, Proceed

-----------------------------------------------------------------------------
(* The files an invocation at work leaves behind *)

\* Only a production run has the stages that publish.
LEMMA NamedIsProduction ==
    ASSUME TypeOK, NEW i \in Invocations, Control(i), Position(i),
           pc[i] \in {"work", "paper", "worked"}, StageOf(i) \in NamedStages
    PROVE  IsProduction(i)
<1>1. kind[i] \in Kinds /\ next[i] \in 1..Len(Plan(i))
  BY DEF Control, Position
<1>2. CASE kind[i] = "dry"
  BY <1>1, <1>2 DEF Plan, PlanOf, StageOf, NamedStages
<1>3. CASE kind[i] = "full"
  BY <1>1, <1>3 DEF Plan, PlanOf, StageOf, NamedStages
<1> QED
  BY <1>1, <1>2, <1>3 DEF Kinds, IsProduction

LEMMA ProductionStage ==
    ASSUME NEW i \in Invocations, IsProduction(i)
    PROVE  Plan(i) = ProductionPlan /\ StageOf(i) = ProductionPlan[next[i]]
BY DEF IsProduction, Plan, PlanOf, StageOf

\* The files of a publication change only inside the lock.
LEMMA FilesStep ==
    ASSUME NEW i \in Invocations, Step(i), pc[i] \notin Inside
    PROVE  artifact' = artifact /\ pending' = pending /\ summary' = summary /\ loop' = loop
<1> USE DEF Inside, fileVars
<1>1. CASE Trigger(i) \/ NotToday(i) \/ ReadSummary(i) \/ SkipSuccessful(i) \/ NothingPublished(i) \/ AcquireLock(i) \/ LockRefused(i)
  BY <1>1 DEF Trigger, NotToday, ReadSummary, SkipSuccessful, NothingPublished, AcquireLock, LockRefused
<1>2. CASE CreateRun(i) \/ ResolveFails(i) \/ ResolveAsOf(i) \/ StageStart(i) \/ StageWork(i) \/ PaperPending(i) \/ PaperTraded(i) \/ PaperFails(i)
  BY <1>2 DEF CreateRun, ResolveFails, ResolveAsOf, StageStart, StageWork, PaperPending, PaperTraded, PaperFails
<1>3. CASE StageFails(i) \/ SoftStageFails(i) \/ StageEnd(i) \/ Validate(i) \/ ValidationFails(i) \/ CommitSuccess(i) \/ ReleaseLock(i)
  BY <1>3 DEF StageFails, SoftStageFails, StageEnd, Validate, ValidationFails, CommitSuccess, ReleaseLock
<1>4. CASE Escape(i) \/ Escaped(i) \/ CloseEscaped(i) \/ Retry(i) \/ ReportFailure(i) \/ ReportSuccess(i)
  BY <1>4 DEF Escape, Escaped, CloseEscaped, Retry, ReportFailure, ReportSuccess
<1>5. CASE Unreported(i) \/ Crash(i)
  BY <1>5 DEF Unreported, Crash
<1> QED
  BY <1>1, <1>2, <1>3, <1>4, <1>5 DEF Step, Proceed

\* The stages a production run has worked through left their files.
LEMMA OwnFilesStep ==
    ASSUME TypeOK, References, NEW i \in Invocations, Control(i), Position(i), Recorded(i),
           OwnFiles(i), Step(i)
    PROVE  OwnFiles(i)'
<1>0. /\ pc \in [Invocations -> Places] /\ next \in [Invocations -> Nat]
      /\ attempt \in [Invocations -> 0..MaxAttempts]
      /\ kind \in [Invocations -> Kinds \cup {"none"}]
  BY DEF TypeOK
\* Whatever it is about to write, the work it has done so far stays done.
<1>1. ASSUME pc'[i] \notin AtWork PROVE OwnFiles(i)'
  BY <1>1 DEF OwnFiles
<1>2. ASSUME kind' = kind, attempt' = attempt, pc[i] \in AtWork,
             artifact' = artifact, summary' = summary, loop' = loop,
             \A n \in Nat : Worked(i, n)' <=> Worked(i, n),
             pc'[i] # "commit" \/ (IsProduction(i) => summary = RunOf(i))
      PROVE  OwnFiles(i)'
  <2>1. RunOf(i)' = RunOf(i) /\ (IsProduction(i)' <=> IsProduction(i))
    BY <1>2 DEF RunOf, IsProduction
  <2>2. PublishAt \in Nat /\ 1..Len(ProductionPlan) \subseteq Nat
    BY ProductionPlanFacts
  <2> QED
    BY <1>2, <2>1, <2>2 DEF OwnFiles
<1> USE DEF Goto, Finish, FailRun, fileVars
<1>3. CASE Trigger(i) \/ NotToday(i) \/ ReadSummary(i) \/ SkipSuccessful(i)
          \/ NothingPublished(i) \/ AcquireLock(i) \/ LockRefused(i)
  <2>1. pc'[i] \notin AtWork
    BY <1>0, <1>3 DEF Trigger, NotToday, ReadSummary, SkipSuccessful, NothingPublished, AcquireLock, LockRefused, AtWork
  <2> QED
    BY <1>1, <2>1
<1>4. CASE ResolveFails(i) \/ StageFails(i) \/ ValidationFails(i)
          \/ CommitSuccess(i) \/ ReleaseLock(i)
  <2>1. pc'[i] \notin AtWork
    BY <1>0, <1>4 DEF ResolveFails, StageFails, ValidationFails, CommitSuccess, ReleaseLock, AtWork
  <2> QED
    BY <1>1, <2>1
<1>5. CASE Escape(i) \/ Escaped(i) \/ CloseEscaped(i) \/ Unreported(i) \/ Crash(i)
          \/ Retry(i) \/ ReportFailure(i) \/ ReportSuccess(i)
  <2>1. pc'[i] \notin AtWork
    BY <1>0, <1>5 DEF Escape, Escaped, CloseEscaped, Unreported, Crash, Retry, ReportFailure, ReportSuccess, AtWork
  <2> QED
    BY <1>1, <2>1
<1>6. CASE ResolveAsOf(i) \/ StageStart(i) \/ PaperPending(i) \/ PaperFails(i) \/ Validate(i)
  <2>1. /\ kind' = kind /\ attempt' = attempt /\ next' = next /\ pc[i] \in AtWork
        /\ pc[i] # "worked" /\ pc'[i] # "worked"
        /\ artifact' = artifact /\ summary' = summary /\ loop' = loop
        /\ pc'[i] # "commit" \/ (IsProduction(i) => summary = RunOf(i))
    BY <1>0, <1>6 DEF ResolveAsOf, StageStart, PaperPending, PaperFails, Validate, AtWork
  <2>2. \A n \in Nat : Worked(i, n)' <=> Worked(i, n)
    BY <2>1 DEF Worked
  <2> QED
    BY <1>2, <2>1, <2>2
<1>7. CASE StageEnd(i)
  <2>1. /\ kind' = kind /\ attempt' = attempt /\ next'[i] = next[i] + 1 /\ pc[i] = "worked"
        /\ pc'[i] = "stage" /\ artifact' = artifact /\ summary' = summary /\ loop' = loop
    BY <1>0, <1>7 DEF StageEnd
  <2>2. \A n \in Nat : Worked(i, n)' <=> Worked(i, n)
    BY <1>0, <2>1 DEF Worked
  <2> QED
    BY <1>2, <2>1, <2>2 DEF AtWork
<1>8. CASE CreateRun(i)
  <2>1. /\ kind' = kind /\ attempt' = attempt /\ next'[i] = 1 /\ pc'[i] = "resolve"
        /\ summary' = summary /\ man[RunOf(i)] = NoRun
    BY <1>0, <1>8 DEF CreateRun, Recorded, Position
  <2>2. RunOf(i)' = RunOf(i) /\ RunOf(i) # NoRun
    BY <1>8, <2>1, WorkFacts, PipelineAssumption DEF RunOf, CreateRun, Inside, Runs
  <2>3. summary # RunOf(i)
    BY <2>1, <2>2 DEF References, Referenced
  <2>4. \A n \in 1..Len(ProductionPlan) : ~Worked(i, n)'
    BY <2>1, ProductionPlanFacts DEF Worked
  <2> QED
    BY <2>1, <2>2, <2>3, <2>4 DEF OwnFiles
<1>9. CASE StageWork(i) \/ PaperTraded(i) \/ SoftStageFails(i)
  <2> SUFFICES ASSUME IsProduction(i) PROVE OwnFiles(i)'
    <3>1. kind' = kind
      BY <1>9 DEF StageWork, PaperTraded, SoftStageFails
    <3> QED
      BY <3>1 DEF OwnFiles, IsProduction
  <2> DEFINE s == ProductionPlan[next[i]]
  <2>1. /\ kind' = kind /\ attempt' = attempt /\ next' = next /\ pc[i] \in {"work", "paper"}
        /\ pc'[i] = "worked" /\ RunOf(i)' = RunOf(i)
    BY <1>0, <1>9 DEF StageWork, PaperTraded, SoftStageFails, RunOf
  <2>2. /\ next[i] \in 1..Len(ProductionPlan) /\ StageOf(i) = s
        /\ pc[i] = "paper" => s = "paper_trading_daily"
    BY <2>1, ProductionStage DEF Position
  <2>3. \A n \in 1..Len(ProductionPlan) : Worked(i, n)' <=> (Worked(i, n) \/ n = next[i])
    BY <1>0, <2>1 DEF Worked
  <2>4. \A a \in Elements(ReportStages) : a # "paper_trading_daily"
    BY ProductionPlanFacts DEF NamedStages
  <2>5. \A a \in Elements(ReportStages) :
           artifact'[a] = artifact[a] \/ artifact'[a] = RunOf(i)
    BY <1>9 DEF StageWork, PaperTraded, SoftStageFails, TypeOK
  <2>6. s \in Elements(ReportStages) => artifact'[s] = RunOf(i)
    <3>1. CASE StageWork(i)
      BY <2>2, <3>1 DEF StageWork, TypeOK
    <3>2. CASE PaperTraded(i)
      BY <2>2, <2>4, <3>2 DEF PaperTraded
    <3>3. CASE SoftStageFails(i)
      BY <2>2, <3>3, ProductionPlanFacts DEF SoftStageFails, IsSoft
    <3> QED
      BY <1>9, <3>1, <3>2, <3>3
  <2>7. loop' = loop \/ loop' = RunOf(i)
    BY <1>9 DEF StageWork, PaperTraded, SoftStageFails
  <2>8. s = "publish_closed_loop_manifest" => loop' = RunOf(i)
    <3>1. CASE StageWork(i)
      BY <2>2, <3>1 DEF StageWork
    <3>2. CASE PaperTraded(i)
      BY <2>2, <3>2 DEF PaperTraded
    <3>3. CASE SoftStageFails(i)
      BY <2>2, <3>3, ProductionPlanFacts DEF SoftStageFails, IsSoft, NamedStages
    <3> QED
      BY <1>9, <3>1, <3>2, <3>3
  <2>9. summary' = summary \/ s = "publish_production_summary"
    BY <1>9, <2>2 DEF StageWork, PaperTraded, SoftStageFails
  <2>10. s = "publish_production_summary" => next[i] = PublishAt
    BY <2>2, ProductionPlanFacts
  <2>11. PublishAt \in 1..Len(ProductionPlan)
    BY ProductionPlanFacts
  <2>12. /\ summary = RunOf(i) => Worked(i, PublishAt)
         /\ \A n \in 1..Len(ProductionPlan) : Worked(i, n) =>
               /\ ProductionPlan[n] \in Elements(ReportStages)
                     => artifact[ProductionPlan[n]] \in {RunOf(i), NoRun}
               /\ ProductionPlan[n] = "publish_closed_loop_manifest" => loop = RunOf(i)
    BY <2>1 DEF OwnFiles, AtWork
  <2>13. summary' = RunOf(i) => Worked(i, PublishAt)'
    BY <2>3, <2>9, <2>10, <2>11, <2>12
  <2>14. ASSUME NEW n \in 1..Len(ProductionPlan), Worked(i, n)'
         PROVE  /\ ProductionPlan[n] \in Elements(ReportStages)
                     => artifact'[ProductionPlan[n]] \in {RunOf(i), NoRun}
                /\ ProductionPlan[n] = "publish_closed_loop_manifest" => loop' = RunOf(i)
    <3>1. CASE n = next[i]
      BY <2>6, <2>8, <3>1
    <3>2. CASE Worked(i, n)
      BY <2>5, <2>7, <2>12, <3>2
    <3> QED
      BY <2>3, <2>14, <3>1, <3>2
  <2> QED
    BY <2>1, <2>13, <2>14 DEF OwnFiles
<1> QED
  BY <1>3, <1>4, <1>5, <1>6, <1>7, <1>8, <1>9 DEF Step, Proceed

-----------------------------------------------------------------------------
(* The manifests *)

\* A step writes the manifest of its own current run, while it says running or
\* before it exists; only the final commit makes a run successful.
Wrote(i) ==
    \A r \in Runs :
        /\ man[r] # NoRun => man'[r] # NoRun
        /\ man[r] # NoRun /\ man[r].status # "running" => man'[r] = man[r]
        /\ man'[r] # NoRun /\ man'[r].status = "success" =>
              \/ man[r] # NoRun /\ man[r].status = "success"
              \/ CommitSuccess(i) /\ r = RunOf(i)

LEMMA RunsStep ==
    ASSUME TypeOK, NEW i \in Invocations, Control(i), Position(i), Recorded(i), Step(i)
    PROVE  Wrote(i)
<1>0. man \in [Runs -> Manifests \cup {NoRun}] /\ NoRun \notin Manifests
  BY PipelineAssumption DEF TypeOK
<1>1. ASSUME man' = man PROVE Wrote(i)
  BY <1>1 DEF Wrote
<1>2. ASSUME NEW m \in Manifests, man' = [man EXCEPT ![RunOf(i)] = m], RunOf(i) \in Runs,
             \/ man[RunOf(i)] = NoRun
             \/ man[RunOf(i)].status = "running"
             \/ m = man[RunOf(i)],
             m.status = "success" => CommitSuccess(i) \/ m = man[RunOf(i)]
      PROVE  Wrote(i)
  <2> SUFFICES ASSUME NEW r \in Runs
               PROVE  /\ man[r] # NoRun => man'[r] # NoRun
                      /\ man[r] # NoRun /\ man[r].status # "running" => man'[r] = man[r]
                      /\ man'[r] # NoRun /\ man'[r].status = "success" =>
                            \/ man[r] # NoRun /\ man[r].status = "success"
                            \/ CommitSuccess(i) /\ r = RunOf(i)
    BY DEF Wrote
  <2>1. CASE r = RunOf(i)
    <3>1. man'[r] = m /\ m # NoRun
      BY <1>0, <1>2, <2>1
    <3> QED
      BY <1>2, <2>1, <3>1
  <2>2. CASE r # RunOf(i)
    <3>1. man'[r] = man[r]
      BY <1>0, <1>2, <2>2
    <3> QED
      BY <3>1
  <2> QED
    BY <2>1, <2>2
<1>3. ASSUME NEW stage, stage \in StageNames \cup {NoStage}, FailRun(i, stage), pc[i] \in AtWork
      PROVE  Wrote(i)
  <2>1. RunOf(i) \in Runs /\ man[RunOf(i)] \in Manifests /\ man[RunOf(i)].status = "running"
    BY <1>0, <1>3, WorkFacts DEF Recorded, AtWork, Inside
  <2>2. PICK m \in Manifests : m = FailureRecorded(man[RunOf(i)], stage) /\ m.status = "failed"
    BY <1>3, <2>1, FailureFacts
  <2>3. man' = [man EXCEPT ![RunOf(i)] = m]
    BY <1>0, <1>3, <2>2 DEF FailRun
  <2> QED
    BY <1>2, <2>1, <2>2, <2>3
<1> USE DEF Goto, Finish, fileVars
<1>4. CASE Trigger(i) \/ NotToday(i) \/ ReadSummary(i) \/ SkipSuccessful(i)
          \/ NothingPublished(i) \/ AcquireLock(i) \/ LockRefused(i)
  BY <1>1, <1>4 DEF Trigger, NotToday, ReadSummary, SkipSuccessful, NothingPublished, AcquireLock, LockRefused
<1>5. CASE ResolveAsOf(i) \/ StageWork(i) \/ PaperPending(i) \/ PaperTraded(i)
          \/ PaperFails(i) \/ SoftStageFails(i) \/ Validate(i)
  BY <1>1, <1>5 DEF ResolveAsOf, StageWork, PaperPending, PaperTraded, PaperFails, SoftStageFails, Validate
<1>6. CASE ReleaseLock(i) \/ Escape(i) \/ CloseEscaped(i) \/ Unreported(i) \/ Crash(i)
          \/ Retry(i) \/ ReportFailure(i) \/ ReportSuccess(i)
  BY <1>1, <1>6 DEF ReleaseLock, Escape, CloseEscaped, Unreported, Crash, Retry, ReportFailure, ReportSuccess
<1>7. CASE CreateRun(i)
  <2>1. RunOf(i) \in Runs /\ man[RunOf(i)] = NoRun
    BY <1>7, WorkFacts DEF CreateRun, Recorded, Inside
  <2>2. PICK m \in Manifests : m = NewRun(Elements(Plan(i))) /\ m.status = "running"
    BY NewRunFacts
  <2>3. man' = [man EXCEPT ![RunOf(i)] = m]
    BY <1>7, <2>2 DEF CreateRun
  <2> QED
    BY <1>2, <2>1, <2>2, <2>3
<1>8. CASE ResolveFails(i)
  <2>1. FailRun(i, NoStage) /\ pc[i] \in AtWork /\ NoStage \in StageNames \cup {NoStage}
    BY <1>8 DEF ResolveFails, AtWork
  <2> QED
    BY <1>3, <2>1
<1>10. CASE StageFails(i)
  <2>1. FailRun(i, StageOf(i)) /\ pc[i] \in AtWork /\ StageOf(i) \in StageNames \cup {NoStage}
    BY <1>10, WorkFacts DEF StageFails, AtWork
  <2> QED
    BY <1>3, <2>1
<1>11. CASE ValidationFails(i)
  <2>1. "publish_production_summary" \in StageNames
    BY ProductionPlanFacts
  <2>2. FailRun(i, "publish_production_summary") /\ pc[i] \in AtWork
    BY <1>11 DEF ValidationFails, AtWork
  <2> QED
    BY <1>3, <2>1, <2>2
<1>12. CASE StageStart(i)
  <2>1. RunOf(i) \in Runs /\ man[RunOf(i)] \in Manifests /\ man[RunOf(i)].status = "running"
    BY <1>0, <1>12, WorkFacts DEF Recorded, AtWork, Inside, StageStart
  <2>2. PICK m \in Manifests : m = StageStarted(man[RunOf(i)], StageOf(i)) /\ m.status = "running"
    BY <1>12, <2>1, WorkFacts, StageFacts DEF StageStart
  <2>3. man' = [man EXCEPT ![RunOf(i)] = m]
    BY <1>0, <1>12, <2>1, <2>2 DEF StageStart
  <2> QED
    BY <1>2, <1>12, <2>1, <2>2, <2>3
<1>13. CASE StageEnd(i)
  <2>1. RunOf(i) \in Runs /\ man[RunOf(i)] \in Manifests /\ man[RunOf(i)].status = "running"
    BY <1>0, <1>13, WorkFacts DEF Recorded, AtWork, Inside, StageEnd
  <2>2. PICK m \in Manifests : m = StageEnded(man[RunOf(i)], StageOf(i), "success") /\ m.status = "running"
    BY <1>13, <2>1, WorkFacts, StageFacts DEF StageEnd
  <2>3. man' = [man EXCEPT ![RunOf(i)] = m]
    BY <1>0, <1>13, <2>1, <2>2 DEF StageEnd
  <2> QED
    BY <1>2, <1>13, <2>1, <2>2, <2>3
<1>14. CASE CommitSuccess(i)
  <2>1. RunOf(i) \in Runs /\ man[RunOf(i)] \in Manifests /\ man[RunOf(i)].status = "running"
    BY <1>0, <1>14, WorkFacts DEF Recorded, AtWork, Inside, CommitSuccess
  <2>2. PICK m \in Manifests : m = StatusUpdated(man[RunOf(i)], "success") /\ m.status = "success"
    BY <1>14, <2>1, WorkFacts, SuccessFacts DEF CommitSuccess
  <2>3. man' = [man EXCEPT ![RunOf(i)] = m]
    BY <1>0, <1>14, <2>1, <2>2 DEF CommitSuccess
  <2> QED
    BY <1>2, <1>14, <2>1, <2>2, <2>3
<1>15. CASE Escaped(i)
  <2>1. CASE man[RunOf(i)] # NoRun /\ MayRecordFailure(man[RunOf(i)])
             /\ man' = [man EXCEPT ![RunOf(i)] = FailureRecorded(@, NoStage)]
    <3>1. RunOf(i) \in Runs /\ man[RunOf(i)] \in Manifests /\ man[RunOf(i)].status # "success"
      BY <1>0, <1>15, <2>1, WorkFacts DEF Escaped, MayRecordFailure
    <3>2. PICK m \in Manifests : /\ m = FailureRecorded(man[RunOf(i)], NoStage)
                                 /\ m.status = "failed"
                                 /\ man[RunOf(i)].status = "failed" => m = man[RunOf(i)]
      BY <3>1, FailureFacts
    <3>3. man' = [man EXCEPT ![RunOf(i)] = m]
      BY <1>0, <2>1, <3>1, <3>2
    <3>4. man[RunOf(i)].status \in {"running", "failed"}
      BY <3>1 DEF Manifests
    <3> QED
      BY <1>2, <3>1, <3>2, <3>3, <3>4
  <2>2. CASE man' = man
    BY <1>1, <2>2
  <2> QED
    BY <1>15, <2>1, <2>2 DEF Escaped
<1> QED
  BY <1>4, <1>5, <1>6, <1>7, <1>8, <1>10, <1>11, <1>12, <1>13, <1>14, <1>15, ZenonT(60) DEF Step, Proceed

-----------------------------------------------------------------------------
(* The other invocations *)

\* A step of one invocation is not felt by another: only the one that has the lock
\* touches the files of a publication.
LEMMA OthersStep ==
    ASSUME TypeOK, InsideHoldsLock, NEW i \in Invocations, Step(i),
           NEW j \in Invocations \ {i}, Control(j), Position(j), Recorded(j), OwnFiles(j)
    PROVE  Control(j)' /\ Position(j)' /\ Recorded(j)' /\ OwnFiles(j)'
<1>1. /\ kind'[j] = kind[j] /\ status'[j] = status[j] /\ reason'[j] = reason[j]
      /\ attempt'[j] = attempt[j] /\ pc'[j] = pc[j] /\ next'[j] = next[j]
      /\ outcome'[j] = outcome[j]
      /\ \A n \in 1..MaxAttempts : man'[<<j, n>>] = man[<<j, n>>]
  BY StepAlone DEF Alone
<1>2. Control(j)'
  BY <1>1 DEF Control
<1>3. Position(j)'
  BY <1>1 DEF Position, Plan, StageOf
<1>4. RunOf(j)' = RunOf(j) /\ (attempt[j] # 0 => man'[RunOf(j)] = man[RunOf(j)])
  BY <1>1, PipelineAssumption DEF RunOf, TypeOK
<1>5. Recorded(j)'
  <2>1. pc[j] \in AtWork \cup {"create"} => attempt[j] # 0
    BY DEF Control, AtWork, Inside
  <2>2. \A n \in 1..MaxAttempts : n > attempt[j] => man'[<<j, n>>] = NoRun
    BY <1>1 DEF Recorded
  <2>3. /\ pc[j] = "create" => man'[RunOf(j)] = NoRun
        /\ pc[j] \in AtWork => man'[RunOf(j)] # NoRun /\ man'[RunOf(j)].status = "running"
        /\ outcome[j] # "none" =>
              /\ attempt[j] # 0 /\ man'[RunOf(j)] # NoRun
              /\ man'[RunOf(j)].status = IF outcome[j] = "success" THEN "success" ELSE "failed"
    BY <1>4, <2>1 DEF Recorded
  <2>4. \A n \in 1..MaxAttempts :
           man'[<<j, n>>] # NoRun /\ man'[<<j, n>>].status = "running"
              => /\ n = attempt[j]
                 /\ \/ pc[j] \in Inside \cup {"dead", "escaped", "closing"}
                    \/ pc[j] = "done" /\ outcome[j] = "none"
    BY <1>1 DEF Recorded
  <2> QED
    BY <1>1, <1>4, <2>2, <2>3, <2>4 DEF Recorded
<1>6. OwnFiles(j)'
  <2> SUFFICES ASSUME pc[j] \in AtWork PROVE OwnFiles(j)'
    BY <1>1 DEF OwnFiles
  <2>1. pc[i] \notin Inside
    BY DEF InsideHoldsLock, AtWork, Inside
  <2>2. artifact' = artifact /\ summary' = summary /\ loop' = loop
    BY <2>1, FilesStep
  <2>3. \A n : Worked(j, n)' <=> Worked(j, n)
    BY <1>1 DEF Worked
  <2>4. IsProduction(j)' <=> IsProduction(j)
    BY <1>1 DEF IsProduction
  <2> QED
    BY <1>1, <1>4, <2>2, <2>3, <2>4 DEF OwnFiles
<1> QED
  BY <1>2, <1>3, <1>5, <1>6

-----------------------------------------------------------------------------
(* What invocations see of one another *)

\* An invocation that has begun keeps its kind.
LEMMA KindsKept ==
    ASSUME TypeOK, NEW i \in Invocations, Control(i), Step(i)
    PROVE  \A j \in Invocations : IsProduction(j) => IsProduction(j)'
<1>1. \A j \in Invocations \ {i} : kind'[j] = kind[j]
  BY StepAlone DEF Alone
<1>2. IsProduction(i) => kind'[i] = kind[i]
  <2>1. CASE Trigger(i)
    BY <2>1 DEF Trigger, Control, IsProduction
  <2>2. CASE Escape(i) \/ Unreported(i) \/ Crash(i)
    BY <2>2 DEF Escape, Unreported, Crash
  <2>3. CASE Proceed(i)
    BY <2>3 DEF Proceed, Finish, FailRun, NotToday, ReadSummary, SkipSuccessful, NothingPublished, AcquireLock, LockRefused,
                CreateRun, ResolveFails, ResolveAsOf, StageStart, StageWork, PaperPending,
                PaperTraded, PaperFails, StageFails, SoftStageFails, StageEnd, Validate,
                ValidationFails, CommitSuccess, ReleaseLock, Escaped, CloseEscaped, Retry,
                ReportFailure, ReportSuccess
  <2> QED
    BY <2>1, <2>2, <2>3 DEF Step
<1> QED
  BY <1>1, <1>2 DEF IsProduction

\* What is put into the shared files, and what an invocation reads from them.
Shared(i) ==
    /\ summary' = summary \/ (StageWork(i) /\ StageOf(i) = "publish_production_summary"
                                 /\ summary' = RunOf(i) /\ pending' = pending \ {RunOf(i)})
    /\ \/ pending' \subseteq pending
       \/ /\ pending' = pending \cup {RunOf(i)}
          /\ pc[i] = "work" /\ StageOf(i) = "paper_trading_daily" /\ summary' = summary
          /\ man' = man
    /\ seen'[i] \in {seen[i], summary, NoRun}
    /\ \/ reason'[i] = reason[i]
       \/ reason'[i] # "already_successful"
       \/ reason'[i] = "already_successful" /\ ValidPublication(seen[i], TRUE)
    /\ CommitSuccess(i) => pending' = pending /\ summary' = summary

LEMMA SharedStep == ASSUME TypeOK, NEW i \in Invocations, Step(i) PROVE Shared(i)
<1>0. reason \in [Invocations -> {"none", "not_ready", "bad_calendar", "already_successful"}]
      /\ seen \in [Invocations -> Runs \cup {NoRun}] /\ pc \in [Invocations -> Places]
  BY DEF TypeOK
<1> USE <1>0 DEF Shared, Goto, Finish, FailRun, fileVars
<1>1. CASE Trigger(i)
  <2>1. ~CommitSuccess(i)
    BY <1>1 DEF CommitSuccess, Trigger
  <2> QED
    BY <1>1, <2>1 DEF Trigger
<1>2. CASE NotToday(i) \/ ReadSummary(i)
  <2>1. ~CommitSuccess(i)
    BY <1>2 DEF CommitSuccess, NotToday, ReadSummary
  <2> QED
    BY <1>2, <2>1 DEF NotToday, ReadSummary
<1>3. CASE SkipSuccessful(i) \/ NothingPublished(i)
  <2>1. ~CommitSuccess(i)
    BY <1>3 DEF CommitSuccess, SkipSuccessful, NothingPublished
  <2> QED
    BY <1>3, <2>1 DEF SkipSuccessful, NothingPublished
<1>4. CASE AcquireLock(i) \/ LockRefused(i)
  <2>1. ~CommitSuccess(i)
    BY <1>4 DEF CommitSuccess, AcquireLock, LockRefused
  <2> QED
    BY <1>4, <2>1 DEF AcquireLock, LockRefused
<1>5. CASE CreateRun(i) \/ ResolveFails(i) \/ ResolveAsOf(i)
  <2>1. ~CommitSuccess(i)
    BY <1>5 DEF CommitSuccess, CreateRun, ResolveFails, ResolveAsOf
  <2> QED
    BY <1>5, <2>1 DEF CreateRun, ResolveFails, ResolveAsOf
<1>6. CASE StageStart(i)
  <2>1. ~CommitSuccess(i)
    BY <1>6 DEF CommitSuccess, StageStart
  <2> QED
    BY <1>6, <2>1 DEF StageStart
<1>7. CASE StageWork(i)
  <2>1. ~CommitSuccess(i)
    BY <1>7 DEF CommitSuccess, StageWork
  <2> QED
    BY <1>7, <2>1 DEF StageWork
<1>8. CASE PaperPending(i) \/ PaperTraded(i)
  <2>1. ~CommitSuccess(i)
    BY <1>8 DEF CommitSuccess, PaperPending, PaperTraded
  <2> QED
    BY <1>8, <2>1 DEF PaperPending, PaperTraded
<1>9. CASE PaperFails(i)
  <2>1. ~CommitSuccess(i)
    BY <1>9 DEF CommitSuccess, PaperFails
  <2> QED
    BY <1>9, <2>1 DEF PaperFails
<1>10. CASE StageFails(i) \/ SoftStageFails(i)
  <2>1. ~CommitSuccess(i)
    BY <1>10 DEF CommitSuccess, StageFails, SoftStageFails
  <2> QED
    BY <1>10, <2>1 DEF StageFails, SoftStageFails
<1>11. CASE StageEnd(i)
  <2>1. ~CommitSuccess(i)
    BY <1>11 DEF CommitSuccess, StageEnd
  <2> QED
    BY <1>11, <2>1 DEF StageEnd
<1>12. CASE Validate(i) \/ ValidationFails(i)
  <2>1. ~CommitSuccess(i)
    BY <1>12 DEF CommitSuccess, Validate, ValidationFails
  <2> QED
    BY <1>12, <2>1 DEF Validate, ValidationFails
<1>13. CASE CommitSuccess(i)
  BY <1>13 DEF CommitSuccess
<1>14. CASE ReleaseLock(i) \/ Escape(i)
  <2>1. ~CommitSuccess(i)
    BY <1>14 DEF CommitSuccess, ReleaseLock, Escape
  <2> QED
    BY <1>14, <2>1 DEF ReleaseLock, Escape
<1>15. CASE Escaped(i) \/ CloseEscaped(i) \/ Unreported(i) \/ Crash(i)
  <2>1. ~CommitSuccess(i)
    BY <1>15 DEF CommitSuccess, Escaped, CloseEscaped, Unreported, Crash
  <2> QED
    BY <1>15, <2>1 DEF Escaped, CloseEscaped, Unreported, Crash
<1>16. CASE Retry(i) \/ ReportFailure(i) \/ ReportSuccess(i)
  <2>1. ~CommitSuccess(i)
    BY <1>16 DEF CommitSuccess, Retry, ReportFailure, ReportSuccess
  <2> QED
    BY <1>16, <2>1 DEF Retry, ReportFailure, ReportSuccess
<1> QED
  BY <1>1, <1>2, <1>3, <1>4, <1>5, <1>6, <1>7, <1>8, <1>9, <1>10, <1>11, <1>12, <1>13, <1>14, <1>15, <1>16 DEF Step, Proceed

LEMMA ReferencesStep ==
    ASSUME TypeOK, References, NEW i \in Invocations, Control(i), Position(i), Recorded(i), Step(i)
    PROVE  References'
<1>1. ASSUME NEW r \in Runs \cup {NoRun}, Referenced(r) PROVE Referenced(r)'
  <2> SUFFICES ASSUME r # NoRun PROVE IsProduction(r[1])' /\ man'[r] # NoRun
    BY DEF Referenced
  <2>1. r[1] \in Invocations
    BY <1>1 DEF Runs
  <2> QED
    BY <1>1, <2>1, KindsKept, RunsStep DEF Referenced, Wrote
<1>2. ASSUME pc[i] \in {"work", "paper", "worked"}, StageOf(i) \in NamedStages,
             NEW r \in Runs \cup {NoRun}, r = RunOf(i)
      PROVE  r \in Runs /\ Referenced(r)' /\ IsProduction(r[1])'
  <2>1. r \in Runs /\ r # NoRun /\ man[r] # NoRun /\ r[1] = i
    BY <1>2, WorkFacts, PipelineAssumption DEF Inside, Recorded, AtWork, RunOf, Runs
  <2>2. IsProduction(i)
    BY <1>2, NamedIsProduction
  <2>3. Referenced(r)
    BY <2>1, <2>2 DEF Referenced
  <2>4. Referenced(r)'
    BY <1>1, <2>3
  <2> QED
    BY <2>1, <2>4 DEF Referenced
<1>3. TypeOK' /\ Shared(i) /\ Alone(i)
  BY TypeStep, SharedStep, StepAlone
<1>4. Referenced(summary)'
  <2>1. CASE summary' = summary
    <3>1. PICK r \in Runs \cup {NoRun} : r = summary
      BY DEF TypeOK
    <3>2. Referenced(r)'
      BY <1>1, <3>1 DEF References
    <3> QED
      BY <2>1, <3>1, <3>2 DEF Referenced
  <2>2. CASE StageWork(i) /\ StageOf(i) = "publish_production_summary" /\ summary' = RunOf(i)
    <3>1. PICK r \in Runs \cup {NoRun} : r = summary'
      BY <1>3 DEF TypeOK
    <3>2. Referenced(r)'
      BY <1>2, <2>2, <3>1 DEF StageWork, NamedStages
    <3> QED
      BY <3>1, <3>2 DEF Referenced
  <2> QED
    BY <1>3, <2>1, <2>2 DEF Shared
<1>5. ASSUME NEW j \in Invocations PROVE Referenced(seen[j])'
  <2>1. PICK r \in Runs \cup {NoRun} : r = seen'[j]
    BY <1>3 DEF TypeOK
  <2>2. r = seen[j] \/ r = summary \/ r = NoRun
    BY <1>3, <2>1 DEF Shared, Alone
  <2>3. Referenced(r)'
    BY <1>1, <2>2 DEF References, Referenced
  <2> QED
    BY <2>1, <2>3 DEF Referenced
<1>6. ASSUME NEW r \in pending' PROVE IsProduction(r[1])'
  <2>1. r \in Runs
    BY <1>3, <1>6 DEF TypeOK
  <2>2. CASE r \in pending
    <3>1. r[1] \in Invocations /\ IsProduction(r[1])
      BY <2>1, <2>2 DEF Runs, References
    <3> QED
      BY <3>1, KindsKept
  <2>3. CASE r = RunOf(i) /\ pc[i] = "work" /\ StageOf(i) = "paper_trading_daily"
    BY <1>2, <2>1, <2>3 DEF NamedStages
  <2> QED
    BY <1>3, <1>6, <2>2, <2>3 DEF Shared
<1> QED
  BY <1>4, <1>5, <1>6 DEF References

\* A pending summary is removed by the publication of its run.
LEMMA PendingStep ==
    ASSUME TypeOK, References, PendingIsUnpublished, NEW i \in Invocations,
           Control(i), Position(i), Recorded(i), OwnFiles(i), Step(i)
    PROVE  PendingIsUnpublished'
<1> SUFFICES ASSUME NEW r \in pending'
             PROVE  summary' # r /\ ~(man'[r] # NoRun /\ man'[r].status = "success")
  BY DEF PendingIsUnpublished
<1>1. TypeOK' /\ Shared(i) /\ Wrote(i)
  BY TypeStep, SharedStep, RunsStep
<1>2. r \in Runs
  BY <1>1 DEF TypeOK
<1>3. CASE r \in pending
  <2>1. summary # r /\ ~(man[r] # NoRun /\ man[r].status = "success") /\ IsProduction(r[1])
    BY <1>3 DEF PendingIsUnpublished, References
  <2>2. summary' # r
    BY <1>1, <2>1 DEF Shared
  <2>3. ASSUME CommitSuccess(i), r = RunOf(i) PROVE FALSE
    <3>1. IsProduction(i)
      BY <2>1, <2>3 DEF RunOf
    <3>2. summary = RunOf(i)
      BY <2>3, <3>1 DEF OwnFiles, CommitSuccess, AtWork
    <3> QED
      BY <2>1, <2>3, <3>2
  <2> QED
    BY <1>1, <1>2, <2>1, <2>2, <2>3 DEF Wrote
<1>4. CASE r \notin pending
  <2>1. /\ r = RunOf(i) /\ pc[i] = "work" /\ StageOf(i) = "paper_trading_daily"
        /\ summary' = summary /\ man' = man
    BY <1>1, <1>4 DEF Shared
  <2>2. IsProduction(i)
    BY <2>1, NamedIsProduction DEF NamedStages
  <2>3. next[i] \in 1..Len(ProductionPlan) /\ ProductionPlan[next[i]] = "paper_trading_daily"
    BY <2>1, <2>2, ProductionStage DEF Position
  <2>4. next[i] = PublishAt - 1 /\ PublishAt \in Nat
    BY <2>3, ProductionPlanFacts
  <2>5. ~Worked(i, PublishAt)
    BY <2>1, <2>4 DEF Worked
  <2>6. summary # r
    BY <2>1, <2>2, <2>5 DEF OwnFiles, AtWork
  <2>7. man[r].status = "running"
    BY <2>1 DEF Recorded, AtWork
  <2> QED
    BY <2>1, <2>6, <2>7
<1> QED
  BY <1>3, <1>4

\* The run that justified a skip is never rewritten.
LEMMA SkipStep ==
    ASSUME TypeOK, References, SkipIsJustified, NEW i \in Invocations,
           Control(i), Position(i), Recorded(i), Step(i)
    PROVE  SkipIsJustified'
<1>1. Shared(i) /\ Wrote(i) /\ Alone(i)
  BY SharedStep, RunsStep, StepAlone
<1>2. ASSUME NEW r \in Runs, IsProduction(r[1]), man[r] # NoRun, man[r].status = "success"
      PROVE  IsProduction(r[1])' /\ man'[r] # NoRun /\ man'[r].status = "success"
  <2>1. r[1] \in Invocations
    BY <1>2 DEF Runs
  <2> QED
    BY <1>1, <1>2, <2>1, KindsKept DEF Wrote
<1> SUFFICES ASSUME NEW j \in Invocations, reason'[j] = "already_successful"
             PROVE  \E r \in Runs : /\ IsProduction(r[1])'
                                    /\ man'[r] # NoRun
                                    /\ man'[r].status = "success"
  BY DEF SkipIsJustified
<1>3. CASE reason[j] = "already_successful"
  <2>1. PICK r \in Runs : IsProduction(r[1]) /\ man[r] # NoRun /\ man[r].status = "success"
    BY <1>3 DEF SkipIsJustified
  <2> QED
    BY <1>2, <2>1
<1>4. CASE reason[j] # "already_successful"
  <2>1. j = i /\ ValidPublication(seen[i], TRUE)
    BY <1>1, <1>4 DEF Shared, Alone
  <2>2. /\ seen[i] \in Runs /\ man[seen[i]] # NoRun /\ man[seen[i]].status = "success"
        /\ IsProduction(seen[i][1])
    BY <2>1 DEF ValidPublication, References, Referenced, TypeOK
  <2> QED
    BY <1>2, <2>2
<1> QED
  BY <1>3, <1>4

-----------------------------------------------------------------------------
(* The inductive invariant *)

LEMMA PipelineInit == Init => PipelineInv
<1> SUFFICES ASSUME Init PROVE PipelineInv
  OBVIOUS
<1>0. MaxAttempts \in 1..3
  BY PipelineAssumption
<1>1. TypeOK
  BY <1>0 DEF Init, TypeOK, Places
<1>2. ASSUME NEW i \in Invocations PROVE InvocationInv(i)
  <2>1. pc[i] = "idle" /\ kind[i] = "none" /\ attempt[i] = 0 /\ outcome[i] = "none" /\ status[i] = "none"
    BY DEF Init
  <2>2. \A n \in 1..MaxAttempts : man[<<i, n>>] = NoRun
    BY DEF Init, Runs
  <2>3. Control(i) /\ Position(i)
    BY <2>1 DEF Control, Position, Inside, AtWork
  <2>4. Recorded(i) /\ OwnFiles(i)
    BY <2>1, <2>2 DEF Recorded, OwnFiles, AtWork
  <2> QED
    BY <2>1, <2>3, <2>4 DEF InvocationInv, Inside
<1>3. References /\ PendingIsUnpublished /\ SkipIsJustified
  BY DEF Init, References, Referenced, PendingIsUnpublished, SkipIsJustified
<1> QED
  BY <1>1, <1>2, <1>3 DEF PipelineInv

LEMMA PipelineStep == ASSUME PipelineInv, NEW i \in Invocations, Step(i) PROVE PipelineInv'
<1>0. /\ TypeOK /\ InsideHoldsLock /\ References /\ PendingIsUnpublished /\ SkipIsJustified
      /\ Control(i) /\ Position(i) /\ Recorded(i) /\ OwnFiles(i)
  BY DEF PipelineInv, InvocationInv, InsideHoldsLock
<1>1. TypeOK' /\ InsideHoldsLock'
  BY <1>0, TypeStep, LockStep
<1>2. Control(i)' /\ Position(i)' /\ Recorded(i)' /\ OwnFiles(i)'
  BY <1>0, ControlStep, PositionStep, RecordedStep, OwnFilesStep
<1>3. ASSUME NEW j \in Invocations \ {i}
      PROVE  Control(j)' /\ Position(j)' /\ Recorded(j)' /\ OwnFiles(j)'
  <2>1. Control(j) /\ Position(j) /\ Recorded(j) /\ OwnFiles(j)
    BY DEF PipelineInv, InvocationInv
  <2> QED
    BY <1>0, <2>1, OthersStep
<1>4. \A j \in Invocations : InvocationInv(j)'
  BY <1>1, <1>2, <1>3 DEF InvocationInv, InsideHoldsLock
<1>5. References' /\ PendingIsUnpublished' /\ SkipIsJustified'
  BY <1>0, ReferencesStep, PendingStep, SkipStep
<1> QED
  BY <1>1, <1>4, <1>5 DEF PipelineInv

\* An artifact that an operator removes, and a step that changes nothing.
LEMMA PipelineQuiet ==
    ASSUME PipelineInv,
           \/ UNCHANGED vars
           \/ \E a \in Elements(ReportStages) : LoseArtifact(a)
    PROVE  PipelineInv'
<1>1. /\ kind' = kind /\ holder' = holder /\ status' = status /\ reason' = reason
      /\ attempt' = attempt /\ pc' = pc /\ next' = next /\ outcome' = outcome
      /\ seen' = seen /\ man' = man /\ pending' = pending /\ summary' = summary
      /\ loop' = loop
  BY DEF LoseArtifact, vars, fileVars
<1>2. /\ artifact' \in [Elements(ReportStages) -> Runs \cup {NoRun}]
      /\ \A a \in Elements(ReportStages) : artifact'[a] \in {artifact[a], NoRun}
  BY DEF LoseArtifact, PipelineInv, TypeOK, vars, fileVars
<1>3. TypeOK'
  BY <1>1, <1>2 DEF PipelineInv, TypeOK
<1>4. ASSUME NEW i \in Invocations PROVE InvocationInv(i)'
  <2>1. /\ pc[i] \in Inside => holder = i
        /\ Control(i) /\ Position(i) /\ Recorded(i) /\ OwnFiles(i)
    BY DEF PipelineInv, InvocationInv
  <2>2. Control(i)' /\ Position(i)'
    BY <1>1, <2>1 DEF Control, Position, Plan, StageOf
  <2>3. Recorded(i)'
    BY <1>1, <2>1 DEF Recorded, RunOf
  <2>4. RunOf(i)' = RunOf(i) /\ (IsProduction(i)' <=> IsProduction(i))
        /\ \A n : Worked(i, n)' <=> Worked(i, n)
    BY <1>1 DEF RunOf, IsProduction, Worked
  <2>5. OwnFiles(i)'
    BY <1>1, <1>2, <2>1, <2>4 DEF OwnFiles
  <2> QED
    BY <1>1, <2>1, <2>2, <2>3, <2>5 DEF InvocationInv
<1>5. References' /\ PendingIsUnpublished' /\ SkipIsJustified'
  <2>1. \A i : IsProduction(i)' <=> IsProduction(i)
    BY <1>1 DEF IsProduction
  <2> QED
    BY <1>1, <2>1 DEF PipelineInv, References, Referenced, PendingIsUnpublished, SkipIsJustified
<1> QED
  BY <1>3, <1>4, <1>5 DEF PipelineInv

\* Every reachable state satisfies the inductive invariant.
THEOREM PipelineInvariant == Spec => []PipelineInv
<1>1. PipelineInv /\ [Next]_vars => PipelineInv'
  BY PipelineStep, PipelineQuiet DEF Next, Step
<1> QED
  BY <1>1, PipelineInit, PTL DEF Spec

-----------------------------------------------------------------------------
(* What follows from it *)

\* Every record, manifest and file of the pipeline holds what its code writes there.
THEOREM PipelineTypes == Spec => []TypeOK
<1>1. PipelineInv => TypeOK
  BY DEF PipelineInv
<1> QED
  BY <1>1, PipelineInvariant, PTL

\* However many processes a timer and operators start, retry and kill, whoever is
\* inside ProductionPipeline.run has the production lock, so there is one at a time.
THEOREM OneInsideThePipeline == Spec => []InsideHoldsLock
<1>1. PipelineInv => InsideHoldsLock
  BY DEF PipelineInv, InvocationInv, InsideHoldsLock
<1> QED
  BY <1>1, PipelineInvariant, PTL

\* Whoever skips the date as already published, from files read one by one without the
\* lock, can point to a production run of the date that succeeded.
THEOREM SkipsAreJustified == Spec => []SkipIsJustified
<1>1. PipelineInv => SkipIsJustified
  BY DEF PipelineInv
<1> QED
  BY <1>1, PipelineInvariant, PTL

\* An audit record says success only for a run whose manifest says so.
THEOREM ReportsAreReal == Spec => []ReportedSuccessIsReal
<1>1. PipelineInv => ReportedSuccessIsReal
  BY DEF PipelineInv, InvocationInv, Control, Recorded, ReportedSuccessIsReal
<1> QED
  BY <1>1, PipelineInvariant, PTL

\* No failure that the pipeline handles leaves a manifest that says running.
THEOREM RunningRunsAreAccountedFor == Spec => []RunningIsAccountedFor
<1>1. PipelineInv => RunningIsAccountedFor
  BY DEF PipelineInv, InvocationInv, Recorded, RunningIsAccountedFor
<1> QED
  BY <1>1, PipelineInvariant, PTL

\* A pending summary that is still there belongs to a run that did not publish.
THEOREM PendingRunsAreUnpublished == Spec => []PendingIsUnpublished
<1>1. PipelineInv => PendingIsUnpublished
  BY DEF PipelineInv
<1> QED
  BY <1>1, PipelineInvariant, PTL

\* No process, retry or late handler rewrites the manifest of a run that has ended.
THEOREM EndedRunsStay == Spec => TerminalRunsFrozen
<1> DEFINE Frozen == \A r \in Runs : man[r] # NoRun /\ man[r].status # "running" => man'[r] = man[r]
<1>1. PipelineInv /\ [Next]_vars => [Frozen]_vars
  <2> SUFFICES ASSUME PipelineInv, Next PROVE Frozen
    OBVIOUS
  <2>1. ASSUME NEW i \in Invocations, Step(i) PROVE Frozen
    <3>1. Wrote(i)
      BY <2>1, RunsStep DEF PipelineInv, InvocationInv
    <3> QED
      BY <3>1 DEF Wrote
  <2>2. ASSUME NEW a \in Elements(ReportStages), LoseArtifact(a) PROVE Frozen
    BY <2>2 DEF LoseArtifact
  <2> QED
    BY <2>1, <2>2 DEF Next, Step
<1> QED
  BY <1>1, PipelineInvariant, PTL DEF Spec, TerminalRunsFrozen

\* A production run is declared successful only over the files that it wrote itself:
\* the summary, each report artifact still there and the closed-loop manifest.
THEOREM SuccessIsOverOwnFiles == Spec => SuccessOverOwnFiles
<1> DEFINE Own ==
      \A i \in Invocations :
          CommitSuccess(i) /\ IsProduction(i)
            => /\ summary = RunOf(i)
               /\ \A a \in Elements(ReportStages) : artifact[a] \in {RunOf(i), NoRun}
               /\ SoftStages # <<>> => loop = RunOf(i)
<1>1. PipelineInv => Own
  <2> SUFFICES ASSUME PipelineInv, NEW i \in Invocations, CommitSuccess(i), IsProduction(i)
               PROVE  /\ summary = RunOf(i)
                      /\ \A a \in Elements(ReportStages) : artifact[a] \in {RunOf(i), NoRun}
                      /\ SoftStages # <<>> => loop = RunOf(i)
    OBVIOUS
  <2>1. pc[i] = "commit" /\ next[i] > Len(ProductionPlan) /\ OwnFiles(i)
    BY ProductionStage DEF PipelineInv, InvocationInv, Position, CommitSuccess
  <2>2. \A n \in 1..Len(ProductionPlan) : Worked(i, n)
    BY <2>1, ProductionPlanFacts DEF Worked, PipelineInv, TypeOK
  <2>3. /\ summary = RunOf(i)
        /\ \A n \in 1..Len(ProductionPlan) :
              /\ ProductionPlan[n] \in Elements(ReportStages)
                    => artifact[ProductionPlan[n]] \in {RunOf(i), NoRun}
              /\ ProductionPlan[n] = "publish_closed_loop_manifest" => loop = RunOf(i)
    BY <2>1, <2>2 DEF OwnFiles, AtWork
  <2>4. \A a \in Elements(ReportStages) : \E n \in 1..Len(ProductionPlan) : ProductionPlan[n] = a
    BY ProductionPlanFacts
  <2>5. SoftStages # <<>> => /\ Len(ProductionPlan) \in 1..Len(ProductionPlan)
                             /\ ProductionPlan[Len(ProductionPlan)] = "publish_closed_loop_manifest"
    BY ProductionPlanFacts
  <2> QED
    BY <2>3, <2>4, <2>5
<1>2. PipelineInv => [Own]_vars
  BY <1>1
<1> QED
  BY <1>2, PipelineInvariant, PTL DEF SuccessOverOwnFiles

-----------------------------------------------------------------------------
(***************************************************************************)
(* The pipeline's lock keeps the promise that ProductionLock implements:   *)
(* the model's one variable stands for no more than the lock file gives.   *)
(***************************************************************************)

InsideNow == {j \in Invocations : pc[j] \in Inside}
Service == INSTANCE MutexLock WITH Runners <- Invocations, inside <- InsideNow

\* Only by taking the lock does an invocation come to be inside.
LEMMA OnlyLockEnters ==
    ASSUME TypeOK, NEW i \in Invocations, Step(i), ~AcquireLock(i), pc'[i] \in Inside
    PROVE  pc[i] \in Inside
<1>0. pc \in [Invocations -> Places]
  BY DEF TypeOK
<1> USE <1>0 DEF Inside, Goto, Finish, FailRun
<1>1. CASE Trigger(i) \/ NotToday(i) \/ ReadSummary(i) \/ SkipSuccessful(i) \/ NothingPublished(i)
  BY <1>1 DEF Trigger, NotToday, ReadSummary, SkipSuccessful, NothingPublished
<1>2. CASE CreateRun(i) \/ ResolveFails(i) \/ ResolveAsOf(i) \/ StageStart(i) \/ StageWork(i)
  BY <1>2 DEF CreateRun, ResolveFails, ResolveAsOf, StageStart, StageWork
<1>3. CASE PaperPending(i) \/ PaperTraded(i) \/ PaperFails(i) \/ StageFails(i) \/ SoftStageFails(i)
  BY <1>3 DEF PaperPending, PaperTraded, PaperFails, StageFails, SoftStageFails
<1>4. CASE StageEnd(i) \/ Validate(i) \/ ValidationFails(i) \/ CommitSuccess(i)
  BY <1>4 DEF StageEnd, Validate, ValidationFails, CommitSuccess
<1>5. CASE LockRefused(i) \/ ReleaseLock(i) \/ Escape(i) \/ Escaped(i) \/ CloseEscaped(i) \/ Unreported(i) \/ Crash(i)
  BY <1>5 DEF LockRefused, ReleaseLock, Escape, Escaped, CloseEscaped, Unreported, Crash
<1>6. CASE Retry(i) \/ ReportFailure(i) \/ ReportSuccess(i)
  BY <1>6 DEF Retry, ReportFailure, ReportSuccess
<1> QED
  BY <1>1, <1>2, <1>3, <1>4, <1>5, <1>6 DEF Step, Proceed

\* A step of the pipeline is an Enter, a Leave or neither.
LEMMA StepKeepsMutex == PipelineInv /\ [Next]_vars => [Service!Next]_InsideNow
<1> SUFFICES ASSUME PipelineInv, [Next]_vars
             PROVE  InsideNow' = InsideNow
                      \/ \E j \in Invocations : Service!Enter(j) \/ Service!Leave(j)
  BY DEF Service!Next
<1>0. TypeOK /\ \A j \in Invocations : pc[j] \in Inside => holder = j
  BY DEF PipelineInv, InvocationInv
<1>1. ASSUME NEW i \in Invocations, Step(i)
      PROVE  InsideNow' = InsideNow \/ Service!Enter(i) \/ Service!Leave(i)
  <2>1. \A j \in Invocations \ {i} : pc'[j] = pc[j]
    BY <1>0, <1>1, StepAlone DEF Alone
  <2>2. CASE AcquireLock(i)
    <3>1. InsideNow = {}
      BY <1>0, <2>2, PipelineAssumption DEF AcquireLock, InsideNow
    <3>2. pc'[i] \in Inside
      BY <1>0, <2>2 DEF AcquireLock, Goto, TypeOK, Inside
    <3>3. InsideNow' = {i}
      BY <2>1, <3>1, <3>2 DEF InsideNow
    <3> QED
      BY <3>1, <3>3 DEF Service!Enter
  <2>3. CASE pc[i] \in Inside /\ pc'[i] \notin Inside
    <3>1. InsideNow = {i}
      BY <1>0, <2>3 DEF InsideNow
    <3>2. InsideNow' = {}
      BY <2>1, <2>3, <3>1 DEF InsideNow
    <3> QED
      BY <3>1, <3>2 DEF Service!Leave
  <2>4. CASE (pc[i] \in Inside) <=> (pc'[i] \in Inside)
    BY <2>1, <2>4 DEF InsideNow
  <2> QED
    BY <1>0, <1>1, <2>2, <2>3, <2>4, OnlyLockEnters
<1>2. ASSUME NEW a \in Elements(ReportStages), LoseArtifact(a) PROVE InsideNow' = InsideNow
  BY <1>2 DEF LoseArtifact, InsideNow
<1>3. CASE UNCHANGED vars
  BY <1>3 DEF vars, InsideNow
<1> QED
  BY <1>1, <1>2, <1>3 DEF Next, Step

\* Between them the invocations, their retries and their deaths use the lock as the
\* mutual-exclusion service: one enters only when no other is inside.
THEOREM PipelineLockIsMutex == Spec => Service!Spec
<1>1. Init => Service!Init
  BY DEF Init, InsideNow, Inside, Service!Init
<1>2. PipelineInv /\ [Next]_vars => [Service!Next]_InsideNow
  BY StepKeepsMutex
<1> QED
  BY <1>1, <1>2, PipelineInvariant, PTL DEF Spec, Service!Spec
=============================================================================
