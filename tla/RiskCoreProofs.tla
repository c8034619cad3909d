------------------------------ MODULE RiskCoreProofs ------------------------------
(***************************************************************************)
(* The pre-trade checks, for any number of entering instances, flags, targets and      *)
(* limits: a reason that stood all along keeps the instance out, and the breach of       *)
(* the day is not undone, although every check reads in a session of its own.              *)
(***************************************************************************)
EXTENDS RiskCore, FiniteSetTheorems, TLAPS

Limits ==
    /\ FlagType \subseteq {"FREEZE", "KILL_SWITCH", "EMERGENCY_EXIT"}
    /\ Outcomes \subseteq Int /\ MaxOpen \in Nat /\ MaxEngaged \in Nat /\ MaxDailyEntries \in Nat
    /\ IsFiniteSet(Entrants)

Types ==
    /\ stage \in [Entrants -> Checks \cup {"idle", "approved", "rejected", "entered"}]
    /\ since \in [Entrants -> SUBSET Reason]
    /\ seen \in [Entrants -> [total : Int, breached : BOOLEAN]]
    /\ realized \in Int /\ open \in Nat /\ closed \in Nat
    /\ row \in Row

\* The row that carries a breach exists, and so does the row a persist loaded; without
\* a limit nothing is ever persisted.
RowIsThere ==
    /\ row.breached => row.exists /\ LossLimit # None
    /\ \A i \in Entrants : stage[i] \in {"persist_load", "persist_write"} => LossLimit # None
    /\ \A i \in Entrants : stage[i] = "persist_write" => row.exists

\* A reason of this kind has been looked for.
After(i, checks) == stage[i] \in checks \cup {"broker", "approved"}
AfterLoss(i) == After(i, {"max_daily_entries"})
AfterDecision(i) == After(i, {"persist_load", "persist_write", "max_daily_entries"})

\* What has barred an instance all along stands now, and is not among what the checks
\* it has passed look for.
PassedOf(i) ==
    /\ InProgress(i) => since[i] \subseteq Standing(i)
    /\ AfterDecision(i) \/ stage[i] \in {"kill_switch", "emergency_stop", "daily_loss_limit"}
         => \A f \in since[i] : f[1] # "FREEZE"
    /\ AfterDecision(i) \/ stage[i] \in {"emergency_stop", "daily_loss_limit"}
         => \A f \in since[i] : f[1] # "KILL_SWITCH"
    /\ AfterDecision(i) \/ stage[i] = "daily_loss_limit"
         => \A f \in since[i] : f[1] # "EMERGENCY_EXIT"
    /\ AfterDecision(i) /\ (\E f \in since[i] : f[1] \in {"loss", "latch"}) => LossVerdict(i) = "rejected"
    /\ AfterLoss(i) => \A f \in since[i] : f[1] \notin {"loss", "latch"}
    /\ After(i, {}) => \A f \in since[i] : f[1] # "cap"
PassedIsGone == \A i \in Entrants : PassedOf(i)

IInv == Types /\ RowIsThere /\ PassedIsGone

LEMMA InvariantSuffices == ASSUME Limits, IInv PROVE StandingReasonRejects
  <1> SUFFICES ASSUME NEW i \in Entrants, stage[i] = "approved", NEW f \in since[i] PROVE FALSE
    BY DEF StandingReasonRejects
  <1>1. f \in Reason BY DEF IInv, Types
  <1>2. f[1] \in {"FREEZE", "KILL_SWITCH", "EMERGENCY_EXIT", "loss", "latch", "cap"}
    BY <1>1 DEF Reason, Flag, Limits
  <1> QED BY <1>2 DEF IInv, PassedIsGone, PassedOf, AfterDecision, AfterLoss, After

\* Every reason is of one kind, and what stands can be seen by the check of its kind.
LEMMA WhatStands ==
    ASSUME Limits, NEW i \in Entrants, NEW f \in Standing(i)
    PROVE  /\ f \in Reason
           /\ f[1] = "loss" => Crossed(realized)
           /\ f[1] = "latch" => row.breached
           /\ f[1] = "cap" => Positions >= MaxDailyEntries
           /\ f[1] \in {"FREEZE", "KILL_SWITCH", "EMERGENCY_EXIT"} => f \in Relevant(i)
  <1>1. CASE f \in Flag /\ flags[f] > 0 /\ f[2] \notin Target \ {Everything, Account, i}
    <2>1. f[1] \in {"FREEZE", "KILL_SWITCH", "EMERGENCY_EXIT"} /\ f[2] \in Target
      BY <1>1 DEF Flag, Limits
    <2>2. f \in Relevant(i) BY <1>1, <2>1 DEF Relevant
    <2> QED BY <1>1, <2>1, <2>2 DEF Reason
  <1>2. CASE f = <<"loss", Account>> /\ Crossed(realized) BY <1>2 DEF Reason
  <1>3. CASE f = <<"latch", Account>> /\ row.breached BY <1>3 DEF Reason
  <1>4. CASE f = <<"cap", Account>> /\ Positions >= MaxDailyEntries BY <1>4 DEF Reason
  <1> QED BY <1>1, <1>2, <1>3, <1>4 DEF Standing

LEMMA CountsAreNumbers == ASSUME Limits, IInv PROVE Positions \in Nat /\ MaxDailyEntries \in Nat
  <1> DEFINE Entered == {i \in Entrants : stage[i] = "entered"}
  <1>1. Entered \subseteq Entrants /\ IsFiniteSet(Entrants) BY DEF Limits
  <1>2. IsFiniteSet(Entered) BY <1>1, FS_Subset
  <1>3. Cardinality(Entered) \in Nat BY <1>2, FS_CardinalityType
  <1>4. open \in Nat /\ closed \in Nat BY DEF IInv, Types
  <1> QED BY <1>3, <1>4 DEF Positions, Limits

\* A validation that begins has everything before it; the reasons stand as they stood.
LEMMA BeginKeepsIt ==
    ASSUME Limits, IInv, NEW i \in Entrants, Begin(i)
    PROVE  IInv'
  <1>1. /\ stage[i] = "idle" /\ stage' = [stage EXCEPT ![i] = "strategy_state"]
        /\ since' = [since EXCEPT ![i] = Standing(i)]
        /\ UNCHANGED <<seen, loaded, flags, engaged, row, open, closed, realized>>
    BY DEF Begin, Goes, world
  <1>2. Standing(i) \subseteq Reason BY WhatStands
  <1>3. Types' BY <1>1, <1>2 DEF IInv, Types, Checks
  <1>4. RowIsThere' BY <1>1 DEF IInv, RowIsThere, Types
  <1>5. {j \in Entrants : stage'[j] = "entered"} = {j \in Entrants : stage[j] = "entered"}
    BY <1>1 DEF IInv, Types
  <1>6. Positions' = Positions BY <1>1, <1>5 DEF Positions
  <1>7. \A j \in Entrants : Standing(j)' = Standing(j) BY <1>1, <1>6 DEF Standing, Crossed
  <1>8. ASSUME NEW j \in Entrants, j # i PROVE stage'[j] = stage[j] /\ since'[j] = since[j]
    BY <1>1, <1>8 DEF IInv, Types
  <1>9. stage'[i] = "strategy_state" /\ since'[i] = Standing(i) BY <1>1 DEF IInv, Types
  <1>10. PassedIsGone'
    BY <1>1, <1>7, <1>8, <1>9
       DEF IInv, PassedIsGone, PassedOf, InProgress, AfterDecision, AfterLoss, After, LossVerdict, Crossed
  <1> QED BY <1>3, <1>4, <1>10 DEF IInv

\* Every other step: what barred an instance in progress bars it still, or never will.
LEMMA OthersForget ==
    ASSUME IInv, Remember
    PROVE  /\ since' \in [Entrants -> SUBSET Reason]
           /\ \A j \in Entrants : since'[j] \subseteq since[j]
           /\ \A j \in Entrants : InProgress(j) => since'[j] \subseteq Standing(j)'
  BY DEF IInv, Types, Remember

\* A step that concerns no validation: the stages and what they decided on stay.
LEMMA WorldKeepsIt ==
    ASSUME Limits, IInv, Remember, UNCHANGED <<stage, seen, row>>,
           realized' \in Int, open' \in Nat, closed' \in Nat
    PROVE  IInv'
  <1>1. Types' /\ RowIsThere' BY OthersForget DEF IInv, Types, RowIsThere
  <1>2. \A j \in Entrants : /\ stage'[j] = stage[j] /\ since'[j] \subseteq since[j]
                            /\ InProgress(j)' => since'[j] \subseteq Standing(j)'
                            /\ LossVerdict(j)' = LossVerdict(j)
    BY OthersForget DEF InProgress, LossVerdict, Crossed
  <1>3. PassedIsGone'
    BY <1>2 DEF IInv, PassedIsGone, PassedOf, AfterDecision, AfterLoss, After
  <1> QED BY <1>1, <1>3 DEF IInv

\* Where a check leads that persists nothing.
Settled == {"strategy_state", "kill_switch", "emergency_stop", "daily_loss_limit", "max_daily_entries",
            "broker", "approved", "rejected"}

\* A check moves its own instance, to the next check or to an end.
LEMMA CheckKeepsIt ==
    ASSUME Limits, IInv, NEW i \in Entrants, NEW to,
           to \in Settled \cup {"entered"},
           InProgress(i) \/ stage[i] = "approved", InProgress(i) \/ to = "entered",
           Goes(i, to), Remember, UNCHANGED <<seen, realized, open, closed>>, row' \in Row,
           RowIsThere',
           \A f \in since'[i] :
              /\ to \in {"kill_switch", "emergency_stop", "daily_loss_limit", "max_daily_entries", "broker",
                          "approved"} => f[1] # "FREEZE"
              /\ to \in {"emergency_stop", "daily_loss_limit", "max_daily_entries", "broker", "approved"}
                   => f[1] # "KILL_SWITCH"
              /\ to \in {"daily_loss_limit", "max_daily_entries", "broker", "approved"}
                   => f[1] # "EMERGENCY_EXIT"
              /\ to \in {"max_daily_entries", "broker", "approved"} => f[1] \notin {"loss", "latch"}
              /\ to \in {"broker", "approved"} => f[1] # "cap"
    PROVE  IInv'
  <1>1. stage' = [stage EXCEPT ![i] = to] BY DEF Goes
  <1>2. Types' BY <1>1, OthersForget DEF IInv, Types, Settled, Checks
  <1>3. stage'[i] = to /\ \A j \in Entrants \ {i} : stage'[j] = stage[j] BY <1>1 DEF IInv, Types
  <1>4. \A j \in Entrants : /\ since'[j] \subseteq since[j]
                            /\ InProgress(j)' => since'[j] \subseteq Standing(j)'
                            /\ LossVerdict(j)' = LossVerdict(j)
    <2>1. \A j \in Entrants : InProgress(j)' => InProgress(j)
      BY <1>3 DEF InProgress, Checks, Settled
    <2> QED BY <2>1, OthersForget DEF LossVerdict, Crossed
  <1>5. PassedIsGone'
    <2> SUFFICES ASSUME NEW j \in Entrants PROVE PassedOf(j)' BY DEF PassedIsGone
    <2>1. CASE j # i BY <1>3, <1>4, <2>1 DEF IInv, PassedIsGone, PassedOf, AfterDecision, AfterLoss, After
    <2>2. CASE j = i BY <1>3, <1>4, <2>2 DEF PassedOf, AfterDecision, AfterLoss, After, Settled
    <2> QED BY <2>1, <2>2
  <1> QED BY <1>2, <1>5 DEF IInv

\* validate_entry, check by check.
LEMMA ChecksKeepIt ==
    ASSUME Limits, IInv, NEW i \in Entrants, NotActive(i) \/ FlagChecks(i) \/ CapCheck(i) \/ BrokerChecks(i)
    PROVE  IInv'
  <1> USE DEF Decides, Checks, InProgress, Settled
  <1>0. UNCHANGED <<seen, row, realized, open, closed>> /\ Remember
    BY DEF NotActive, FlagChecks, FlagCheck, CapCheck, BrokerChecks, world
  <1>1. since'[i] \subseteq since[i] BY <1>0, OthersForget
  <1>2. PICK to \in Settled :
          /\ Goes(i, to) /\ InProgress(i)
          /\ \A f \in since[i] :
              /\ to \in {"kill_switch", "emergency_stop", "daily_loss_limit", "max_daily_entries", "broker",
                          "approved"} => f[1] # "FREEZE"
              /\ to \in {"emergency_stop", "daily_loss_limit", "max_daily_entries", "broker", "approved"}
                   => f[1] # "KILL_SWITCH"
              /\ to \in {"daily_loss_limit", "max_daily_entries", "broker", "approved"}
                   => f[1] # "EMERGENCY_EXIT"
              /\ to \in {"max_daily_entries", "broker", "approved"} => f[1] \notin {"loss", "latch"}
              /\ to \in {"broker", "approved"} => f[1] # "cap"
    <2> DEFINE Old == \A f \in since[i] :
              /\ stage[i] \in {"kill_switch", "emergency_stop", "daily_loss_limit", "max_daily_entries",
                                "broker"} => f[1] # "FREEZE"
              /\ stage[i] \in {"emergency_stop", "daily_loss_limit", "max_daily_entries", "broker"}
                   => f[1] # "KILL_SWITCH"
              /\ stage[i] \in {"daily_loss_limit", "max_daily_entries", "broker"} => f[1] # "EMERGENCY_EXIT"
              /\ stage[i] \in {"max_daily_entries", "broker"} => f[1] \notin {"loss", "latch"}
              /\ stage[i] = "broker" => f[1] # "cap"
    <2>1. Old BY DEF IInv, PassedIsGone, PassedOf, AfterDecision, AfterLoss, After
    <2>2. InProgress(i) => \A f \in since[i] : f \in Standing(i) BY DEF IInv, PassedIsGone, PassedOf
    <2> HIDE DEF Old
    <2>3. CASE NotActive(i) BY <2>3 DEF NotActive
    <2>4. CASE FlagChecks(i)
      <3>1. ASSUME NEW name \in {"strategy_state", "kill_switch", "emergency_stop"},
                   NEW type \in {"FREEZE", "KILL_SWITCH", "EMERGENCY_EXIT"},
                   NEW next, FlagCheck(i, name, type, next)
            PROVE  Goes(i, "rejected") \/ (Goes(i, next) /\ \A f \in since[i] : f[1] # type)
        BY <2>2, <3>1, WhatStands DEF FlagCheck
      <3>2. CASE FlagCheck(i, "strategy_state", "FREEZE", "kill_switch")
        BY <3>1, <3>2 DEF FlagCheck
      <3>3. CASE FlagCheck(i, "kill_switch", "KILL_SWITCH", "emergency_stop")
        BY <2>1, <3>1, <3>3 DEF FlagCheck, Old
      <3>4. CASE FlagCheck(i, "emergency_stop", "EMERGENCY_EXIT", "daily_loss_limit")
        BY <2>1, <3>1, <3>4 DEF FlagCheck, Old
      <3> QED BY <2>4, <3>2, <3>3, <3>4 DEF FlagChecks
    <2>5. CASE CapCheck(i)
      <3>1. stage[i] = "max_daily_entries" /\ Goes(i, IF Positions < MaxDailyEntries THEN "broker" ELSE "rejected")
        BY <2>5 DEF CapCheck
      <3>2. CASE Positions < MaxDailyEntries
        <4>1. ~(Positions >= MaxDailyEntries) BY <3>2, CountsAreNumbers
        <4>2. \A f \in since[i] : f[1] # "cap" BY <2>2, <3>1, <4>1, WhatStands
        <4> QED BY <2>1, <3>1, <3>2, <4>2 DEF Old
      <3>3. CASE ~(Positions < MaxDailyEntries) BY <3>1, <3>3
      <3> QED BY <3>2, <3>3
    <2>6. CASE BrokerChecks(i) BY <2>1, <2>6 DEF BrokerChecks, Old
    <2> QED BY <2>3, <2>4, <2>5, <2>6
  <1>3. RowIsThere' BY <1>0, <1>2 DEF IInv, RowIsThere, Types, Goes
  <1> QED BY <1>0, <1>1, <1>2, <1>3, CheckKeepsIt DEF IInv, Types

\* _check_daily_loss_limit decides; what it saw rejects if a loss stood all along.
LEMMA LossCheckKeepsIt ==
    ASSUME Limits, IInv, NEW i \in Entrants, LossCheck(i)
    PROVE  IInv'
  <1>1. PICK to \in {"max_daily_entries", "persist_load"} :
          /\ to = IF LossLimit = None THEN "max_daily_entries" ELSE "persist_load"
          /\ stage' = [stage EXCEPT ![i] = to]
    BY DEF LossCheck, Goes
  <1>2. /\ stage[i] = "daily_loss_limit" /\ Remember
        /\ seen' = [seen EXCEPT ![i] = [total |-> realized, breached |-> row.breached]]
        /\ UNCHANGED <<row, realized, open, closed>>
    BY DEF LossCheck, world
  <1>3. /\ stage'[i] = to /\ seen'[i] = [total |-> realized, breached |-> row.breached]
        /\ \A j \in Entrants \ {i} : stage'[j] = stage[j] /\ seen'[j] = seen[j]
    BY <1>1, <1>2 DEF IInv, Types
  <1>4. Types'
    <2>1. row.breached \in BOOLEAN BY DEF IInv, Types, Row
    <2> QED BY <1>1, <1>2, <2>1, OthersForget DEF IInv, Types, Checks
  <1>5. RowIsThere' BY <1>1, <1>2, <1>3 DEF IInv, RowIsThere
  <1>6. \A j \in Entrants : since'[j] \subseteq since[j] /\ (InProgress(j) => since'[j] \subseteq Standing(j)')
    BY <1>2, OthersForget
  <1>7. InProgress(i) BY <1>2 DEF InProgress, Checks
  <1>8. ASSUME NEW f \in since[i], f[1] \in {"loss", "latch"}
        PROVE  to = "persist_load" /\ LossVerdict(i)' = "rejected"
    <2>1. f \in Standing(i) BY <1>7 DEF IInv, PassedIsGone, PassedOf
    <2>2. Crossed(realized) \/ row.breached BY <1>8, <2>1, WhatStands
    <2>3. LossLimit # None BY <2>2 DEF Crossed, IInv, RowIsThere
    <2> QED BY <1>1, <1>3, <2>2, <2>3 DEF LossVerdict, Crossed
  <1>9. PassedIsGone'
    <2> SUFFICES ASSUME NEW j \in Entrants PROVE PassedOf(j)' BY DEF PassedIsGone
    <2>1. CASE j # i
      <3>1. LossVerdict(j)' = LossVerdict(j) BY <1>3, <2>1 DEF LossVerdict, Crossed
      <3> QED BY <1>3, <1>6, <2>1, <3>1
          DEF IInv, PassedIsGone, PassedOf, AfterDecision, AfterLoss, After, InProgress
    <2>2. CASE j = i
      <3>1. since'[i] \subseteq Standing(i)' BY <1>6, <1>7
      <3>2. \A f \in since'[i] : f[1] \notin {"FREEZE", "KILL_SWITCH", "EMERGENCY_EXIT"}
        BY <1>2, <1>6 DEF IInv, PassedIsGone, PassedOf
      <3>3. (\E f \in since'[i] : f[1] \in {"loss", "latch"})
              => to = "persist_load" /\ LossVerdict(i)' = "rejected"
        BY <1>6, <1>8
      <3> QED BY <1>3, <2>2, <3>1, <3>2, <3>3 DEF PassedOf, AfterDecision, AfterLoss, After
    <2> QED BY <2>1, <2>2
  <1> QED BY <1>4, <1>5, <1>9 DEF IInv

\* A verdict of the loss check that is reached after the persist.
LEMMA VerdictKeepsIt ==
    ASSUME Limits, IInv, NEW i \in Entrants, stage[i] \in {"persist_load", "persist_write"},
           Goes(i, LossVerdict(i)), Remember, UNCHANGED <<seen, realized, open, closed>>, row' \in Row,
           row'.breached => row'.exists /\ LossLimit # None, row.exists => row'.exists
    PROVE  IInv'
  <1> USE DEF Settled, InProgress, Checks
  <1>1. LossVerdict(i) \in {"rejected", "max_daily_entries"} BY DEF LossVerdict
  <1>2. since'[i] \subseteq since[i] BY OthersForget
  <1>3. \A f \in since[i] :
          /\ f[1] \notin {"FREEZE", "KILL_SWITCH", "EMERGENCY_EXIT"}
          /\ LossVerdict(i) = "max_daily_entries" => f[1] \notin {"loss", "latch"}
    BY DEF IInv, PassedIsGone, PassedOf, AfterDecision, After
  <1>4. RowIsThere' BY <1>1 DEF IInv, RowIsThere, Types, Goes
  <1> HIDE DEF Settled, Checks
  <1> QED BY <1>1, <1>2, <1>3, <1>4, CheckKeepsIt DEF Settled, Checks

\* _persist_daily_risk: the row is made with the figures, or loaded.
LEMMA PersistLoadKeepsIt ==
    ASSUME Limits, IInv, NEW i \in Entrants, PersistLoad(i)
    PROVE  IInv'
  <1>1. /\ stage[i] = "persist_load" /\ Remember /\ UNCHANGED <<seen, realized, open, closed>>
        /\ LossLimit # None
    BY DEF PersistLoad, IInv, RowIsThere
  <1>2. CASE row.exists
    <2>1. stage' = [stage EXCEPT ![i] = "persist_write"] /\ row' = row BY <1>2 DEF PersistLoad, Goes
    <2>2. stage'[i] = "persist_write" /\ \A j \in Entrants \ {i} : stage'[j] = stage[j]
      BY <2>1 DEF IInv, Types
    <2>3. Types' BY <1>1, <2>1, OthersForget DEF IInv, Types, Checks
    <2>4. RowIsThere' BY <1>1, <1>2, <2>1, <2>2 DEF IInv, RowIsThere
    <2>5. \A j \in Entrants : /\ since'[j] \subseteq since[j]
                              /\ (InProgress(j) => since'[j] \subseteq Standing(j)')
                              /\ LossVerdict(j)' = LossVerdict(j)
      BY <1>1, OthersForget DEF LossVerdict, Crossed
    <2>6. PassedIsGone'
      <3> SUFFICES ASSUME NEW j \in Entrants PROVE PassedOf(j)' BY DEF PassedIsGone
      <3>1. CASE j # i
        BY <2>2, <2>5, <3>1 DEF IInv, PassedIsGone, PassedOf, AfterDecision, AfterLoss, After, InProgress
      <3>2. CASE j = i
        BY <1>1, <2>2, <2>5, <3>2
           DEF IInv, PassedIsGone, PassedOf, AfterDecision, AfterLoss, After, InProgress, Checks
      <3> QED BY <3>1, <3>2
    <2> QED BY <2>3, <2>4, <2>6 DEF IInv
  <1>3. CASE ~row.exists
    <2>1. /\ row' = [exists |-> TRUE, realized |-> seen[i].total, breached |-> Crossed(seen[i].total),
                     version |-> 1]
          /\ Goes(i, LossVerdict(i))
      BY <1>3 DEF PersistLoad
    <2>2. seen[i].total \in Int /\ Crossed(seen[i].total) \in BOOLEAN BY DEF IInv, Types, Crossed
    <2>3. row' \in Row BY <2>1, <2>2 DEF Row
    <2>4. row'.exists BY <2>1
    <2> QED BY <1>1, <2>1, <2>3, <2>4, VerdictKeepsIt
  <1> QED BY <1>2, <1>3

\* The commit: the row that is written keeps its breach, or gains one.
LEMMA WriteLatches ==
    ASSUME IInv, NEW i \in Entrants
    PROVE  /\ Persisted(i) \in Row
           /\ Persisted(i).exists = row.exists
           /\ row.breached => Persisted(i).breached
  <1>1. row \in Row /\ seen[i].total \in Int BY DEF IInv, Types
  <1>2. CASE Persisted(i) = row BY <1>1, <1>2
  <1>3. CASE Persisted(i) # row
    <2>1. PICK latch \in BOOLEAN :
            Persisted(i) = [row EXCEPT !.realized = seen[i].total, !.breached = row.breached \/ latch,
                                       !.version = row.version + 1]
      <3> DEFINE latch == Crossed(seen[i].total) /\ ~loaded[i].breached
      <3>1. latch \in BOOLEAN BY DEF Crossed
      <3>2. Persisted(i) = [row EXCEPT !.realized = seen[i].total, !.breached = row.breached \/ latch,
                                       !.version = row.version + 1]
        BY <1>3 DEF Persisted
      <3> QED BY <3>1, <3>2
    <2>2. row.breached \in BOOLEAN /\ row.version \in Nat BY <1>1 DEF Row
    <2>3. PICK total \in Int, b \in BOOLEAN, v \in Nat :
            /\ Persisted(i) = [row EXCEPT !.realized = total, !.breached = b, !.version = v]
            /\ row.breached => b
      <3>1. (row.breached \/ latch) \in BOOLEAN /\ row.version + 1 \in Nat BY <2>2
      <3> QED BY <1>1, <2>1, <3>1
    <2>4. PICK p : p = Persisted(i) OBVIOUS
    <2>5. p \in Row /\ p.exists = row.exists /\ p.breached = b BY <1>1, <2>3, <2>4 DEF Row
    <2> QED BY <2>3, <2>4, <2>5
  <1> QED BY <1>2, <1>3

LEMMA PersistWriteKeepsIt ==
    ASSUME Limits, IInv, NEW i \in Entrants, PersistWrite(i)
    PROVE  IInv'
  <1>1. /\ stage[i] = "persist_write" /\ Goes(i, LossVerdict(i)) /\ Remember
        /\ UNCHANGED <<seen, realized, open, closed>> /\ row' = Persisted(i)
    BY DEF PersistWrite
  <1>2. row.exists /\ LossLimit # None BY <1>1 DEF IInv, RowIsThere
  <1> QED BY <1>1, <1>2, WriteLatches, VerdictKeepsIt

\* The entry creates its position.
LEMMA EnterKeepsIt ==
    ASSUME Limits, IInv, NEW i \in Entrants, Enter(i)
    PROVE  IInv'
  <1>1. /\ stage[i] = "approved" /\ Goes(i, "entered") /\ Remember
        /\ UNCHANGED <<seen, row, realized, open, closed>>
    BY DEF Enter, world
  <1>2. RowIsThere' BY <1>1 DEF IInv, RowIsThere, Types, Goes
  <1>3. row' \in Row BY <1>1 DEF IInv, Types
  <1> QED BY <1>1, <1>2, <1>3, CheckKeepsIt

\* Closings and operators.
LEMMA OthersKeepIt ==
    ASSUME Limits, IInv, Close \/ Operators
    PROVE  IInv'
  <1>1. CASE Close
    <2>1. Remember /\ UNCHANGED <<stage, seen, row>> /\ open' = open - 1 /\ open > 0 /\ closed' = closed + 1
      BY <1>1 DEF Close
    <2>2. open' \in Nat /\ closed' \in Nat BY <2>1 DEF IInv, Types
    <2>3. realized' \in Int
      <3>1. PICK p \in Outcomes : realized' = realized + p BY <1>1 DEF Close
      <3>2. p \in Int /\ realized \in Int BY <3>1 DEF Limits, IInv, Types
      <3> QED BY <3>1, <3>2
    <2> QED BY <2>1, <2>2, <2>3, WorldKeepsIt
  <1>2. CASE Operators
    <2>1. Remember /\ UNCHANGED <<stage, seen, row, realized, open, closed>>
      BY <1>2 DEF Operators, Engage, Disengage
    <2> QED BY <2>1, WorldKeepsIt DEF IInv, Types
  <1> QED BY <1>1, <1>2

LEMMA InvariantHolds == ASSUME Limits PROVE Spec => []IInv
  <1>1. Init => IInv
    <2> SUFFICES ASSUME Init PROVE IInv OBVIOUS
    <2>1. row \in Row /\ row.breached = FALSE
      <3>1. PICK there \in BOOLEAN : row = [NoRow EXCEPT !.exists = there]
        <4>1. (LossLimit # None /\ open > 0) \in BOOLEAN OBVIOUS
        <4> QED BY <4>1 DEF Init
      <3>2. NoRow \in Row /\ NoRow.breached = FALSE BY DEF NoRow, Row
      <3> QED BY <3>1, <3>2 DEF Row
    <2>2. Types BY <2>1 DEF Init, Types, Checks, NotSeen, Limits
    <2>3. RowIsThere BY <2>1 DEF Init, RowIsThere
    <2>4. PassedIsGone
      BY DEF Init, PassedIsGone, PassedOf, InProgress, Checks, AfterDecision, AfterLoss, After
    <2> QED BY <2>2, <2>3, <2>4 DEF IInv
  <1>2. IInv /\ [Next]_vars => IInv'
    <2> SUFFICES ASSUME IInv, [Next]_vars PROVE IInv' OBVIOUS
    <2>1. CASE UNCHANGED vars
      BY <2>1 DEF vars, IInv, Types, RowIsThere, PassedIsGone, PassedOf, InProgress, AfterDecision,
                  AfterLoss, After, LossVerdict, Crossed, Standing, Positions
    <2>2. ASSUME NEW i \in Entrants, Validates(i) PROVE IInv'
      BY <2>2, BeginKeepsIt, ChecksKeepIt, LossCheckKeepsIt, PersistLoadKeepsIt, PersistWriteKeepsIt,
         EnterKeepsIt DEF Validates
    <2>3. CASE Close \/ Operators BY <2>3, OthersKeepIt
    <2> QED BY <2>1, <2>2, <2>3 DEF Next
  <1> QED BY <1>1, <1>2, PTL DEF Spec

--------------------------------------------------------------------------------
\* No entry is approved over a flag, a loss, a latched breach or a full day that stood
\* during all of its validation (RiskCore.validate_entry).
THEOREM NothingStandingIsMissed == ASSUME Limits PROVE Spec => []StandingReasonRejects
  <1>1. IInv => StandingReasonRejects BY InvariantSuffices
  <1> QED BY <1>1, InvariantHolds, PTL

\* No writer of the day's row undoes a breach that is committed (_persist_daily_risk).
THEOREM BreachStays == ASSUME Limits PROVE Spec => BreachIsSticky
  <1>1. IInv /\ [Next]_vars => [row.breached => row'.breached]_vars
    <2> SUFFICES ASSUME IInv, Next PROVE row.breached => row'.breached OBVIOUS
    <2>1. CASE \E i \in Entrants : PersistWrite(i) BY <2>1, WriteLatches DEF PersistWrite
    <2>2. CASE \E i \in Entrants : PersistLoad(i)
      BY <2>2 DEF PersistLoad, IInv, RowIsThere
    <2>3. CASE UNCHANGED row BY <2>3
    <2> QED BY <2>1, <2>2, <2>3
        DEF Next, Close, Operators, Engage, Disengage, Validates, Begin, NotActive, FlagChecks, FlagCheck,
            LossCheck, CapCheck, BrokerChecks, Enter, Decides, world
  <1> QED BY <1>1, InvariantHolds, PTL DEF Spec, BreachIsSticky

--------------------------------------------------------------------------------
\* The positions of the day that others opened are as many as they were.
Others == /\ open \in 0..MaxOpen /\ closed \in 0..MaxOpen /\ open + closed <= MaxOpen
          /\ engaged \in 0..MaxEngaged /\ flags \in [Flag -> 0..2] /\ loaded \in [Entrants -> Row]

LEMMA OthersAreTyped == ASSUME Limits PROVE Spec => []Others
  <1> USE DEF Others
  <1>1. Init => Others BY DEF Init, Limits, NoRow, Row
  <1>2. IInv /\ Others /\ [Next]_vars => Others'
    <2> SUFFICES ASSUME IInv, Others, [Next]_vars PROVE Others' OBVIOUS
    <2>1. CASE Close BY <2>1 DEF Close, Limits
    <2>2. ASSUME NEW f \in Flag, Engage(f) PROVE Others'
      <3>1. PICK n \in 1..2 : /\ n <= MaxEngaged - engaged /\ flags' = [flags EXCEPT ![f] = n]
                              /\ engaged' = engaged + n
        BY <2>2 DEF Engage
      <3> QED BY <2>2, <3>1 DEF Engage, Limits
    <2>3. ASSUME NEW f \in Flag, Disengage(f) PROVE Others' BY <2>3 DEF Disengage
    <2>4. ASSUME NEW i \in Entrants, Validates(i) PROVE Others'
      <3>1. UNCHANGED <<flags, engaged, open, closed>> /\ (UNCHANGED loaded \/ PersistLoad(i))
        BY <2>4 DEF Validates, Begin, NotActive, FlagChecks, FlagCheck, LossCheck, PersistWrite, PersistLoad,
                    CapCheck, BrokerChecks, Enter, Decides, world
      <3>2. loaded' \in [Entrants -> Row] BY <3>1 DEF PersistLoad, IInv, Types
      <3> QED BY <3>1, <3>2
    <2>5. CASE UNCHANGED vars BY <2>5 DEF vars
    <2> QED BY <2>1, <2>2, <2>3, <2>4, <2>5 DEF Next, Operators
  <1> QED BY <1>1, <1>2, InvariantHolds, PTL DEF Spec

\* What the checks, the flags, the row and the counts of the day may be
\* (RiskCore, risk_control_flags, daily_risk_state).
THEOREM RiskTypes == ASSUME Limits PROVE Spec => []TypeOK
  <1>1. IInv /\ Others => TypeOK BY DEF IInv, Types, Others, TypeOK
  <1> QED BY <1>1, InvariantHolds, OthersAreTyped, PTL

--------------------------------------------------------------------------------
\* Between the check of the cap and the position that it allows.
InTheGap(i) == stage[i] \in {"broker", "approved"}
OneInTheGap == \A i, j \in Entrants : InTheGap(i) /\ InTheGap(j) => i = j

\* Whoever is in the gap still has the slot that the check saw.
CapInv == /\ Positions <= MaxDailyEntries
          /\ (\E i \in Entrants : InTheGap(i)) => Positions < MaxDailyEntries

LEMMA StagesCount ==
    ASSUME Limits, IInv, IInv', NEW i \in Entrants, NEW to, Goes(i, to), UNCHANGED <<open, closed>>,
           stage[i] # "entered"
    PROVE  /\ Positions' = IF to = "entered" THEN Positions + 1 ELSE Positions
           /\ stage'[i] = to /\ \A j \in Entrants \ {i} : stage'[j] = stage[j]
  <1> DEFINE Entered == {j \in Entrants : stage[j] = "entered"}
  <1>1. stage'[i] = to /\ \A j \in Entrants \ {i} : stage'[j] = stage[j] BY DEF IInv, Types, Goes
  <1>2. IsFiniteSet(Entered) /\ i \notin Entered
    <2>1. Entered \subseteq Entrants /\ IsFiniteSet(Entrants) BY DEF Limits
    <2> QED BY <2>1, FS_Subset
  <1>3. Cardinality(Entered) \in Nat /\ Cardinality(Entered \cup {i}) = Cardinality(Entered) + 1
    BY <1>2, FS_AddElement, FS_CardinalityType
  <1>4. Entered' = IF to = "entered" THEN Entered \cup {i} ELSE Entered BY <1>1
  <1>5. Positions = open + closed + Cardinality(Entered)
        /\ Positions' = open' + closed' + Cardinality(Entered')
    BY DEF Positions
  <1>6. open \in Nat /\ closed \in Nat BY DEF IInv, Types
  <1> HIDE DEF Entered
  <1> QED BY <1>1, <1>3, <1>4, <1>5, <1>6

LEMMA CapStep ==
    ASSUME Limits, IInv, IInv', OneInTheGap, CapInv, [Next]_vars
    PROVE  CapInv'
  <1>0. Positions \in Nat /\ MaxDailyEntries \in Nat BY CountsAreNumbers
  <1>1. ASSUME UNCHANGED stage, open' + closed' = open + closed PROVE CapInv'
    BY <1>1 DEF CapInv, Positions, InTheGap
  <1>2. CASE Close \/ Operators \/ UNCHANGED vars
    <2>1. UNCHANGED stage BY <1>2 DEF Close, Operators, Engage, Disengage, vars
    <2>2. open' + closed' = open + closed
      <3>1. open \in Nat /\ closed \in Nat BY DEF IInv, Types
      <3>2. CASE Close BY <3>1, <3>2 DEF Close
      <3>3. CASE ~Close BY <1>2, <3>3 DEF Operators, Engage, Disengage, vars
      <3> QED BY <3>2, <3>3
    <2> QED BY <1>1, <2>1, <2>2
  <1>3. ASSUME NEW i \in Entrants, Validates(i) PROVE CapInv'
    <2>1. PICK to :
            /\ Goes(i, to) /\ UNCHANGED <<open, closed>> /\ stage[i] # "entered"
            /\ to = "entered" => InTheGap(i)
            /\ to \in {"broker", "approved"} => InTheGap(i) \/ Positions < MaxDailyEntries
      <3>1. CASE Begin(i) BY <3>1 DEF Begin, world
      <3>2. CASE NotActive(i) \/ FlagChecks(i)
        BY <3>2 DEF NotActive, FlagChecks, FlagCheck, Decides, world
      <3>3. CASE LossCheck(i) BY <3>3 DEF LossCheck, world
      <3>4. CASE PersistLoad(i)
        <4>1. LossVerdict(i) \in {"rejected", "max_daily_entries"} BY DEF LossVerdict
        <4> QED BY <3>4, <4>1 DEF PersistLoad
      <3>5. CASE PersistWrite(i)
        <4>1. LossVerdict(i) \in {"rejected", "max_daily_entries"} BY DEF LossVerdict
        <4> QED BY <3>5, <4>1 DEF PersistWrite
      <3>6. CASE CapCheck(i)
        <4>1. CASE Positions < MaxDailyEntries BY <3>6, <4>1 DEF CapCheck, Decides, world
        <4>2. CASE ~(Positions < MaxDailyEntries) BY <3>6, <4>2 DEF CapCheck, Decides, world
        <4> QED BY <4>1, <4>2
      <3>7. CASE BrokerChecks(i) BY <3>7 DEF BrokerChecks, Decides, world, InTheGap
      <3>8. CASE Enter(i) BY <3>8 DEF Enter, world, InTheGap
      <3> QED BY <1>3, <3>1, <3>2, <3>3, <3>4, <3>5, <3>6, <3>7, <3>8 DEF Validates
    <2>2. /\ Positions' = IF to = "entered" THEN Positions + 1 ELSE Positions
          /\ stage'[i] = to /\ \A j \in Entrants \ {i} : stage'[j] = stage[j]
      BY <2>1, StagesCount
    <2>3. CASE to = "entered"
      <3>1. \A j \in Entrants : ~InTheGap(j)' BY <2>1, <2>2, <2>3 DEF OneInTheGap, InTheGap
      <3>2. Positions < MaxDailyEntries BY <2>1, <2>3 DEF CapInv
      <3> QED BY <1>0, <2>2, <2>3, <3>1, <3>2 DEF CapInv
    <2>4. CASE to # "entered"
      <3>1. ASSUME NEW j \in Entrants, InTheGap(j)' PROVE Positions < MaxDailyEntries
        BY <2>1, <2>2, <2>4, <3>1 DEF CapInv, InTheGap
      <3> QED BY <1>0, <2>2, <2>4, <3>1 DEF CapInv
    <2> QED BY <2>3, <2>4
  <1> QED BY <1>2, <1>3 DEF Next

\* The cap of the day is exceeded in no other way than by two instances between the check
\* of the cap and their position at the same time (_check_max_daily_entries reads the
\* count, the entry inserts the position in a later transaction): where no two are there
\* at once, the account never has more positions than max_daily_entries_per_account.
THEOREM CapIsKept ==
    ASSUME Limits, MaxOpen <= MaxDailyEntries
    PROVE  Spec /\ []OneInTheGap => []EntryCapHolds
  <1>1. Init => CapInv
    <2> SUFFICES ASSUME Init PROVE CapInv OBVIOUS
    <2>1. {i \in Entrants : stage[i] = "entered"} = {} BY DEF Init
    <2>2. Positions = open BY <2>1, FS_EmptySet DEF Init, Positions
    <2>3. \A i \in Entrants : ~InTheGap(i) BY DEF Init, InTheGap
    <2> QED BY <2>2, <2>3 DEF CapInv, Init, Limits
  <1>2. IInv /\ IInv' /\ OneInTheGap /\ CapInv /\ [Next]_vars => CapInv' BY CapStep
  <1>3. CapInv => EntryCapHolds BY DEF CapInv, EntryCapHolds
  <1> QED BY <1>1, <1>2, <1>3, InvariantHolds, PTL DEF Spec

\* Nobody gets past the cap of a day that others have filled.
Full == open + closed >= MaxDailyEntries
NobodyPastFull ==
    /\ open + closed <= MaxDailyEntries
    /\ Full => \A i \in Entrants : ~InTheGap(i) /\ stage[i] # "entered"

LEMMA PastFullStep ==
    ASSUME Limits, IInv, NobodyPastFull, [Next]_vars
    PROVE  NobodyPastFull'
  <1>0. /\ open \in Nat /\ closed \in Nat /\ MaxDailyEntries \in Nat
        /\ stage \in [Entrants -> Checks \cup {"idle", "approved", "rejected", "entered"}]
    BY DEF IInv, Types, Limits
  <1>1. CASE Close \/ Operators \/ UNCHANGED vars
    <2>1. UNCHANGED stage BY <1>1 DEF Close, Operators, Engage, Disengage, vars
    <2>2. open' + closed' = open + closed
      <3>1. CASE Close BY <1>0, <3>1 DEF Close
      <3>2. CASE ~Close BY <1>1, <3>2 DEF Operators, Engage, Disengage, vars
      <3> QED BY <3>1, <3>2
    <2> QED BY <2>1, <2>2 DEF NobodyPastFull, Full, InTheGap
  <1>2. ASSUME NEW i \in Entrants, Validates(i) PROVE NobodyPastFull'
    <2>1. PICK to :
            /\ Goes(i, to) /\ UNCHANGED <<open, closed>>
            /\ to \in {"broker", "approved", "entered"} => InTheGap(i) \/ Positions < MaxDailyEntries
      <3>1. CASE Begin(i) \/ NotActive(i) \/ FlagChecks(i) \/ LossCheck(i)
        BY <3>1 DEF Begin, NotActive, FlagChecks, FlagCheck, LossCheck, Decides, world
      <3>2. CASE PersistLoad(i) \/ PersistWrite(i)
        <4>1. LossVerdict(i) \in {"rejected", "max_daily_entries"} BY DEF LossVerdict
        <4> QED BY <3>2, <4>1 DEF PersistLoad, PersistWrite
      <3>3. CASE CapCheck(i) /\ Positions < MaxDailyEntries BY <3>3 DEF CapCheck, Decides, world
      <3>4. CASE CapCheck(i) /\ ~(Positions < MaxDailyEntries) BY <3>4 DEF CapCheck, Decides, world
      <3>5. CASE BrokerChecks(i) BY <3>5 DEF BrokerChecks, Decides, world, InTheGap
      <3>6. CASE Enter(i) BY <3>6 DEF Enter, world, InTheGap
      <3> QED BY <1>2, <3>1, <3>2, <3>3, <3>4, <3>5, <3>6 DEF Validates
    <2>2. stage'[i] = to /\ \A j \in Entrants \ {i} : stage'[j] = stage[j] BY <1>0, <2>1 DEF Goes
    <2>3. Positions < MaxDailyEntries => ~Full
      <3>1. {j \in Entrants : stage[j] = "entered"} \subseteq Entrants /\ IsFiniteSet(Entrants) BY DEF Limits
      <3>2. Cardinality({j \in Entrants : stage[j] = "entered"}) \in Nat
        BY <3>1, FS_Subset, FS_CardinalityType
      <3> QED BY <1>0, <3>2 DEF Positions, Full
    <2> QED BY <2>1, <2>2, <2>3 DEF NobodyPastFull, Full, InTheGap
  <1> QED BY <1>1, <1>2 DEF Next

\* However many instances are between the check and their position at once, the account
\* exceeds the cap by fewer positions than it has instances that enter, and positions of
\* others never add to that (_check_max_daily_entries).
THEOREM OvershootIsBounded ==
    ASSUME Limits, MaxOpen <= MaxDailyEntries, Entrants # {}
    PROVE  Spec => [](Positions <= MaxDailyEntries + Cardinality(Entrants) - 1)
  <1>1. Init => NobodyPastFull BY DEF Init, Limits, NobodyPastFull, Full, InTheGap
  <1>2. IInv /\ NobodyPastFull /\ [Next]_vars => NobodyPastFull' BY PastFullStep
  <1>3. IInv /\ NobodyPastFull => Positions <= MaxDailyEntries + Cardinality(Entrants) - 1
    <2> SUFFICES ASSUME IInv, NobodyPastFull
                 PROVE  Positions <= MaxDailyEntries + Cardinality(Entrants) - 1
      OBVIOUS
    <2> DEFINE Entered == {i \in Entrants : stage[i] = "entered"}
    <2>1. Entered \subseteq Entrants /\ IsFiniteSet(Entrants) BY DEF Limits
    <2>2. /\ Cardinality(Entered) \in Nat /\ Cardinality(Entrants) \in Nat
          /\ Cardinality(Entered) <= Cardinality(Entrants)
          /\ Cardinality(Entrants) >= 1
      <3>1. IsFiniteSet(Entered) BY <2>1, FS_Subset
      <3>2. Cardinality(Entrants) # 0 BY <2>1, FS_EmptySet
      <3> HIDE DEF Entered
      <3> QED BY <2>1, <3>1, <3>2, FS_Subset, FS_CardinalityType
    <2>3. Entered # {} => open + closed < MaxDailyEntries
      BY DEF NobodyPastFull, Full, IInv, Types, Limits
    <2>4. Entered = {} => Cardinality(Entered) = 0 BY FS_EmptySet
    <2>5. open \in Nat /\ closed \in Nat /\ MaxDailyEntries \in Nat /\ open + closed <= MaxDailyEntries
      BY DEF IInv, Types, Limits, NobodyPastFull
    <2>6. Positions = open + closed + Cardinality(Entered) BY DEF Positions
    <2> HIDE DEF Entered
    <2> QED BY <2>2, <2>3, <2>4, <2>5, <2>6
  <1> QED BY <1>1, <1>2, <1>3, InvariantHolds, PTL DEF Spec

================================================================================
