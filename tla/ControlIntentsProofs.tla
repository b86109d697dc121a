------------------------ MODULE ControlIntentsProofs ------------------------
(***************************************************************************)
(* The wallet controls: the theorems, for any number of processes, keys    *)
(* and controls, any time bounds and any replicas.                         *)
(*                                                                         *)
(* The argument goes by the variables: what any step may do to one row, in *)
(* terms of what its process knows; then, that what a process knows is     *)
(* true, and stays true until it writes it down.  At the end, every step   *)
(* is shown to be one of the abstract ControlLane, or none of its concern. *)
(***************************************************************************)
EXTENDS ControlIntents, FiniteSetTheorems, TLAPS

Answers == {"ACCEPTED", "REJECTED", "UNRESOLVED"}

\* The transaction has not landed and never will.
Over(i) == Prepared(i) /\ ~Landed(i) /\ ledger > intent[i].maxTime

\* What a process may be up to, and what it then knows.
Places == [pc : ProcStates, id : {0} \cup Intents, key : Keys \cup {NoKey},
           state : {"none"} \cup Answers \cup FinalStates, at : Nat]

Knows(r) == r.state \in Fates /\ chain[r.id] = [fate |-> r.state, at |-> r.at]

Sound(r) ==
  /\ r \in Places
  /\ r.pc \in {"simulating", "creating"} => r.at < ledger
  /\ r.pc \notin {"idle", "simulating", "creating"} => r.id \in Intents /\ Prepared(r.id)
  /\ r.pc = "answered" => r.state \in Answers
  /\ r.pc = "projecting" => Knows(r)
  /\ r.pc \in {"expiring", "rejecting"} => r.state = "EXPIRED" /\ Over(r.id)
  /\ r.pc = "signing" => Knows(r) \/ (r.state = "EXPIRED" /\ Over(r.id))

\* The types of the rows.
RowsTyped ==
  /\ ledger \in 1 .. LastLedger
  /\ chain \in [Intents -> [fate : Fates \cup {"none"}, at : 0 .. LastLedger]]
  /\ serviceState \in {"ACTIVE", "RETIRING"}
  /\ intent \in [Intents -> [state : {"none"} \cup OpenStates \cup FinalStates,
                             at : Nat, prepared : Nat, maxTime : Nat,
                             key : Keys \cup {NoKey}]]
  /\ signed \in [Intents -> [outcome : {"none", "RECEIVED", "ACCEPTED", "UNRESOLVED",
                                        "REJECTED", "CONFIRMED", "FAILED"},
                             expired : BOOLEAN, at : Nat, accepted : BOOLEAN]]
  /\ service \in [Intents -> [state : {"none", "PENDING", "REJECTED"} \cup Fates, at : Nat]]
  /\ refused \subseteq Keys
  /\ proc \in [Procs -> Places]

\* How the parts of one control hang together before any outcome.
Shape(i) ==
  /\ Prepared(i) => intent[i].prepared < ledger
  /\ Landed(i) => /\ Prepared(i)
                  /\ intent[i].prepared < chain[i].at
                  /\ chain[i].at <= intent[i].maxTime
  /\ IsOpen(i) => intent[i].at = 0
  /\ intent[i].state \in {"none", "PREPARED"} => signed[i].outcome = "none"
  /\ signed[i].outcome = "none" => ~signed[i].expired

\* What the rows say of the outcome.
Truth(i) ==
  /\ intent[i].state \in Fates => chain[i] = [fate |-> intent[i].state, at |-> intent[i].at]
  /\ SignedFinal(i) => chain[i] = [fate |-> Stored(i).state, at |-> signed[i].at]
  /\ service[i].state \in Fates => chain[i] = [fate |-> service[i].state, at |-> service[i].at]
  /\ intent[i].state = "EXPIRED" \/ signed[i].expired => Over(i)

CIInv ==
  /\ RowsTyped
  /\ \A p \in Procs : Sound(proc[p])
  /\ \A i \in Intents : Shape(i) /\ Truth(i)

-----------------------------------------------------------------------------
(* What a step may do to one row                                           *)

ChainMove(i) == \/ chain'[i] = chain[i]
                \/ /\ CanLand(i) /\ ledger' = ledger /\ intent'[i] = intent[i]
                   /\ \E fate \in Fates : chain'[i] = [fate |-> fate, at |-> ledger]

Created(i, p) ==
  /\ proc[p].pc = "creating" /\ MayCreate(p)
  /\ ~Prepared(i) /\ \A j \in Intents : j < i => Prepared(j)
  /\ ledger' = ledger /\ chain' = chain
  /\ intent' = [intent EXCEPT ![i] =
                  [state |-> "PREPARED", at |-> 0, prepared |-> proc[p].at,
                   maxTime |-> proc[p].at + Validity, key |-> proc[p].key]]

IntentMove(i) ==
  \/ intent'[i] = intent[i]
  \/ \E p \in Procs : Created(i, p)
  \/ /\ intent[i].state = "PREPARED"
     /\ intent'[i] = [intent[i] EXCEPT !.state = "SUBMITTING"]
  \/ \E p \in Procs : /\ proc[p].pc = "projecting" /\ proc[p].id = i
                      /\ NoConflict(i, proc[p].state, proc[p].at)
                      /\ intent'[i] = [intent[i] EXCEPT !.state = proc[p].state,
                                                        !.at = proc[p].at]
  \/ \E p \in Procs : /\ proc[p].pc = "expiring" /\ proc[p].id = i /\ IsOpen(i)
                      /\ intent'[i] = [intent[i] EXCEPT !.state = "EXPIRED"]

SignedMove(i) ==
  \/ signed'[i] = signed[i]
  \/ /\ intent[i].state = "PREPARED" /\ intent'[i].state = "SUBMITTING"
     /\ signed'[i] = [signed[i] EXCEPT !.outcome = "RECEIVED"]
  \/ \E to \in Answers, sent \in BOOLEAN : signed'[i] = Answered(signed[i], to, sent)
  \/ Landed(i) /\ signed'[i] = Concluded(signed[i], chain[i].fate, chain[i].at)
  \/ Over(i) /\ signed'[i] = ProvedExpired(signed[i])

ServiceMove(i) ==
  \/ service'[i] = service[i]
  \/ \E state \in {"PENDING", "REJECTED"} : service'[i] = [service[i] EXCEPT !.state = state]
  \/ Landed(i) /\ service'[i] = [state |-> chain[i].fate, at |-> chain[i].at]

LEMMA NumbersAreNatural == Intents \subseteq Nat /\ Validity \in Nat /\ MaxIntents \in Nat
BY ControlAssumption DEF Intents

LEMMA NetworkMoves ==
  ASSUME [CINext]_ciVars
  PROVE  \/ \E j \in Intents : Land(j)
         \/ CloseLedger
         \/ UNCHANGED <<ledger, chain>>
<1>1. ASSUME NEW p \in Procs, ProcNext(p) PROVE UNCHANGED <<ledger, chain>>
  BY <1>1, ZenonT(120) DEF ProcNext, BeginPreparation, CheckTimeBounds, TickSelects,
     SimulationFails, CreateIntent, Claim, LookUp,
     LookUpExpiry, CronSelects, RecordService, Send, RecordAnswer, Project, Expire,
     RejectService, SignOutcome
<1>2. ASSUME NEW j \in Intents, ObserveSigned(j) \/ ObserveService(j)
      PROVE  UNCHANGED <<ledger, chain>>
  BY <1>2 DEF ObserveSigned, ObserveService
<1>3. CASE Retire \/ UNCHANGED ciVars
  BY <1>3 DEF Retire, ciVars
<1> QED BY <1>1, <1>2, <1>3 DEF CINext

LEMMA ChainMoves ==
  ASSUME CIInv, [CINext]_ciVars, NEW i \in Intents
  PROVE  ChainMove(i)
<1>1. ASSUME NEW j \in Intents, Land(j) PROVE ChainMove(i)
  BY <1>1 DEF Land, ChainMove, rows, CIInv, RowsTyped
<1>2. CASE UNCHANGED chain
  BY <1>2 DEF ChainMove
<1> QED BY <1>1, <1>2, NetworkMoves DEF CloseLedger

LEMMA LedgerGrows ==
  ASSUME CIInv, [CINext]_ciVars
  PROVE  /\ ledger \in Nat /\ ledger' \in Nat /\ ledger' >= ledger
         /\ ledger' \in 1 .. LastLedger
BY NetworkMoves, ControlAssumption DEF CIInv, RowsTyped, Land, CloseLedger

LEMMA IntentMoves ==
  ASSUME CIInv, [CINext]_ciVars, NEW i \in Intents
  PROVE  IntentMove(i)
<1> USE DEF CIInv, RowsTyped
<1>1. ASSUME NEW p \in Procs, CreateIntent(p) PROVE IntentMove(i)
  <2>1. PICK j \in Intents :
          /\ ~Prepared(j) /\ \A k \in Intents : k < j => Prepared(k)
          /\ intent' = IF MayCreate(p)
                       THEN [intent EXCEPT ![j] =
                              [state |-> "PREPARED", at |-> 0, prepared |-> proc[p].at,
                               maxTime |-> proc[p].at + Validity, key |-> proc[p].key]]
                       ELSE intent
    BY <1>1 DEF CreateIntent
  <2>2. CASE j = i /\ MayCreate(p)
    BY <1>1, <2>1, <2>2 DEF CreateIntent, Created, IntentMove
  <2>3. CASE ~(j = i /\ MayCreate(p))
    <3>1. intent'[i] = intent[i]
      BY <2>1, <2>3
    <3> QED BY <3>1 DEF IntentMove
  <2> QED BY <2>2, <2>3
<1>2. ASSUME NEW p \in Procs, NEW j \in Intents, Claim(p, j) PROVE IntentMove(i)
  BY <1>2 DEF Claim, IntentMove
<1>3. ASSUME NEW p \in Procs, Project(p) PROVE IntentMove(i)
  <2>1. CASE proc[p].id = i /\ NoConflict(i, proc[p].state, proc[p].at)
    <3>1. intent'[i] = [intent[i] EXCEPT !.state = proc[p].state, !.at = proc[p].at]
      BY <1>3, <2>1 DEF Project
    <3> QED BY <1>3, <2>1, <3>1 DEF Project, IntentMove
  <2>2. CASE ~(proc[p].id = i /\ NoConflict(i, proc[p].state, proc[p].at))
    <3>1. intent'[i] = intent[i]
      BY <1>3, <2>2 DEF Project
    <3> QED BY <3>1 DEF IntentMove
  <2> QED BY <2>1, <2>2
<1>4. ASSUME NEW p \in Procs, Expire(p) PROVE IntentMove(i)
  BY <1>4, ZenonT(120) DEF Expire, IntentMove
<1>5. CASE UNCHANGED intent
  BY <1>5 DEF IntentMove
<1>6. \/ UNCHANGED intent
      \/ \E p \in Procs : \/ CreateIntent(p) \/ Project(p) \/ Expire(p)
                          \/ \E j \in Intents : Claim(p, j)
  BY ZenonT(120) DEF CINext, ProcNext, BeginPreparation, CheckTimeBounds, TickSelects,
     SimulationFails, LookUp, LookUpExpiry, CronSelects,
     RecordService, Send, RecordAnswer, RejectService, SignOutcome, ObserveSigned, ObserveService,
     Land, CloseLedger, Retire, rows, ciVars
<1> QED BY <1>1, <1>2, <1>3, <1>4, <1>5, <1>6

LEMMA SignedMoves ==
  ASSUME CIInv, [CINext]_ciVars, NEW i \in Intents
  PROVE  SignedMove(i)
<1> USE DEF CIInv, RowsTyped
<1>1. ASSUME NEW p \in Procs, NEW j \in Intents, Claim(p, j) PROVE SignedMove(i)
  BY <1>1 DEF Claim, SignedMove
<1>2. ASSUME NEW p \in Procs, RecordAnswer(p) PROVE SignedMove(i)
  <2>1. proc[p].state \in Answers
    BY <1>2 DEF RecordAnswer, Sound
  <2>2. signed'[i] = signed[i] \/ signed'[i] = Answered(signed[i], proc[p].state, TRUE)
    BY <1>2 DEF RecordAnswer
  <2> QED BY <2>1, <2>2 DEF SignedMove
<1>3. ASSUME NEW p \in Procs, SignOutcome(p) PROVE SignedMove(i)
  <2>1. CASE signed'[i] = signed[i]
    BY <2>1 DEF SignedMove
  <2>2. CASE signed'[i] # signed[i]
    <3>1. /\ proc[p].id = i /\ proc[p].pc = "signing"
          /\ signed'[i] = IF proc[p].state = "EXPIRED" THEN ProvedExpired(signed[i])
                          ELSE Concluded(signed[i], proc[p].state, proc[p].at)
      BY <1>3, <2>2 DEF SignOutcome
    <3>2. CASE proc[p].state = "EXPIRED"
      BY <3>1, <3>2 DEF Sound, Knows, Fates, SignedMove
    <3>3. CASE proc[p].state # "EXPIRED"
      <4>1. proc[p].state \in Fates /\ chain[i] = [fate |-> proc[p].state, at |-> proc[p].at]
        BY <3>1, <3>3 DEF Sound, Knows
      <4>2. Landed(i) /\ chain[i].fate = proc[p].state /\ chain[i].at = proc[p].at
        BY <4>1 DEF Landed, Fates
      <4> QED BY <3>1, <3>3, <4>2 DEF SignedMove
    <3> QED BY <3>2, <3>3
  <2> QED BY <2>1, <2>2
<1>4. ASSUME NEW j \in Intents, ObserveSigned(j) PROVE SignedMove(i)
  <2>1. CASE signed'[i] = signed[i]
    BY <2>1 DEF SignedMove
  <2>2. CASE signed'[i] # signed[i]
    <3>1. \/ Landed(i) /\ signed'[i] = Concluded(signed[i], chain[i].fate, chain[i].at)
          \/ signed'[i] = Answered(signed[i], "UNRESOLVED", FALSE)
      BY <1>4, <2>2 DEF ObserveSigned, Seen, Found
    <3> QED BY <3>1 DEF SignedMove, Answers
  <2> QED BY <2>1, <2>2
<1>5. CASE UNCHANGED signed
  BY <1>5 DEF SignedMove
<1>6. \/ UNCHANGED signed
      \/ \E p \in Procs : \/ RecordAnswer(p) \/ SignOutcome(p)
                          \/ \E j \in Intents : Claim(p, j)
      \/ \E j \in Intents : ObserveSigned(j)
  BY ZenonT(120) DEF CINext, ProcNext, BeginPreparation, CheckTimeBounds, TickSelects,
     SimulationFails, CreateIntent, LookUp, LookUpExpiry,
     CronSelects, RecordService, Send, Project, Expire, RejectService, ObserveService,
     Land, CloseLedger, Retire, rows, ciVars
<1> QED BY <1>1, <1>2, <1>3, <1>4, <1>5, <1>6

LEMMA ServiceMoves ==
  ASSUME CIInv, [CINext]_ciVars, NEW i \in Intents
  PROVE  ServiceMove(i)
<1> USE DEF CIInv, RowsTyped
<1>1. ASSUME NEW p \in Procs, RecordService(p) \/ Send(p) \/ RejectService(p) PROVE ServiceMove(i)
  <2>1. \/ service'[i] = service[i]
        \/ service'[i] = [service[i] EXCEPT !.state = "PENDING"]
        \/ service'[i] = [service[i] EXCEPT !.state = "REJECTED"]
    BY <1>1, ZenonT(120) DEF RecordService, Send, RejectService
  <2> QED BY <2>1 DEF ServiceMove
<1>2. ASSUME NEW p \in Procs, Project(p) PROVE ServiceMove(i)
  <2>1. CASE service'[i] = service[i]
    BY <2>1 DEF ServiceMove
  <2>2. CASE service'[i] # service[i]
    <3>1. /\ proc[p].id = i /\ proc[p].pc = "projecting"
          /\ service'[i] = [state |-> proc[p].state, at |-> proc[p].at]
      BY <1>2, <2>2 DEF Project
    <3>2. proc[p].state \in Fates /\ chain[i] = [fate |-> proc[p].state, at |-> proc[p].at]
      BY <3>1 DEF Sound, Knows
    <3>3. Landed(i) /\ chain[i].fate = proc[p].state /\ chain[i].at = proc[p].at
      BY <3>2 DEF Landed, Fates
    <3> QED BY <3>1, <3>3 DEF ServiceMove
  <2> QED BY <2>1, <2>2
<1>3. ASSUME NEW j \in Intents, ObserveService(j) PROVE ServiceMove(i)
  BY <1>3 DEF ObserveService, Seen, Found, ServiceMove
<1>4. CASE UNCHANGED service
  BY <1>4 DEF ServiceMove
<1>5. \/ UNCHANGED service
      \/ \E p \in Procs : RecordService(p) \/ Send(p) \/ RejectService(p) \/ Project(p)
      \/ \E j \in Intents : ObserveService(j)
  BY ZenonT(120) DEF CINext, ProcNext, BeginPreparation, CheckTimeBounds, TickSelects,
     SimulationFails, CreateIntent, Claim, LookUp,
     LookUpExpiry, CronSelects, RecordAnswer, Expire, SignOutcome, ObserveSigned, Land,
     CloseLedger, Retire, rows, ciVars
<1> QED BY <1>1, <1>2, <1>3, <1>4, <1>5

-----------------------------------------------------------------------------
(* What was true stays true                                                *)

LEMMA PreparedStays ==
  ASSUME CIInv, [CINext]_ciVars, NEW i \in Intents, Prepared(i)
  PROVE  /\ Prepared(i)'
         /\ intent'[i].key = intent[i].key
         /\ intent'[i].prepared = intent[i].prepared
         /\ intent'[i].maxTime = intent[i].maxTime
<1>1. IntentMove(i)
  BY IntentMoves
<1>2. ASSUME NEW p \in Procs, proc[p].pc = "projecting"
      PROVE  proc[p].state \in Fates
  BY <1>2 DEF CIInv, Sound, Knows
<1>3. CASE \E p \in Procs : Created(i, p)
  BY <1>3 DEF Created
<1>4. ASSUME NEW state \in Fates, NEW at, intent'[i] = [intent[i] EXCEPT !.state = state, !.at = at]
      PROVE  /\ Prepared(i)'
             /\ intent'[i].key = intent[i].key
             /\ intent'[i].prepared = intent[i].prepared
             /\ intent'[i].maxTime = intent[i].maxTime
  BY <1>4 DEF Prepared, CIInv, RowsTyped, Fates
<1>5. ASSUME NEW state \in {"SUBMITTING", "EXPIRED"},
             intent'[i] = [intent[i] EXCEPT !.state = state]
      PROVE  /\ Prepared(i)'
             /\ intent'[i].key = intent[i].key
             /\ intent'[i].prepared = intent[i].prepared
             /\ intent'[i].maxTime = intent[i].maxTime
  BY <1>5 DEF Prepared, CIInv, RowsTyped
<1>6. CASE intent'[i] = intent[i]
  BY <1>6 DEF Prepared
<1> QED BY <1>1, <1>2, <1>3, <1>4, <1>5, <1>6, ZenonT(120) DEF IntentMove

LEMMA LandedStays ==
  ASSUME CIInv, [CINext]_ciVars, NEW i \in Intents, Landed(i)
  PROVE  chain'[i] = chain[i]
BY ChainMoves DEF ChainMove, CanLand

LEMMA OverStays ==
  ASSUME CIInv, [CINext]_ciVars, NEW i \in Intents, Over(i)
  PROVE  Over(i)'
<1>1. ~CanLand(i) /\ Prepared(i)
  BY LedgerGrows DEF Over, CanLand, CIInv, RowsTyped
<1>2. chain'[i] = chain[i]
  BY <1>1, ChainMoves DEF ChainMove
<1>3. Prepared(i)' /\ intent'[i].maxTime = intent[i].maxTime
  BY <1>1, PreparedStays
<1>4. ledger \in Nat /\ ledger' \in Nat /\ ledger' >= ledger /\ intent[i].maxTime \in Nat
  BY LedgerGrows DEF CIInv, RowsTyped
<1> QED BY <1>1, <1>2, <1>3, <1>4 DEF Over, Landed

LEMMA SoundStays ==
  ASSUME CIInv, [CINext]_ciVars, NEW r, Sound(r)
  PROVE  Sound(r)'
<1>0. r \in Places
  BY DEF Sound
<1>1. ledger \in Nat /\ ledger' \in Nat /\ ledger' >= ledger
  BY LedgerGrows
<1>2. r.pc \in {"simulating", "creating"} => r.at < ledger'
  BY <1>0, <1>1 DEF Sound, Places
<1>3. ASSUME r.pc \notin {"idle", "simulating", "creating"} PROVE r.id \in Intents /\ Prepared(r.id)'
  BY <1>3, PreparedStays DEF Sound
<1>4. ASSUME r.id \in Intents, Knows(r) PROVE Knows(r)'
  <2>1. chain[r.id].fate = r.state
    BY <1>4 DEF Knows
  <2>2. Landed(r.id)
    BY <1>4, <2>1 DEF Knows, Landed, Fates
  <2> QED BY <1>4, <2>2, LandedStays DEF Knows
<1>5. ASSUME r.id \in Intents, Over(r.id) PROVE Over(r.id)'
  BY <1>5, OverStays
<1> QED BY <1>0, <1>2, <1>3, <1>4, <1>5 DEF Sound

-----------------------------------------------------------------------------
(* The invariant                                                           *)

\* The rows keep their types.
LEMMA SignedTyped ==
  ASSUME CIInv, [CINext]_ciVars, NEW i \in Intents
  PROVE  signed'[i] \in [outcome : {"none", "RECEIVED", "ACCEPTED", "UNRESOLVED",
                                    "REJECTED", "CONFIRMED", "FAILED"},
                         expired : BOOLEAN, at : Nat, accepted : BOOLEAN]
<1>1. SignedMove(i)
  BY SignedMoves
<1>2. chain[i].at \in Nat
  BY ControlAssumption DEF CIInv, RowsTyped
<1> QED BY <1>1, <1>2 DEF CIInv, RowsTyped, SignedMove, Answered, Concluded, ProvedExpired,
        Outcome, Answers

LEMMA IntentTyped ==
  ASSUME CIInv, [CINext]_ciVars, NEW i \in Intents
  PROVE  intent'[i] \in [state : {"none"} \cup OpenStates \cup FinalStates, at : Nat,
                         prepared : Nat, maxTime : Nat, key : Keys \cup {NoKey}]
<1>1. IntentMove(i)
  BY IntentMoves
<1>2. ASSUME NEW p \in Procs
      PROVE  /\ proc[p].at \in Nat /\ proc[p].key \in Keys \cup {NoKey}
             /\ proc[p].pc = "projecting" => proc[p].state \in Fates
  BY DEF CIInv, Sound, Knows, Places
<1>3. CASE \E p \in Procs : Created(i, p)
  BY <1>2, <1>3, NumbersAreNatural DEF Created, CIInv, RowsTyped, OpenStates
<1>4. CASE \/ intent'[i] = intent[i]
           \/ intent'[i] = [intent[i] EXCEPT !.state = "SUBMITTING"]
           \/ intent'[i] = [intent[i] EXCEPT !.state = "EXPIRED"]
  BY <1>4 DEF CIInv, RowsTyped, OpenStates, FinalStates
<1>5. ASSUME NEW p \in Procs, proc[p].pc = "projecting",
             intent'[i] = [intent[i] EXCEPT !.state = proc[p].state, !.at = proc[p].at]
      PROVE  intent'[i] \in [state : {"none"} \cup OpenStates \cup FinalStates, at : Nat,
                             prepared : Nat, maxTime : Nat, key : Keys \cup {NoKey}]
  <2>1. proc[p].state \in Fates /\ proc[p].at \in Nat
    BY <1>2, <1>5
  <2>2. intent[i] \in [state : {"none"} \cup OpenStates \cup FinalStates, at : Nat,
                       prepared : Nat, maxTime : Nat, key : Keys \cup {NoKey}]
    BY DEF CIInv, RowsTyped
  <2>3. intent'[i] = [state |-> proc[p].state, at |-> proc[p].at,
                      prepared |-> intent[i].prepared, maxTime |-> intent[i].maxTime,
                      key |-> intent[i].key]
    BY <1>5, <2>2
  <2> QED BY <2>1, <2>2, <2>3 DEF Fates, FinalStates
<1> QED BY <1>1, <1>3, <1>4, <1>5 DEF IntentMove

LEMMA ServiceTyped ==
  ASSUME CIInv, [CINext]_ciVars, NEW i \in Intents
  PROVE  service'[i] \in [state : {"none", "PENDING", "REJECTED"} \cup Fates, at : Nat]
<1>1. ServiceMove(i)
  BY ServiceMoves
<1>2. chain[i].at \in Nat
  BY ControlAssumption DEF CIInv, RowsTyped
<1> QED BY <1>1, <1>2 DEF CIInv, RowsTyped, ServiceMove, Landed

\* The functions keep their domains.
LEMMA RowDomains ==
  ASSUME CIInv, [CINext]_ciVars
  PROVE  /\ chain' = [i \in Intents |-> chain'[i]]
         /\ intent' = [i \in Intents |-> intent'[i]]
         /\ signed' = [i \in Intents |-> signed'[i]]
         /\ service' = [i \in Intents |-> service'[i]]
<1> USE DEF CIInv, RowsTyped
<1>1. chain' = [i \in Intents |-> chain'[i]]
  BY NetworkMoves DEF Land, CloseLedger
<1>2. intent' = [i \in Intents |-> intent'[i]]
  <2>1. ASSUME NEW p \in Procs, CreateIntent(p) PROVE intent' = [i \in Intents |-> intent'[i]]
    BY <2>1 DEF CreateIntent
  <2>2. ASSUME NEW p \in Procs, NEW j \in Intents, Claim(p, j)
        PROVE  intent' = [i \in Intents |-> intent'[i]]
    BY <2>2 DEF Claim
  <2>3. ASSUME NEW p \in Procs, Project(p) PROVE intent' = [i \in Intents |-> intent'[i]]
    BY <2>3 DEF Project
  <2>4. ASSUME NEW p \in Procs, Expire(p) PROVE intent' = [i \in Intents |-> intent'[i]]
    BY <2>4 DEF Expire
  <2>5. \/ UNCHANGED intent
        \/ \E p \in Procs : \/ CreateIntent(p) \/ Project(p) \/ Expire(p)
                            \/ \E j \in Intents : Claim(p, j)
    BY ZenonT(120) DEF CINext, ProcNext, BeginPreparation, CheckTimeBounds, TickSelects,
       SimulationFails, LookUp, LookUpExpiry, CronSelects,
       RecordService, Send, RecordAnswer, RejectService, SignOutcome, ObserveSigned,
       ObserveService, Land, CloseLedger, Retire, rows, ciVars
  <2> QED BY <2>1, <2>2, <2>3, <2>4, <2>5
<1>3. signed' = [i \in Intents |-> signed'[i]]
  <2>1. ASSUME NEW p \in Procs, NEW j \in Intents, Claim(p, j)
        PROVE  signed' = [i \in Intents |-> signed'[i]]
    BY <2>1 DEF Claim
  <2>2. ASSUME NEW p \in Procs, RecordAnswer(p) PROVE signed' = [i \in Intents |-> signed'[i]]
    BY <2>2 DEF RecordAnswer
  <2>3. ASSUME NEW p \in Procs, SignOutcome(p) PROVE signed' = [i \in Intents |-> signed'[i]]
    BY <2>3 DEF SignOutcome
  <2>4. ASSUME NEW j \in Intents, ObserveSigned(j)
        PROVE  signed' = [i \in Intents |-> signed'[i]]
    BY <2>4 DEF ObserveSigned
  <2>5. \/ UNCHANGED signed
        \/ \E p \in Procs : \/ RecordAnswer(p) \/ SignOutcome(p)
                            \/ \E j \in Intents : Claim(p, j)
        \/ \E j \in Intents : ObserveSigned(j)
    BY ZenonT(120) DEF CINext, ProcNext, BeginPreparation, CheckTimeBounds, TickSelects,
       SimulationFails, CreateIntent, LookUp, LookUpExpiry,
       CronSelects, RecordService, Send, Project, Expire, RejectService, ObserveService,
       Land, CloseLedger, Retire, rows, ciVars
  <2> QED BY <2>1, <2>2, <2>3, <2>4, <2>5
<1>4. service' = [i \in Intents |-> service'[i]]
  <2>1. ASSUME NEW p \in Procs, ProcNext(p)
        PROVE  \/ UNCHANGED service
               \/ \E j, row : service' = [service EXCEPT ![j] = row]
    BY <2>1, ZenonT(120) DEF ProcNext, BeginPreparation, CheckTimeBounds, TickSelects,
       SimulationFails, CreateIntent, Claim, LookUp,
       LookUpExpiry, CronSelects, RecordService, Send, RecordAnswer, Project, Expire,
       RejectService, SignOutcome, rows
  <2>2. \/ UNCHANGED service \/ \E p \in Procs : ProcNext(p)
        \/ \E j \in Intents : ObserveService(j)
    BY DEF CINext, Land, ObserveSigned, CloseLedger, Retire, rows, ciVars
  <2> QED BY <2>1, <2>2 DEF ObserveService
<1> QED BY <1>1, <1>2, <1>3, <1>4

LEMMA RowsStayTyped ==
  ASSUME CIInv, [CINext]_ciVars,
         proc' \in [Procs -> Places]
  PROVE  RowsTyped'
<1>1. serviceState' \in {"ACTIVE", "RETIRING"}
  <2>1. ASSUME NEW p \in Procs, ProcNext(p) PROVE UNCHANGED serviceState
    BY <2>1, ZenonT(120) DEF ProcNext, BeginPreparation, CheckTimeBounds, TickSelects,
       SimulationFails, CreateIntent, Claim, LookUp,
       LookUpExpiry, CronSelects, RecordService, Send, RecordAnswer, Project, Expire,
       RejectService, SignOutcome
  <2>2. \/ UNCHANGED serviceState \/ Retire \/ \E p \in Procs : ProcNext(p)
    BY DEF CINext, ObserveSigned, ObserveService, Land, CloseLedger, ciVars
  <2> QED BY <2>1, <2>2 DEF Retire, CIInv, RowsTyped
<1>2. refused' \subseteq Keys
  <2>1. ASSUME NEW p \in Procs, SimulationFails(p) PROVE refused' \subseteq Keys
    <3>1. proc[p].key \in Keys \cup {NoKey}
      BY DEF CIInv, RowsTyped, Places
    <3> QED BY <2>1, <3>1 DEF SimulationFails, MayRefuse, CIInv, RowsTyped
  <2>2. UNCHANGED refused \/ \E p \in Procs : SimulationFails(p)
    BY ZenonT(120) DEF CINext, ProcNext, BeginPreparation, CheckTimeBounds, TickSelects,
       CreateIntent, Claim, LookUp, LookUpExpiry,
       CronSelects, RecordService, Send, RecordAnswer, Project, Expire, RejectService,
       SignOutcome, ObserveSigned, ObserveService, Land, CloseLedger, Retire, rows, ciVars
  <2> QED BY <2>1, <2>2 DEF CIInv, RowsTyped
<1>3. \A i \in Intents : chain'[i] \in [fate : Fates \cup {"none"}, at : 0 .. LastLedger]
  <2> SUFFICES ASSUME NEW i \in Intents
               PROVE  chain'[i] \in [fate : Fates \cup {"none"}, at : 0 .. LastLedger]
    OBVIOUS
  <2>1. ChainMove(i)
    BY ChainMoves
  <2>2. ASSUME NEW fate \in Fates, chain'[i] = [fate |-> fate, at |-> ledger]
        PROVE  chain'[i] \in [fate : Fates \cup {"none"}, at : 0 .. LastLedger]
    <3>1. ledger \in 0 .. LastLedger
      BY ControlAssumption DEF CIInv, RowsTyped
    <3> QED BY <2>2, <3>1
  <2>3. chain[i] \in [fate : Fates \cup {"none"}, at : 0 .. LastLedger]
    BY DEF CIInv, RowsTyped
  <2> QED BY <2>1, <2>2, <2>3 DEF ChainMove
<1>4. /\ ledger' \in 1 .. LastLedger
      /\ chain' \in [Intents -> [fate : Fates \cup {"none"}, at : 0 .. LastLedger]]
  BY <1>3, RowDomains, LedgerGrows
<1>5. intent' \in [Intents -> [state : {"none"} \cup OpenStates \cup FinalStates, at : Nat,
                               prepared : Nat, maxTime : Nat, key : Keys \cup {NoKey}]]
  BY RowDomains, IntentTyped
<1>6. signed' \in [Intents -> [outcome : {"none", "RECEIVED", "ACCEPTED", "UNRESOLVED",
                                          "REJECTED", "CONFIRMED", "FAILED"},
                               expired : BOOLEAN, at : Nat, accepted : BOOLEAN]]
  BY RowDomains, SignedTyped
<1>7. service' \in [Intents -> [state : {"none", "PENDING", "REJECTED"} \cup Fates, at : Nat]]
  BY RowDomains, ServiceTyped
<1> QED BY <1>1, <1>2, <1>4, <1>5, <1>6, <1>7 DEF RowsTyped

\* What a row proves is true.
LEMMA StoredIsTrue ==
  ASSUME CIInv, NEW i \in Intents, HasProof(Stored(i))
  PROVE  /\ Stored(i).state \in Fates /\ Stored(i).at \in Nat
         /\ chain[i] = [fate |-> Stored(i).state, at |-> Stored(i).at]
<1>1. CASE SignedFinal(i)
  <2>1. Stored(i) = [state |-> IF signed[i].outcome = "CONFIRMED" THEN "SUCCESS" ELSE "FAILED",
                     at |-> signed[i].at]
    BY <1>1 DEF Stored
  <2>2. signed[i].at \in Nat /\ chain[i] = [fate |-> Stored(i).state, at |-> signed[i].at]
    BY <1>1 DEF CIInv, RowsTyped, Truth
  <2> QED BY <2>1, <2>2 DEF Fates
<1>2. CASE ~SignedFinal(i)
  <2>1. service[i].state \in Fates /\ Stored(i) = service[i]
    BY <1>2 DEF Stored, HasProof
  <2> QED BY <2>1 DEF CIInv, RowsTyped, Truth
<1> QED BY <1>1, <1>2

LEMMA RetainedIsTrue ==
  ASSUME CIInv, NEW i \in Intents, HasProof(Retained(i))
  PROVE  /\ Retained(i).state = intent[i].state /\ Retained(i).at = intent[i].at
         /\ Retained(i).state \in Fates /\ Retained(i).at \in Nat
         /\ chain[i] = [fate |-> Retained(i).state, at |-> Retained(i).at]
<1>1. intent[i].state \in Fates /\ intent[i].at \in Nat
      /\ chain[i] = [fate |-> intent[i].state, at |-> intent[i].at]
  BY DEF HasProof, Retained, CIInv, RowsTyped, Truth
<1> QED BY <1>1 DEF Retained

\* NOT_FOUND of a replica that covers the whole life of the transaction.
LEMMA ExpiryIsProved ==
  ASSUME CIInv, NEW i \in Intents, IsOpen(i), NEW oldest \in Closed, NEW latest \in Closed,
         Covers(i, oldest, latest), ~Found(i, oldest, latest)
  PROVE  Over(i)
<1>1. Prepared(i)
  BY DEF IsOpen, Prepared, OpenStates
<1>2. /\ ledger \in Nat /\ oldest \in Nat /\ latest \in Nat /\ latest < ledger
      /\ intent[i].prepared \in Nat /\ intent[i].maxTime \in Nat /\ chain[i].at \in Nat
  BY ControlAssumption DEF CIInv, RowsTyped, Closed
<1>3. oldest <= intent[i].prepared /\ latest > intent[i].maxTime
  BY DEF Covers
<1>4. ~Landed(i)
  BY <1>2, <1>3 DEF CIInv, Shape, Found
<1> QED BY <1>1, <1>2, <1>3, <1>4 DEF Over

\* What a process comes to know is true.
LEMMA StepsAreSound ==
  ASSUME CIInv, [CINext]_ciVars, NEW q \in Procs, ProcNext(q)
  PROVE  \E next : Sound(next)' /\ proc' = [proc EXCEPT ![q] = next]
<1> USE DEF CIInv, RowsTyped
<1> DEFINE Goal == \E next : Sound(next)' /\ proc' = [proc EXCEPT ![q] = next]
<1>1. PICK r : r = proc[q]
  OBVIOUS
<1>2. Sound(r) /\ Sound(r)'
  BY <1>1, SoundStays
<1>3. ledger \in Nat /\ ledger' \in Nat /\ ledger' >= ledger
  BY LedgerGrows
<1>4. ASSUME proc' = [proc EXCEPT ![q] = Resting] PROVE Goal
  <2>1. Sound(Resting)'
    BY DEF Sound, Places, Resting, ProcStates
  <2> QED BY <1>4, <2>1
\* An outcome of a landed control is taken up.
<1>5. ASSUME NEW i \in Intents, NEW state, NEW at, state \in Fates,
             chain[i] = [fate |-> state, at |-> at], at \in Nat, Prepared(i),
             proc' = [proc EXCEPT ![q] = With("projecting", i, state, at)]
      PROVE  Goal
  <2>1. Sound(With("projecting", i, state, at))
    BY <1>5 DEF Sound, Knows, Places, With, Resting, ProcStates, FinalStates, Fates
  <2> QED BY <1>5, <2>1, SoundStays
\* The end of a control that cannot land any more is.
<1>6. ASSUME NEW i \in Intents, Over(i), NEW pc \in {"expiring", "rejecting"},
             proc' = [proc EXCEPT ![q] = With(pc, i, "EXPIRED", 0)]
      PROVE  Goal
  <2>1. Sound(With(pc, i, "EXPIRED", 0))
    BY <1>6 DEF Sound, Places, With, Resting, ProcStates, FinalStates, Over
  <2> QED BY <1>6, <2>1, SoundStays
<1>7. ASSUME NEW pc \in {"creating", "sending", "rejecting", "signing"},
             Sound([r EXCEPT !.pc = pc]), proc' = [proc EXCEPT ![q].pc = pc]
      PROVE  Goal
  <2>1. proc' = [proc EXCEPT ![q] = [r EXCEPT !.pc = pc]]
    BY <1>1, <1>7
  <2> QED BY <1>7, <2>1, SoundStays
<1>8. ASSUME NEW k \in Keys \cup {NoKey}, BeginPreparation(q, k) PROVE Goal
  <2> DEFINE next == [Resting EXCEPT !.pc = "simulating", !.key = k, !.at = ledger - 1]
  <2>1. ledger - 1 \in Nat /\ ledger - 1 < ledger
    BY <1>3, <1>8 DEF BeginPreparation
  <2>2. Sound(next)
    BY <2>1 DEF Sound, Places, Resting, ProcStates
  <2>3. proc' = [proc EXCEPT ![q] = next]
    BY <1>8 DEF BeginPreparation, Proceed
  <2>4. PICK found : found = next
    OBVIOUS
  <2>5. Sound(found)'
    BY <2>2, <2>4, SoundStays
  <2> QED BY <2>3, <2>4, <2>5
<1>9. ASSUME SimulationFails(q) \/ CreateIntent(q) \/ RecordAnswer(q) \/ SignOutcome(q)
      PROVE  Goal
  BY <1>4, <1>9 DEF SimulationFails, CreateIntent, RecordAnswer, SignOutcome, Leave, Proceed
<1>10. ASSUME NEW i \in Intents, Claim(q, i) PROVE Goal
  <2>1. Sound(With("recording", i, "none", 0))
    BY <1>10 DEF Claim, Sound, Places, With, Resting, ProcStates, Prepared
  <2>2. proc' = [proc EXCEPT ![q] = With("recording", i, "none", 0)]
    BY <1>10 DEF Claim, Proceed
  <2> QED BY <2>1, <2>2, SoundStays
<1>11. ASSUME NEW i \in Intents, LookUp(q, i) PROVE Goal
  <2>0. Prepared(i)
    BY <1>11 DEF LookUp
  <2>1. CASE HasProof(Stored(i)) /\ proc' = [proc EXCEPT ![q] =
                                    With("projecting", i, Stored(i).state, Stored(i).at)]
    <3>1. PICK state, at : state = Stored(i).state /\ at = Stored(i).at
      OBVIOUS
    <3>2. state \in Fates /\ at \in Nat /\ chain[i] = [fate |-> state, at |-> at]
      BY <2>1, <3>1, StoredIsTrue
    <3> QED BY <1>5, <2>0, <2>1, <3>1, <3>2
  <2>2. CASE Seen(i) /\ proc' = [proc EXCEPT ![q] =
                                    With("projecting", i, chain[i].fate, chain[i].at)]
    <3>1. PICK state, at : state = chain[i].fate /\ at = chain[i].at
      OBVIOUS
    <3>2. state \in Fates /\ at \in Nat /\ chain[i] = [fate |-> state, at |-> at]
      BY <2>2, <3>1, ControlAssumption DEF Seen, Found, Landed
    <3> QED BY <1>5, <2>0, <2>2, <3>1, <3>2
  <2>3. CASE HasProof(Retained(i)) /\ proc' = [proc EXCEPT ![q] =
                                    With("projecting", i, intent[i].state, intent[i].at)]
    <3>1. PICK state, at : state = intent[i].state /\ at = intent[i].at
      OBVIOUS
    <3>2. state \in Fates /\ at \in Nat /\ chain[i] = [fate |-> state, at |-> at]
      BY <2>3, <3>1, RetainedIsTrue
    <3> QED BY <1>5, <2>0, <2>3, <3>1, <3>2
  <2>4. CASE intent[i].state = "EXPIRED" /\ proc' = [proc EXCEPT ![q] =
                                    With("rejecting", i, "EXPIRED", 0)]
    <3>1. Over(i)
      BY <2>4 DEF Truth
    <3> QED BY <1>6, <2>4, <3>1
  <2> QED BY <1>11, <2>1, <2>2, <2>3, <2>4 DEF LookUp, Proceed
<1>12. ASSUME NEW i \in Intents, LookUpExpiry(q, i) PROVE Goal
  <2>1. Over(i)
    BY <1>12, ExpiryIsProved DEF LookUpExpiry
  <2>2. proc' = [proc EXCEPT ![q] = With("expiring", i, "EXPIRED", 0)]
    BY <1>12 DEF LookUpExpiry, Proceed
  <2> QED BY <1>6, <2>1, <2>2
<1>13. ASSUME NEW i \in Intents, CronSelects(q, i) PROVE Goal
  <2>1. PICK state, at : state = Proof(i).state /\ at = Proof(i).at
    OBVIOUS
  <2>2. HasProof(Proof(i)) /\ proc' = [proc EXCEPT ![q] = With("projecting", i, state, at)]
    BY <1>13, <2>1 DEF CronSelects, Proceed
  <2>3. state \in Fates /\ at \in Nat /\ chain[i] = [fate |-> state, at |-> at]
    <3>1. CASE HasProof(Stored(i))
      BY <2>1, <3>1, StoredIsTrue DEF Proof
    <3>2. CASE ~HasProof(Stored(i))
      BY <2>1, <2>2, <3>2, RetainedIsTrue DEF Proof
    <3> QED BY <3>1, <3>2
  <2>4. Prepared(i)
    BY <1>13 DEF CronSelects, Unfinished, Shape, Prepared
  <2> QED BY <1>5, <2>2, <2>3, <2>4
<1>14. ASSUME RecordService(q) PROVE Goal
  <2>1. CASE serviceState = "ACTIVE"
    <3>1. Sound([r EXCEPT !.pc = "sending"])
      BY <1>1, <1>2, <1>14 DEF RecordService, Sound, Places, ProcStates
    <3>2. proc' = [proc EXCEPT ![q].pc = "sending"]
      BY <1>14, <2>1 DEF RecordService, Proceed
    <3> QED BY <1>7, <3>1, <3>2
  <2>2. CASE serviceState # "ACTIVE"
    BY <1>4, <1>14, <2>2 DEF RecordService, Leave, Proceed
  <2> QED BY <2>1, <2>2
<1>15. ASSUME Send(q) PROVE Goal
  <2>1. PICK answer \in Answers : proc' = [proc EXCEPT ![q] = With("answered", r.id, answer, 0)]
    BY <1>1, <1>15 DEF Send, Proceed, Answers
  <2>2. r.id \in Intents /\ Prepared(r.id)
    BY <1>1, <1>2, <1>15 DEF Send, Sound
  <2>3. Sound(With("answered", r.id, answer, 0))
    BY <2>2 DEF Sound, Places, With, Resting, ProcStates
  <2> QED BY <2>1, <2>3, SoundStays
<1>16. ASSUME Project(q) PROVE Goal
  <2>1. CASE NoConflict(r.id, r.state, r.at)
    <3>1. Sound([r EXCEPT !.pc = "signing"])
      BY <1>1, <1>2, <1>16 DEF Project, Sound, Knows, Places, ProcStates
    <3>2. proc' = [proc EXCEPT ![q].pc = "signing"]
      BY <1>1, <1>16, <2>1 DEF Project, Proceed
    <3> QED BY <1>7, <3>1, <3>2
  <2>2. CASE ~NoConflict(r.id, r.state, r.at)
    BY <1>1, <1>4, <1>16, <2>2 DEF Project, Leave, Proceed
  <2> QED BY <2>1, <2>2
<1>17. ASSUME Expire(q) PROVE Goal
  <2>0. /\ r.id \in Intents /\ Prepared(r.id) /\ Over(r.id) /\ r.state = "EXPIRED"
        /\ r.pc = "expiring"
    BY <1>1, <1>2, <1>17 DEF Expire, Sound
  <2>1. CASE proc' = [proc EXCEPT ![q].pc = "rejecting"]
    <3>1. Sound([r EXCEPT !.pc = "rejecting"])
      BY <1>2, <2>0 DEF Sound, Places, ProcStates
    <3> QED BY <1>7, <2>1, <3>1
  <2>2. CASE /\ ~IsOpen(r.id) /\ intent[r.id].state # "EXPIRED"
             /\ proc' = [proc EXCEPT ![q] = With("projecting", r.id, intent[r.id].state,
                                                 intent[r.id].at)]
    <3>1. PICK state, at : state = intent[r.id].state /\ at = intent[r.id].at
      OBVIOUS
    <3>2. intent[r.id].state \in Fates
      BY <2>0, <2>2 DEF IsOpen, Prepared, OpenStates, FinalStates, Fates
    <3>3. state \in Fates /\ at \in Nat /\ chain[r.id] = [fate |-> state, at |-> at]
      BY <2>0, <3>1, <3>2 DEF Truth
    <3> QED BY <1>5, <2>0, <2>2, <3>1, <3>3
  <2> QED BY <1>1, <1>17, <2>1, <2>2 DEF Expire, Proceed
<1>18. ASSUME RejectService(q) PROVE Goal
  <2>1. Sound([r EXCEPT !.pc = "signing"])
    BY <1>1, <1>2, <1>18 DEF RejectService, Sound, Places, ProcStates
  <2>2. proc' = [proc EXCEPT ![q].pc = "signing"]
    BY <1>1, <1>18 DEF RejectService, Proceed
  <2> QED BY <1>7, <2>1, <2>2
<1>19. ASSUME CheckTimeBounds(q) PROVE Goal
  <2>1. CASE r.at + Validity >= ledger
    <3>1. Sound([r EXCEPT !.pc = "creating"])
      BY <1>1, <1>2, <1>19 DEF CheckTimeBounds, Sound, Places, ProcStates
    <3>2. proc' = [proc EXCEPT ![q].pc = "creating"]
      BY <1>1, <1>19, <2>1 DEF CheckTimeBounds, Proceed
    <3> QED BY <1>7, <3>1, <3>2
  <2>2. CASE ~(r.at + Validity >= ledger)
    BY <1>1, <1>4, <1>19, <2>2 DEF CheckTimeBounds, Leave, Proceed
  <2> QED BY <2>1, <2>2
<1> HIDE DEF Goal
<1>20. ASSUME NEW i \in Intents, TickSelects(q, i) PROVE Goal
  BY <1>11, <1>12, <1>20 DEF TickSelects
<1>21. Goal
  BY <1>8, <1>9, <1>10, <1>11, <1>12, <1>13, <1>14, <1>15, <1>16, <1>17, <1>18, <1>19, <1>20
     DEF ProcNext
<1> QED BY <1>21 DEF Goal

LEMMA SoundMoves ==
  ASSUME CIInv, [CINext]_ciVars
  PROVE  /\ proc' \in [Procs -> Places]
         /\ \A p \in Procs : Sound(proc[p])'
<1>1. ASSUME NEW p \in Procs, proc'[p] = proc[p] PROVE Sound(proc[p])'
  <2>1. PICK r : r = proc[p]
    OBVIOUS
  <2>2. Sound(r)'
    BY <2>1, SoundStays DEF CIInv
  <2> QED BY <1>1, <2>1, <2>2
<1>2. ASSUME NEW q \in Procs, ProcNext(q)
      PROVE  /\ proc' \in [Procs -> Places]
             /\ \A p \in Procs : Sound(proc[p])'
  <2>1. PICK next : Sound(next)' /\ proc' = [proc EXCEPT ![q] = next]
    BY <1>2, StepsAreSound
  <2>2. next \in Places
    BY <2>1 DEF Sound, Places
  <2>3. proc' \in [Procs -> Places]
    BY <2>1, <2>2 DEF CIInv, RowsTyped
  <2>4. proc'[q] = next /\ \A p \in Procs \ {q} : proc'[p] = proc[p]
    BY <2>1 DEF CIInv, RowsTyped
  <2>5. Sound(proc[q])'
    BY <2>1, <2>4
  <2> QED BY <1>1, <2>3, <2>4, <2>5
<1>3. ASSUME UNCHANGED proc
      PROVE  /\ proc' \in [Procs -> Places]
             /\ \A p \in Procs : Sound(proc[p])'
  BY <1>1, <1>3 DEF CIInv, RowsTyped
<1>4. UNCHANGED proc \/ \E q \in Procs : ProcNext(q)
  BY DEF CINext, Land, ObserveSigned, ObserveService, CloseLedger, Retire, ciVars
<1> QED BY <1>2, <1>3, <1>4

\* What the transitions of a signed row make of it.
SignedRows == [outcome : {"none", "RECEIVED", "ACCEPTED", "UNRESOLVED", "REJECTED",
                          "CONFIRMED", "FAILED"},
               expired : BOOLEAN, at : Nat, accepted : BOOLEAN]
Final == {"CONFIRMED", "FAILED"}

LEMMA AnswersDecideNothing ==
  ASSUME NEW row \in SignedRows, NEW to \in Answers, NEW sent \in BOOLEAN
  PROVE  /\ Answered(row, to, sent).expired = row.expired
         /\ Answered(row, to, sent).at = row.at
         /\ row.outcome \in Final \cup {"none"} => Answered(row, to, sent).outcome = row.outcome
         /\ row.outcome \notin Final \cup {"none"}
              => Answered(row, to, sent).outcome \notin Final \cup {"none"}
BY DEF SignedRows, Final, Answers, Answered, CanTransition

LEMMA ConclusionsAreKept ==
  ASSUME NEW row \in SignedRows, NEW fate \in Fates, NEW at \in Nat,
         NEW to, to = Concluded(row, fate, at)
  PROVE  \/ to = row
         \/ /\ row.outcome \notin Final \cup {"none"}
            /\ to.outcome = Outcome(fate) /\ to.outcome \in Final
            /\ ~to.expired /\ to.at = at
BY DEF SignedRows, Final, Fates, Concluded, CanTransition, Outcome

LEMMA ExpiryDecidesTheRest ==
  ASSUME NEW row \in SignedRows
  PROVE  LET to == ProvedExpired(row)
         IN  \/ to = row
             \/ row.outcome \notin Final \cup {"none"} /\ to.outcome = "REJECTED" /\ to.expired
BY DEF SignedRows, Final, ProvedExpired

\* So a row that is not there stays away until the claim, and a final one stays.
LEMMA SignedRowMoves ==
  ASSUME CIInv, [CINext]_ciVars, NEW i \in Intents
  PROVE  /\ signed[i].outcome = "none"
              => signed'[i].outcome = "none"
                 \/ (intent[i].state = "PREPARED" /\ intent'[i].state = "SUBMITTING")
         /\ signed'[i].outcome = "none" => signed'[i] = signed[i]
         /\ signed'[i].outcome \in Final
              => \/ signed[i].outcome = signed'[i].outcome /\ signed[i].at = signed'[i].at
                 \/ /\ Landed(i) /\ signed'[i].at = chain[i].at
                    /\ signed'[i].outcome = Outcome(chain[i].fate)
         /\ signed'[i].expired => signed[i].expired \/ Over(i)
         /\ SignedFinal(i) => /\ signed'[i].outcome = signed[i].outcome
                              /\ signed'[i].at = signed[i].at
         /\ signed[i].expired => signed'[i].expired
<1>0. /\ SignedFinal(i) <=> signed[i].outcome \in Final
      /\ intent[i].state = "PREPARED" => signed[i].outcome = "none"
      /\ signed[i].expired => ~Landed(i)
  BY DEF SignedFinal, Final, CIInv, Shape, Truth, Over
<1>1. signed[i] \in SignedRows
  BY DEF CIInv, RowsTyped, SignedRows
<1>2. CASE signed'[i] = signed[i]
  BY <1>2
<1>3. CASE /\ intent[i].state = "PREPARED" /\ intent'[i].state = "SUBMITTING"
           /\ signed'[i] = [signed[i] EXCEPT !.outcome = "RECEIVED"]
  BY <1>0, <1>1, <1>3 DEF SignedRows, Final
<1>4. ASSUME NEW to \in Answers, NEW sent \in BOOLEAN, signed'[i] = Answered(signed[i], to, sent)
      PROVE  /\ signed[i].outcome = "none" => signed'[i].outcome = "none"
             /\ signed'[i].outcome = "none" => signed'[i] = signed[i]
             /\ signed'[i].outcome \in Final
                  => signed[i].outcome = signed'[i].outcome /\ signed[i].at = signed'[i].at
             /\ signed'[i].expired <=> signed[i].expired
             /\ signed[i].outcome \in Final
                  => signed'[i].outcome = signed[i].outcome /\ signed'[i].at = signed[i].at
  <2>1. /\ signed'[i].expired = signed[i].expired /\ signed'[i].at = signed[i].at
        /\ signed[i].outcome \in Final \cup {"none"} => signed'[i].outcome = signed[i].outcome
        /\ signed[i].outcome \notin Final \cup {"none"}
             => signed'[i].outcome \notin Final \cup {"none"}
    BY <1>1, <1>4, AnswersDecideNothing
  <2>2. signed[i].outcome = "none" => signed'[i] = signed[i]
    BY <1>1, <1>4 DEF SignedRows, Answered, CanTransition
  <2> QED BY <2>1, <2>2
<1>5. CASE Landed(i) /\ signed'[i] = Concluded(signed[i], chain[i].fate, chain[i].at)
  <2>1. chain[i].fate \in Fates /\ chain[i].at \in Nat
    BY <1>5, ControlAssumption DEF CIInv, RowsTyped, Landed
  <2>2. \/ signed'[i] = signed[i]
        \/ /\ signed[i].outcome \notin Final \cup {"none"}
           /\ signed'[i].outcome = Outcome(chain[i].fate) /\ signed'[i].outcome \in Final
           /\ ~signed'[i].expired /\ signed'[i].at = chain[i].at
    <3>1. PICK row, to, fate, at : /\ row = signed[i] /\ to = signed'[i]
                                   /\ fate = chain[i].fate /\ at = chain[i].at
      OBVIOUS
    <3>2. \/ to = row
          \/ /\ row.outcome \notin Final \cup {"none"}
             /\ to.outcome = Outcome(fate) /\ to.outcome \in Final
             /\ ~to.expired /\ to.at = at
      BY <1>1, <1>5, <2>1, <3>1, ConclusionsAreKept
    <3> QED BY <3>1, <3>2
  <2> QED BY <1>0, <1>5, <2>2 DEF Final
<1>6. CASE Over(i) /\ signed'[i] = ProvedExpired(signed[i])
  BY <1>0, <1>1, <1>6, ExpiryDecidesTheRest DEF Final
<1>7. SignedMove(i)
  BY SignedMoves
<1> QED BY <1>0, <1>2, <1>3, <1>4, <1>5, <1>6, <1>7 DEF SignedMove

\* ... and what the steps make of an intent's state.
LEMMA IntentRowMoves ==
  ASSUME CIInv, [CINext]_ciVars, NEW i \in Intents
  PROVE  \/ intent'[i] = intent[i]
         \/ /\ ~Prepared(i) /\ intent'[i].state = "PREPARED" /\ intent'[i].at = 0
            /\ intent'[i].prepared < ledger'
         \/ /\ intent[i].state = "PREPARED" /\ intent'[i].state = "SUBMITTING"
            /\ intent'[i].at = intent[i].at
         \/ /\ \/ IsOpen(i)
               \/ intent'[i].state = intent[i].state /\ intent'[i].at = intent[i].at
            /\ intent'[i].state \in Fates
            /\ chain[i] = [fate |-> intent'[i].state, at |-> intent'[i].at]
         \/ /\ IsOpen(i) /\ intent'[i].state = "EXPIRED" /\ Over(i)
<1>1. CASE intent'[i] = intent[i]
  BY <1>1
<1>2. ASSUME NEW p \in Procs, Created(i, p)
      PROVE  /\ ~Prepared(i) /\ intent'[i].state = "PREPARED" /\ intent'[i].at = 0
             /\ intent'[i].prepared < ledger'
  <2>1. Sound(proc[p])
    BY DEF CIInv
  <2>2. intent'[i] = [state |-> "PREPARED", at |-> 0, prepared |-> proc[p].at,
                      maxTime |-> proc[p].at + Validity, key |-> proc[p].key]
    BY <1>2 DEF Created, CIInv, RowsTyped
  <2> QED BY <1>2, <2>1, <2>2 DEF Created, Sound
<1>3. CASE /\ intent[i].state = "PREPARED"
           /\ intent'[i] = [intent[i] EXCEPT !.state = "SUBMITTING"]
  BY <1>3 DEF CIInv, RowsTyped
<1>4. ASSUME NEW p \in Procs, proc[p].pc = "projecting", proc[p].id = i,
             NoConflict(i, proc[p].state, proc[p].at),
             intent'[i] = [intent[i] EXCEPT !.state = proc[p].state, !.at = proc[p].at]
      PROVE  /\ \/ IsOpen(i)
                \/ intent'[i].state = intent[i].state /\ intent'[i].at = intent[i].at
             /\ intent'[i].state \in Fates
             /\ chain[i] = [fate |-> intent'[i].state, at |-> intent'[i].at]
  <2>1. proc[p].state \in Fates /\ chain[i] = [fate |-> proc[p].state, at |-> proc[p].at]
    BY <1>4 DEF CIInv, Sound, Knows
  <2>2. intent'[i].state = proc[p].state /\ intent'[i].at = proc[p].at
    BY <1>4 DEF CIInv, RowsTyped
  <2>3. IsOpen(i) \/ intent[i].state = proc[p].state
    BY <1>4 DEF NoConflict, IsOpen
  <2>4. intent[i].state = proc[p].state => intent[i].at = proc[p].at
    <3>1. intent[i].state = proc[p].state
            => chain[i] = [fate |-> intent[i].state, at |-> intent[i].at]
      BY <2>1 DEF CIInv, Truth
    <3> QED BY <2>1, <3>1
  <2> QED BY <2>1, <2>2, <2>3, <2>4
<1>5. ASSUME NEW p \in Procs, proc[p].pc = "expiring", proc[p].id = i, IsOpen(i),
             intent'[i] = [intent[i] EXCEPT !.state = "EXPIRED"]
      PROVE  intent'[i].state = "EXPIRED" /\ Over(i)
  <2>1. Over(i)
    BY <1>5 DEF CIInv, Sound
  <2> QED BY <1>5, <2>1 DEF CIInv, RowsTyped
<1>6. IntentMove(i)
  BY IntentMoves
<1> QED BY <1>1, <1>2, <1>3, <1>4, <1>5, <1>6 DEF IntentMove

LEMMA ShapeStays ==
  ASSUME CIInv, [CINext]_ciVars, NEW i \in Intents
  PROVE  Shape(i)'
<1>0. Shape(i)
  BY DEF CIInv
<1>1. ledger \in Nat /\ ledger' \in Nat /\ ledger' >= ledger
  BY LedgerGrows
<1>2. Prepared(i)' => intent'[i].prepared < ledger'
  <2>1. CASE Prepared(i)
    <3>1. intent[i].prepared \in Nat
      BY DEF CIInv, RowsTyped
    <3> QED BY <1>0, <1>1, <2>1, <3>1, PreparedStays DEF Shape
  <2>2. CASE ~Prepared(i)
    BY <2>2, IntentRowMoves DEF Prepared, IsOpen, OpenStates, Fates
  <2> QED BY <2>1, <2>2
<1>3. Landed(i)' => /\ Prepared(i)'
                    /\ intent'[i].prepared < chain'[i].at
                    /\ chain'[i].at <= intent'[i].maxTime
  <2>1. CASE Landed(i)
    BY <1>0, <2>1, LandedStays, PreparedStays DEF Shape
  <2>2. CASE ~Landed(i) /\ Landed(i)'
    <3>1. CanLand(i) /\ intent'[i] = intent[i] /\ chain'[i].at = ledger
      <4>1. ChainMove(i)
        BY ChainMoves
      <4>2. chain'[i] # chain[i]
        BY <2>2 DEF Landed
      <4>3. PICK fate \in Fates : chain'[i] = [fate |-> fate, at |-> ledger]
        BY <4>1, <4>2 DEF ChainMove
      <4> QED BY <4>1, <4>2, <4>3 DEF ChainMove
    <3> QED BY <1>0, <3>1 DEF CanLand, Shape, Prepared
  <2> QED BY <2>1, <2>2
<1>4. IsOpen(i)' => intent'[i].at = 0
  BY <1>0, IntentRowMoves DEF Shape, IsOpen, OpenStates, Fates
<1>5. intent'[i].state \in {"none", "PREPARED"} => signed'[i].outcome = "none"
  <2>1. intent'[i].state \in {"none", "PREPARED"} => intent[i].state \in {"none", "PREPARED"}
    BY IntentRowMoves DEF Prepared, Fates
  <2> QED BY <1>0, <2>1, SignedRowMoves DEF Shape
<1>6. signed'[i].outcome = "none" => ~signed'[i].expired
  BY <1>0, SignedRowMoves DEF Shape
<1> QED BY <1>2, <1>3, <1>4, <1>5, <1>6 DEF Shape

LEMMA TruthStays ==
  ASSUME CIInv, [CINext]_ciVars, NEW i \in Intents
  PROVE  Truth(i)'
<1>0. Truth(i)
  BY DEF CIInv
<1>1. ASSUME NEW fate \in Fates, NEW at, chain[i] = [fate |-> fate, at |-> at]
      PROVE  chain'[i] = [fate |-> fate, at |-> at]
  BY <1>1, LandedStays DEF Landed, Fates
<1>2. intent'[i].state \in Fates
        => chain'[i] = [fate |-> intent'[i].state, at |-> intent'[i].at]
  BY <1>0, <1>1, IntentRowMoves DEF Truth, Fates
<1>3. SignedFinal(i)' => chain'[i] = [fate |-> Stored(i)'.state, at |-> signed'[i].at]
  <2> SUFFICES ASSUME SignedFinal(i)'
               PROVE  chain'[i] = [fate |-> Stored(i)'.state, at |-> signed'[i].at]
    OBVIOUS
  <2>1. /\ signed'[i].outcome \in Final
        /\ Stored(i)'.state = IF signed'[i].outcome = "CONFIRMED" THEN "SUCCESS" ELSE "FAILED"
    BY DEF SignedFinal, Stored, Final
  <2>2. CASE signed[i].outcome = signed'[i].outcome /\ signed[i].at = signed'[i].at
    <3>1. SignedFinal(i) /\ Stored(i).state = Stored(i)'.state
      BY <2>1, <2>2 DEF SignedFinal, Stored, Final
    <3>2. chain[i] = [fate |-> Stored(i).state, at |-> signed[i].at]
      BY <1>0, <3>1 DEF Truth
    <3>3. Stored(i).state \in Fates
      BY <2>1, <3>1 DEF Fates
    <3> QED BY <1>1, <2>2, <3>1, <3>2, <3>3
  <2>3. CASE /\ Landed(i) /\ signed'[i].at = chain[i].at
             /\ signed'[i].outcome = Outcome(chain[i].fate)
    <3>1. chain[i] \in [fate : Fates \cup {"none"}, at : 0 .. LastLedger]
      BY DEF CIInv, RowsTyped
    <3>2. chain[i].fate \in Fates /\ chain'[i] = chain[i]
      BY <2>3, <3>1, LandedStays DEF Landed
    <3>3. Stored(i)'.state = chain[i].fate
      BY <2>1, <2>3, <3>2 DEF Outcome, Fates
    <3> QED BY <2>3, <3>1, <3>2, <3>3
  <2> QED BY <2>1, <2>2, <2>3, SignedRowMoves
<1>4. service'[i].state \in Fates
        => chain'[i] = [fate |-> service'[i].state, at |-> service'[i].at]
  <2>1. CASE service'[i] = service[i]
    BY <1>0, <1>1, <2>1 DEF Truth
  <2>2. ASSUME NEW state \in {"PENDING", "REJECTED"},
               service'[i] = [service[i] EXCEPT !.state = state]
        PROVE  service'[i].state \notin Fates
    BY <2>2 DEF CIInv, RowsTyped, Fates
  <2>3. CASE Landed(i) /\ service'[i] = [state |-> chain[i].fate, at |-> chain[i].at]
    <3>1. chain[i] \in [fate : Fates \cup {"none"}, at : 0 .. LastLedger]
      BY DEF CIInv, RowsTyped
    <3> QED BY <2>3, <3>1, LandedStays
  <2> QED BY <2>1, <2>2, <2>3, ServiceMoves DEF ServiceMove
<1>5. intent'[i].state = "EXPIRED" \/ signed'[i].expired => Over(i)'
  <2>1. intent'[i].state = "EXPIRED" => Over(i)
    BY <1>0, IntentRowMoves DEF Truth, Fates
  <2>2. signed'[i].expired => Over(i)
    BY <1>0, SignedRowMoves DEF Truth
  <2> QED BY <2>1, <2>2, OverStays
<1> QED BY <1>2, <1>3, <1>4, <1>5 DEF Truth

\* CIInv is inductive: the rows are typed, what the processes know is true, and
\* so is what the rows say.
THEOREM ControlInvariant == CISpec => []CIInv
<1>1. CIInit => CIInv
  <2> SUFFICES ASSUME CIInit PROVE CIInv
    OBVIOUS
  <2> USE ControlAssumption DEF CIInit
  <2>1. RowsTyped
    <3>1. Resting \in Places
      BY DEF Resting, Places, ProcStates
    <3>2. /\ NoIntent \in [state : {"none"} \cup OpenStates \cup FinalStates, at : Nat,
                           prepared : Nat, maxTime : Nat, key : Keys \cup {NoKey}]
          /\ NoSigned \in [outcome : {"none", "RECEIVED", "ACCEPTED", "UNRESOLVED",
                                     "REJECTED", "CONFIRMED", "FAILED"},
                           expired : BOOLEAN, at : Nat, accepted : BOOLEAN]
      BY DEF NoIntent, NoSigned
    <3>3. ledger \in 1 .. LastLedger
      OBVIOUS
    <3> QED BY <3>1, <3>2, <3>3 DEF RowsTyped
  <2>2. \A p \in Procs : Sound(proc[p])
    BY DEF Sound, Resting, Places, ProcStates
  <2>3. \A i \in Intents : Shape(i) /\ Truth(i)
    BY DEF Shape, Truth, Prepared, Landed, IsOpen, SignedFinal, NoIntent, NoSigned,
       OpenStates, Fates
  <2> QED BY <2>1, <2>2, <2>3 DEF CIInv
<1>2. CIInv /\ [CINext]_ciVars => CIInv'
  BY SoundMoves, RowsStayTyped, ShapeStays, TruthStays DEF CIInv
<1> QED BY <1>1, <1>2, PTL DEF CISpec

-----------------------------------------------------------------------------
(* The theorems                                                            *)

\* The rows and the processes keep their types.
THEOREM ControlsAreTyped == CISpec => []CITypeOK
<1>1. ASSUME CIInv PROVE CITypeOK
  <2>1. \A p \in Procs : proc[p].pc \notin {"idle", "simulating", "creating"} => proc[p].id # 0
    BY <1>1, ControlAssumption DEF CIInv, Sound, Intents
  <2>2. ASSUME NEW r \in Places
        PROVE  r \in [pc : ProcStates, id : {0} \cup Intents, key : Keys \cup {NoKey},
                      state : {"none", "ACCEPTED", "REJECTED", "UNRESOLVED"} \cup FinalStates,
                      at : Nat]
    BY DEF Places, Answers
  <2> QED BY <1>1, <2>1, <2>2 DEF CIInv, RowsTyped, CITypeOK
<1> QED BY <1>1, ControlInvariant, PTL

\* Whatever replica answers and whichever row hears of it first, what the rows
\* say is final is what the ledger says, and an expired control never lands.
THEOREM ControlOutcomesAreTrue == CISpec => []ControlFinalityIsLedgers
<1>1. ASSUME CIInv PROVE ControlFinalityIsLedgers
  <2> SUFFICES ASSUME NEW i \in Intents
               PROVE  /\ intent[i].state \in Fates
                           => chain[i] = [fate |-> intent[i].state, at |-> intent[i].at]
                      /\ SignedFinal(i)
                           => chain[i] = [fate |-> Stored(i).state, at |-> signed[i].at]
                      /\ service[i].state \in Fates
                           => chain[i] = [fate |-> service[i].state, at |-> service[i].at]
                      /\ intent[i].state = "EXPIRED" \/ signed[i].expired
                           => ~Landed(i) /\ ~CanLand(i)
    BY DEF ControlFinalityIsLedgers
  <2>1. Truth(i) /\ ledger \in Nat /\ intent[i].maxTime \in Nat
    BY <1>1 DEF CIInv, RowsTyped
  <2>2. Over(i) => ~Landed(i) /\ ~CanLand(i)
    BY <2>1 DEF Over, CanLand
  <2> QED BY <2>1, <2>2 DEF Truth
<1> QED BY <1>1, ControlInvariant, PTL

\* Wherever a repair stopped, somebody's query finds the evidence, the cron's of
\* an active deployment and the tick's of one that retires, but for a refusal
\* that both outcomes contradict; and nothing on record stands against it.
THEOREM ProofIsNeverHidden == CISpec => []EvidenceIsFound
<1>1. ASSUME CIInv PROVE EvidenceIsFound
  <2> SUFFICES ASSUME NEW i \in Intents, Proved(i), ~Agreed(i)
               PROVE  /\ NoConflict(i, Proof(i).state, Proof(i).at)
                      /\ serviceState = "ACTIVE" => Unfinished(i)
                      /\ AwaitsRetirement(i) \/ RefusalRemains(i)
    BY DEF EvidenceIsFound
  <2>0. /\ Shape(i) /\ Truth(i) /\ signed[i].outcome # "none"
        /\ intent[i].state \in {"none"} \cup OpenStates \cup FinalStates
        /\ service[i] \in [state : {"none", "PENDING", "REJECTED"} \cup Fates, at : Nat]
        /\ signed[i].outcome \in {"none", "RECEIVED", "ACCEPTED", "UNRESOLVED",
                                  "REJECTED", "CONFIRMED", "FAILED"}
    BY <1>1 DEF CIInv, RowsTyped, Proved
  <2>1. PICK state, at : state = Proof(i).state /\ at = Proof(i).at
    OBVIOUS
  <2>2. HasProof(Stored(i)) \/ HasProof(Retained(i))
    BY DEF Proved, Stored, Retained, HasProof, Fates
  <2>3. state \in Fates /\ chain[i] = [fate |-> state, at |-> at]
    <3>1. CASE HasProof(Stored(i))
      BY <1>1, <2>1, <3>1, StoredIsTrue DEF Proof
    <3>2. CASE ~HasProof(Stored(i))
      BY <1>1, <2>1, <2>2, <3>2, RetainedIsTrue DEF Proof
    <3> QED BY <3>1, <3>2
  <2>4. Landed(i)
    BY <2>3 DEF Landed, Fates
  <2>5. intent[i].state \in OpenStates \cup Fates /\ ~signed[i].expired
    BY <2>0, <2>4 DEF Truth, Shape, Over, OpenStates, FinalStates, Fates
  <2>6. intent[i].state \in Fates => intent[i].state = state /\ intent[i].at = at
    BY <2>0, <2>3 DEF Truth
  <2>7. service[i].state \in Fates => service[i] = [state |-> state, at |-> at]
    BY <2>0, <2>3 DEF Truth
  <2>8. HasProof(Stored(i)) => Stored(i) = [state |-> state, at |-> at]
    <3>1. ASSUME HasProof(Stored(i)) PROVE Stored(i).state = state /\ Stored(i).at = at
      BY <2>1, <3>1 DEF Proof
    <3>2. Stored(i) = [state |-> Stored(i).state, at |-> Stored(i).at]
      BY <2>0 DEF Stored
    <3> QED BY <3>1, <3>2
  <2>9. intent[i].at \in {0, at} /\ intent[i].state \in OpenStates \cup {state}
    BY <2>0, <2>5, <2>6 DEF Shape, IsOpen
  <2>10. NoConflict(i, state, at)
    BY <2>5, <2>7, <2>8, <2>9 DEF NoConflict
  <2>11. ASSUME serviceState = "ACTIVE" PROVE Unfinished(i)
    <3>1. CASE SignedFinal(i)
      <4>1. HasProof(Stored(i)) /\ Stored(i).state = state
        BY <2>8, <3>1 DEF HasProof, Stored
      <4> QED BY <2>0, <2>5, <2>6, <2>11, <3>1, <4>1
              DEF Unfinished, Agreed, IsOpen, OpenStates, Fates
    <3>2. CASE ~SignedFinal(i)
      BY <2>0, <2>5, <2>11, <3>2 DEF Unfinished, Proved, SignedFinal, IsOpen
    <3> QED BY <3>1, <3>2
  <2>12. AwaitsRetirement(i) \/ RefusalRemains(i)
    BY <2>0, <2>5 DEF AwaitsRetirement, RefusalRemains, Agreed, SignedFinal, IsOpen
  <2> QED BY <2>1, <2>10, <2>11, <2>12
<1> QED BY <1>1, ControlInvariant, PTL

\* No step takes back an outcome, of the intent or of the signed row.
THEOREM ControlOutcomesStay == CISpec => ControlFinalityIsKept
<1>1. ASSUME CIInv, [CINext]_ciVars
      PROVE  \A i \in Intents :
               /\ intent[i].state \in FinalStates
                    => intent'[i].state = intent[i].state /\ intent'[i].at = intent[i].at
               /\ SignedFinal(i) => signed'[i].outcome = signed[i].outcome
                                    /\ signed'[i].at = signed[i].at
               /\ signed[i].expired => signed'[i].expired
  <2> SUFFICES ASSUME NEW i \in Intents
               PROVE  /\ intent[i].state \in FinalStates
                           => intent'[i].state = intent[i].state /\ intent'[i].at = intent[i].at
                      /\ SignedFinal(i) => signed'[i].outcome = signed[i].outcome
                                           /\ signed'[i].at = signed[i].at
                      /\ signed[i].expired => signed'[i].expired
    OBVIOUS
  <2>1. intent[i].state \in FinalStates
          => intent'[i].state = intent[i].state /\ intent'[i].at = intent[i].at
    BY <1>1, IntentRowMoves DEF Prepared, IsOpen, OpenStates, FinalStates
  <2> QED BY <1>1, <2>1, SignedRowMoves
<1> QED BY <1>1, ControlInvariant, PTL DEF CISpec, ControlFinalityIsKept

-----------------------------------------------------------------------------
(* One control at a time                                                   *)

\* The controls are prepared in turn, and all but the last are past effect.
LaneInv ==
  \A i, j \in Intents : i < j /\ Prepared(j) => Prepared(i) /\ (Landed(i) \/ Over(i))

LEMMA LaneStays ==
  ASSUME CIInv, LaneInv, [CINext]_ciVars
  PROVE  LaneInv'
<1> SUFFICES ASSUME NEW i \in Intents, NEW j \in Intents, i < j, Prepared(j)'
             PROVE  Prepared(i)' /\ (Landed(i)' \/ Over(i)')
  BY DEF LaneInv
<1>1. ASSUME Prepared(i), Landed(i) \/ Over(i)
      PROVE  Prepared(i)' /\ (Landed(i)' \/ Over(i)')
  <2>1. Landed(i) => Landed(i)'
    BY LandedStays DEF Landed
  <2> QED BY <1>1, <2>1, PreparedStays, OverStays
<1>2. CASE Prepared(j)
  BY <1>1, <1>2 DEF LaneInv
<1>3. CASE ~Prepared(j)
  <2>1. PICK p \in Procs : Created(j, p)
    <3>1. IntentMove(j)
      BY IntentMoves
    <3>2. ASSUME NEW p \in Procs, proc[p].pc = "expiring", proc[p].id = j PROVE FALSE
      BY <1>3, <3>2 DEF CIInv, Sound
    <3>3. ASSUME NEW p \in Procs, proc[p].pc = "projecting", proc[p].id = j PROVE FALSE
      BY <1>3, <3>3 DEF CIInv, Sound
    <3>4. intent'[j] # intent[j] /\ intent[j].state # "PREPARED"
      BY <1>3 DEF Prepared
    <3> QED BY <3>1, <3>2, <3>3, <3>4 DEF IntentMove
  <2>2. Prepared(i) /\ ~IsOpen(i)
    BY <2>1 DEF Created, MayCreate, LaneIsFree
  <2>3. intent[i].state \in FinalStates
    BY <2>2 DEF CIInv, RowsTyped, Prepared, IsOpen
  <2>4. CASE intent[i].state = "EXPIRED"
    <3>1. Over(i)
      BY <2>4 DEF CIInv, Truth
    <3> QED BY <1>1, <2>2, <3>1
  <2>5. CASE intent[i].state # "EXPIRED"
    <3>1. intent[i].state \in Fates
      BY <2>3, <2>5 DEF FinalStates, Fates
    <3>2. chain[i] = [fate |-> intent[i].state, at |-> intent[i].at]
      BY <3>1 DEF CIInv, Truth
    <3>3. Landed(i)
      BY <3>1, <3>2 DEF Landed, Fates
    <3> QED BY <1>1, <2>2, <3>3
  <2> QED BY <2>4, <2>5
<1> QED BY <1>2, <1>3

\* createControlIntent: LaneInv is inductive beside CIInv.
THEOREM LaneInvariant == CISpec => [](CIInv /\ LaneInv)
<1>1. CIInit => LaneInv
  BY DEF CIInit, LaneInv, Prepared, NoIntent
<1>2. CIInv /\ LaneInv /\ [CINext]_ciVars => LaneInv'
  BY LaneStays
<1> QED BY <1>1, <1>2, ControlInvariant, PTL DEF CISpec

\* Once another control of the lane is prepared, the one before has had its
\* effect or never will: its envelope, broadcast now, does nothing.
THEOREM LaneIsExclusive == CISpec => []OneControlAtATime
<1>1. CIInv /\ LaneInv => OneControlAtATime
  BY DEF CIInv, RowsTyped, LaneInv, OneControlAtATime, CanLand, Over
<1> QED BY <1>1, LaneInvariant, PTL

-----------------------------------------------------------------------------
(* One answer of a key                                                     *)

KeyInv ==
  \A i \in Intents :
    /\ Prepared(i) => intent[i].key \notin refused
    /\ \A j \in Intents : Prepared(i) /\ Prepared(j) /\ intent[i].key = intent[j].key
                            /\ intent[i].key # NoKey => i = j

\* A creation is of a key that nothing holds and nothing refused.
LEMMA NewComers ==
  ASSUME CIInv, [CINext]_ciVars, NEW i \in Intents, ~Prepared(i), Prepared(i)'
  PROVE  /\ \A j \in Intents : j # i => intent'[j] = intent[j]
         /\ ~KeyIsUsed(intent'[i].key) /\ intent'[i].key \notin refused
         /\ refused' = refused
<1>1. PICK p \in Procs : Created(i, p)
  <2>1. IntentMove(i)
    BY IntentMoves
  <2>2. ASSUME NEW p \in Procs, proc[p].pc \in {"expiring", "projecting"}, proc[p].id = i
        PROVE FALSE
    BY <2>2 DEF CIInv, Sound
  <2>3. intent'[i] # intent[i] /\ intent[i].state # "PREPARED"
    BY DEF Prepared
  <2> QED BY <2>1, <2>2, <2>3 DEF IntentMove
<1>2. /\ \A j \in Intents : j # i => intent'[j] = intent[j]
      /\ intent'[i].key = proc[p].key
  BY <1>1 DEF Created, CIInv, RowsTyped
<1>3. refused' = refused
  <2>1. intent' # intent
    BY DEF Prepared
  <2>2. \A q \in Procs : ~SimulationFails(q)
    BY <2>1 DEF SimulationFails
  <2> QED BY <2>2, ZenonT(120) DEF CINext, ProcNext, BeginPreparation, CheckTimeBounds,
     TickSelects, CreateIntent, Claim, LookUp,
          LookUpExpiry, CronSelects, RecordService, Send, RecordAnswer, Project, Expire,
          RejectService, SignOutcome, ObserveSigned, ObserveService, Land, CloseLedger, Retire,
          rows, ciVars
<1> QED BY <1>1, <1>2, <1>3 DEF Created, MayCreate, Unrefused

\* A refusal is of a key that nothing holds.
LEMMA NewRefusals ==
  ASSUME CIInv, [CINext]_ciVars, NEW k \in refused', k \notin refused
  PROVE  intent' = intent /\ Holders(k) = {}
<1>1. ASSUME NEW p \in Procs, SimulationFails(p)
      PROVE  intent' = intent /\ Holders(k) = {}
  BY <1>1 DEF SimulationFails, MayRefuse, KeyIsUsed
<1>2. refused' = refused \/ \E p \in Procs : SimulationFails(p)
  BY ZenonT(120) DEF CINext, ProcNext, BeginPreparation, CheckTimeBounds, TickSelects,
     CreateIntent, Claim, LookUp,
     LookUpExpiry, CronSelects, RecordService, Send, RecordAnswer, Project, Expire,
     RejectService, SignOutcome, ObserveSigned, ObserveService, Land, CloseLedger, Retire,
     rows, ciVars
<1> QED BY <1>1, <1>2

LEMMA KeysStay ==
  ASSUME CIInv, KeyInv, [CINext]_ciVars
  PROVE  KeyInv'
<1>1. ASSUME NEW i \in Intents, Prepared(i)' PROVE intent'[i].key \notin refused'
  <2>1. CASE Prepared(i)
    <3>1. intent'[i].key = intent[i].key
      BY <2>1, PreparedStays
    <3>2. intent[i].key \notin refused
      BY <2>1 DEF KeyInv
    <3>3. i \in Holders(intent[i].key)
      BY <2>1 DEF Holders
    <3> QED BY <3>1, <3>2, <3>3, NewRefusals
  <2>2. CASE ~Prepared(i)
    BY <1>1, <2>2, NewComers
  <2> QED BY <2>1, <2>2
<1>2. ASSUME NEW i \in Intents, NEW j \in Intents, Prepared(i)', Prepared(j)',
             intent'[i].key = intent'[j].key, intent'[i].key # NoKey,
             ~Prepared(i), i # j
      PROVE  FALSE
  <2>1. /\ intent'[j] = intent[j] /\ ~KeyIsUsed(intent'[i].key)
    BY <1>2, NewComers
  <2>2. j \in Holders(intent'[i].key)
    BY <1>2, <2>1 DEF Holders, Prepared
  <2> QED BY <1>2, <2>1, <2>2 DEF KeyIsUsed
<1>3. ASSUME NEW i \in Intents, NEW j \in Intents, Prepared(i)', Prepared(j)',
             intent'[i].key = intent'[j].key, intent'[i].key # NoKey
      PROVE  i = j
  <2>1. CASE Prepared(i) /\ Prepared(j)
    BY <1>3, <2>1, PreparedStays DEF KeyInv
  <2>2. CASE ~Prepared(i) \/ ~Prepared(j)
    BY <1>2, <1>3, <2>2
  <2> QED BY <2>1, <2>2
<1> QED BY <1>1, <1>3 DEF KeyInv

\* A key names one control at most, and one refused for good names none.
THEOREM KeysAreAnsweredOnce == CISpec => []KeyHasOneAnswer
<1>1. CIInit => KeyInv
  BY DEF CIInit, KeyInv, Prepared, NoIntent
<1>2. CIInv /\ KeyInv /\ [CINext]_ciVars => KeyInv'
  BY KeysStay
<1>3. ASSUME KeyInv PROVE KeyHasOneAnswer
  <2> SUFFICES ASSUME NEW k \in Keys
               PROVE  /\ Cardinality(Holders(k)) <= 1
                      /\ k \in refused => Holders(k) = {}
    BY DEF KeyHasOneAnswer
  <2>1. k \in refused => Holders(k) = {}
    BY <1>3 DEF KeyInv, Holders
  <2>2. CASE Holders(k) = {}
    BY <2>1, <2>2, FS_EmptySet
  <2>3. CASE Holders(k) # {}
    <3>1. PICK i \in Intents : i \in Holders(k)
      BY <2>3 DEF Holders
    <3>2. k # NoKey
      BY ControlAssumption
    <3>3. Holders(k) = {i}
      BY <1>3, <3>1, <3>2 DEF KeyInv, Holders
    <3>4. Cardinality({i}) = 1
      BY FS_Singleton
    <3> QED BY <2>1, <3>3, <3>4
  <2> QED BY <2>2, <2>3
<1> QED BY <1>1, <1>2, <1>3, ControlInvariant, PTL DEF CISpec
-----------------------------------------------------------------------------
(* A lane implements ControlLane                                           *)

\* The fate of a control in each of the four situations it can be in.
LEMMA FateIs ==
  ASSUME CIInv, NEW i \in Intents
  PROVE  /\ ~Prepared(i) => FateOf(i) = "unborn"
         /\ Landed(i) => FateOf(i) = chain[i].fate
         /\ CanLand(i) => FateOf(i) = "alive"
         /\ Over(i) => FateOf(i) = "void"
         /\ Prepared(i) => Landed(i) \/ CanLand(i) \/ Over(i)
<1>1. Landed(i) => Prepared(i)
  BY DEF CIInv, Shape
<1>2. ledger \in Nat /\ intent[i].maxTime \in Nat
  BY DEF CIInv, RowsTyped
<1> QED BY <1>1, <1>2 DEF FateOf, CanLand, Over

\* Only a control whose intent is open can still land.
LEMMA LiveIsOpen ==
  ASSUME CIInv, NEW i \in Intents, CanLand(i)
  PROVE  IsOpen(i)
<1>1. /\ Truth(i) /\ ledger \in Nat /\ intent[i].maxTime \in Nat
      /\ intent[i].state \in {"none"} \cup OpenStates \cup FinalStates
  BY DEF CIInv, RowsTyped
<1>2. intent[i].state \notin Fates
  <2> SUFFICES ASSUME intent[i].state \in Fates PROVE FALSE
    OBVIOUS
  <2>1. chain[i].fate = intent[i].state
    BY <1>1 DEF Truth
  <2> QED BY <2>1 DEF CanLand, Landed, Fates
<1>3. intent[i].state # "EXPIRED"
  BY <1>1 DEF Truth, Over, CanLand
<1> QED BY <1>1, <1>2, <1>3 DEF CanLand, Prepared, IsOpen, FinalStates, Fates

\* Only the last control prepared can still land.
LEMMA OneIsLive ==
  ASSUME CIInv, LaneInv, NEW i \in Intents, NEW j \in Intents, CanLand(i), CanLand(j)
  PROVE  i = j
<1>1. /\ i \in Nat /\ j \in Nat /\ ledger \in Nat
      /\ intent[i].maxTime \in Nat /\ intent[j].maxTime \in Nat
  BY NumbersAreNatural DEF CIInv, RowsTyped
<1>2. ~Landed(i) /\ ~Over(i) /\ ~Landed(j) /\ ~Over(j) /\ Prepared(i) /\ Prepared(j)
  BY <1>1 DEF CanLand, Over
<1> QED BY <1>1, <1>2 DEF LaneInv

\* A fate is decided on the chain: a write to the books does not change it.
LEMMA FateStays ==
  ASSUME CIInv, [CINext]_ciVars, UNCHANGED <<ledger, chain>>,
         NEW i \in Intents, Prepared(i)' => Prepared(i)
  PROVE  FateOf(i)' = FateOf(i)
<1>1. Prepared(i)' = Prepared(i) /\ Landed(i)' = Landed(i)
  BY PreparedStays DEF Landed, Prepared
<1>2. CanLand(i)' = CanLand(i)
  BY <1>1, PreparedStays DEF CanLand
<1> QED BY <1>1, <1>2 DEF FateOf

LEMMA LandTakesEffect ==
  ASSUME CIInv, [CINext]_ciVars, NEW j \in Intents, Land(j)
  PROVE  Lane!TakeEffect(j)
<1>1. PICK fate \in Fates : chain' = [chain EXCEPT ![j] = [fate |-> fate, at |-> ledger]]
  BY DEF Land
<1>2. UNCHANGED <<ledger, intent, serviceState>> /\ CanLand(j) /\ Prepared(j)
  BY DEF Land, rows, CanLand
<1>3. chain'[j] = [fate |-> fate, at |-> ledger] /\ \A i \in Intents \ {j} : chain'[i] = chain[i]
  BY <1>1 DEF CIInv, RowsTyped
<1>4. FateOf(j) = "alive" /\ FateOf(j)' = fate
  <2>1. Prepared(j)' /\ Landed(j)' /\ ~CanLand(j)'
    BY <1>2, <1>3 DEF Prepared, Landed, CanLand, Fates
  <2> QED BY <1>2, <1>3, <2>1, FateIs DEF FateOf
<1>5. \A i \in Intents \ {j} : FateOf(i)' = FateOf(i)
  BY <1>2, <1>3 DEF FateOf, Prepared, Landed, CanLand
<1>6. \A i \in Intents : AnswerOf(i)' = AnswerOf(i)
  BY <1>2 DEF AnswerOf, IsOpen
<1> QED BY <1>2, <1>4, <1>5, <1>6 DEF Lane!TakeEffect, Lane!Effects, Fates

\* The one live control of the lane, if its time bounds end, becomes void.
LEMMA CloseVoids ==
  ASSUME CIInv, LaneInv, CloseLedger
  PROVE  (\E j \in Intents : Lane!BecomeVoid(j)) \/ UNCHANGED Lane!laneVars
<1>1. UNCHANGED <<chain, intent, serviceState>> /\ ledger \in Nat /\ ledger' = ledger + 1
  BY DEF CloseLedger, rows, CIInv, RowsTyped
<1>2. \A i \in Intents : AnswerOf(i)' = AnswerOf(i)
  BY <1>1 DEF AnswerOf, IsOpen
<1>3. \A i \in Intents : /\ Prepared(i)' = Prepared(i) /\ Landed(i)' = Landed(i)
                         /\ intent'[i].maxTime = intent[i].maxTime
                         /\ intent[i].maxTime \in Nat
  BY <1>1 DEF Prepared, Landed, CIInv, RowsTyped
<1>4. ASSUME NEW i \in Intents, CanLand(i)' = CanLand(i) PROVE FateOf(i)' = FateOf(i)
  BY <1>1, <1>3, <1>4 DEF FateOf
<1>5. CASE \A i \in Intents : CanLand(i)' = CanLand(i)
  BY <1>1, <1>2, <1>4, <1>5 DEF Lane!laneVars
<1>6. ASSUME NEW j \in Intents, CanLand(j)' # CanLand(j) PROVE Lane!BecomeVoid(j)
  <2>1. CanLand(j) /\ ~CanLand(j)' /\ Prepared(j) /\ ~Landed(j)
    BY <1>1, <1>3, <1>6 DEF CanLand
  <2>2. FateOf(j) = "alive"
    BY <2>1, FateIs
  <2>3. FateOf(j)' = "void"
    BY <1>3, <2>1 DEF FateOf
  <2>4. ASSUME NEW i \in Intents \ {j} PROVE FateOf(i)' = FateOf(i)
    <3>1. ~CanLand(i)
      BY <2>1, OneIsLive
    <3>2. ~CanLand(i)'
      BY <1>1, <1>3, <3>1 DEF CanLand
    <3>3. CanLand(i)' = CanLand(i)
      BY <3>1, <3>2 DEF CanLand
    <3> QED BY <1>4, <3>3
  <2> QED BY <1>1, <1>2, <2>2, <2>3, <2>4 DEF Lane!BecomeVoid
<1> QED BY <1>5, <1>6

LEMMA CreatePrepares ==
  ASSUME CIInv, [CINext]_ciVars, NEW p \in Procs, CreateIntent(p)
  PROVE  (\E j \in Intents : Lane!Prepare(j)) \/ UNCHANGED <<intent, chain, ledger, serviceState>>
<1>1. PICK j \in Intents :
        /\ ~Prepared(j) /\ \A i \in Intents : i < j => Prepared(i)
        /\ intent' = IF MayCreate(p)
                     THEN [intent EXCEPT ![j] =
                            [state |-> "PREPARED", at |-> 0, prepared |-> proc[p].at,
                             maxTime |-> proc[p].at + Validity, key |-> proc[p].key]]
                     ELSE intent
  BY DEF CreateIntent
<1>2. UNCHANGED <<ledger, chain, serviceState>>
  BY DEF CreateIntent
<1>3. ASSUME MayCreate(p) PROVE Lane!Prepare(j)
  <2>1. /\ intent'[j].state = "PREPARED" /\ intent'[j].maxTime = proc[p].at + Validity
        /\ \A i \in Intents \ {j} : intent'[i] = intent[i]
    BY <1>1, <1>3 DEF CIInv, RowsTyped
  <2>2. /\ serviceState = "ACTIVE" /\ serviceState' = "ACTIVE"
        /\ \A i \in Intents : ~IsOpen(i)
    BY <1>2, <1>3 DEF MayCreate, LaneIsFree
  <2>3. ~Landed(j) /\ ledger \in Nat /\ proc[p].at + Validity \in Nat
    <3>1. proc[p] \in Places /\ Shape(j) /\ ledger \in Nat
      BY DEF CIInv, RowsTyped
    <3> QED BY <1>1, <3>1, NumbersAreNatural DEF Places, Shape
  <2>4. FateOf(j) = "unborn"
    BY <1>1, FateIs
\* Prepared too late, it is void from the start.
  <2>5. FateOf(j)' = "alive" \/ FateOf(j)' = "void"
    <3>1. Prepared(j)' /\ ~Landed(j)'
      BY <1>2, <2>1, <2>3 DEF Prepared, Landed
    <3> QED BY <3>1 DEF FateOf
  <2>6. AnswerOf(j)' = "waiting"
    BY <2>1 DEF AnswerOf, IsOpen, OpenStates
  <2>7. \A i \in Intents \ {j} : FateOf(i)' = FateOf(i) /\ AnswerOf(i)' = AnswerOf(i)
    BY <1>2, <2>1 DEF FateOf, AnswerOf, Prepared, Landed, CanLand, IsOpen
  <2>8. \A i \in Intents : AnswerOf(i) # "waiting"
    BY <2>2 DEF AnswerOf, CIInv, RowsTyped, FinalStates, Fates, IsOpen, OpenStates
  <2> QED BY <2>2, <2>4, <2>5, <2>6, <2>7, <2>8 DEF Lane!Prepare, Lane!Waiting
<1> QED BY <1>1, <1>2, <1>3

\* A write to one control's row that keeps its answer, or gives it the fate's.
LEMMA BooksMove ==
  ASSUME CIInv, [CINext]_ciVars, UNCHANGED <<ledger, chain, serviceState>>,
         NEW j \in Intents, Prepared(j), \A i \in Intents \ {j} : intent'[i] = intent[i],
         \/ AnswerOf(j)' = AnswerOf(j)
         \/ IsOpen(j) /\ Landed(j) /\ AnswerOf(j)' = chain[j].fate
         \/ IsOpen(j) /\ Over(j) /\ AnswerOf(j)' = "EXPIRED"
  PROVE  Lane!Answer(j) \/ UNCHANGED Lane!laneVars
<1>1. \A i \in Intents : FateOf(i)' = FateOf(i)
  BY FateStays DEF Prepared
<1>2. \A i \in Intents \ {j} : AnswerOf(i)' = AnswerOf(i)
  BY DEF AnswerOf, IsOpen
<1>3. CASE AnswerOf(j)' = AnswerOf(j)
  BY <1>1, <1>2, <1>3 DEF Lane!laneVars
<1>4. CASE IsOpen(j) /\ Landed(j) /\ AnswerOf(j)' = chain[j].fate
  <2>1. FateOf(j) = chain[j].fate /\ FateOf(j) \in Fates
    BY <1>4, FateIs DEF Landed, CIInv, RowsTyped, Fates
  <2>2. AnswerOf(j) = "waiting" /\ AnswerOf(j)' = FateOf(j)
    BY <1>4, <2>1 DEF AnswerOf
  <2> QED BY <1>1, <1>2, <2>1, <2>2
          DEF Lane!Answer, Lane!Waiting, Lane!Verdict, Lane!Effects, Fates
<1>5. CASE IsOpen(j) /\ Over(j) /\ AnswerOf(j)' = "EXPIRED"
  <2>1. FateOf(j) = "void" /\ AnswerOf(j) = "waiting"
    BY <1>5, FateIs DEF AnswerOf
  <2> QED BY <1>1, <1>2, <1>5, <2>1
          DEF Lane!Answer, Lane!Waiting, Lane!Verdict, Lane!Effects
<1> QED BY <1>3, <1>4, <1>5

LEMMA BooksStepInLane ==
  ASSUME CIInv, [CINext]_ciVars, UNCHANGED <<ledger, chain, serviceState>>,
         NEW p \in Procs,
         Project(p) \/ Expire(p) \/ \E i \in Intents : Claim(p, i)
  PROVE  (\E j \in Intents : Lane!Answer(j)) \/ UNCHANGED Lane!laneVars
<1>0. Sound(proc[p])
  BY DEF CIInv
<1>1. ASSUME NEW j \in Intents, proc[p].id = j, Project(p) \/ Expire(p)
      PROVE  Lane!Answer(j) \/ UNCHANGED Lane!laneVars
  <2>1. /\ proc[p].pc \in {"projecting", "expiring"}
        /\ proc[p].pc = "projecting" <=> Project(p)
    BY <1>1 DEF Project, Expire
  <2>2. /\ Prepared(j)
        /\ proc[p].pc = "projecting" => /\ proc[p].state \in Fates
                                        /\ Landed(j) /\ chain[j].fate = proc[p].state
        /\ proc[p].pc = "expiring" => Over(j)
    BY <1>0, <1>1, <2>1 DEF Sound, Knows, Landed, Fates
  <2>3. \A i \in Intents \ {j} : intent'[i] = intent[i]
    BY <1>1 DEF Project, Expire, CIInv, RowsTyped
  <2>4. \/ AnswerOf(j)' = AnswerOf(j)
        \/ IsOpen(j) /\ Landed(j) /\ AnswerOf(j)' = chain[j].fate
        \/ IsOpen(j) /\ Over(j) /\ AnswerOf(j)' = "EXPIRED"
    <3>1. CASE intent'[j] = intent[j]
      BY <3>1 DEF AnswerOf, IsOpen
    <3>2. CASE Project(p) /\ intent'[j] # intent[j]
      <4>1. /\ NoConflict(j, proc[p].state, proc[p].at)
            /\ intent'[j].state = proc[p].state
        BY <1>1, <3>2 DEF Project, CIInv, RowsTyped
      <4>2. intent[j].state \in OpenStates \/ intent[j].state = proc[p].state
        BY <4>1 DEF NoConflict
      <4> QED BY <2>1, <2>2, <3>2, <4>1, <4>2 DEF AnswerOf, IsOpen, OpenStates, Fates
    <3>3. CASE Expire(p) /\ intent'[j] # intent[j]
      <4>1. IsOpen(j) /\ intent'[j].state = "EXPIRED"
        BY <1>1, <3>3 DEF Expire, CIInv, RowsTyped
      <4>2. Over(j)
        BY <2>2, <3>3 DEF Expire
      <4> QED BY <4>1, <4>2 DEF AnswerOf, IsOpen, OpenStates
    <3> QED BY <1>1, <3>1, <3>2, <3>3
  <2> QED BY <2>2, <2>3, <2>4, BooksMove
<1>2. ASSUME NEW i \in Intents, Claim(p, i)
      PROVE  Lane!Answer(i) \/ UNCHANGED Lane!laneVars
  <2>1. /\ Prepared(i) /\ \A k \in Intents \ {i} : intent'[k] = intent[k]
        /\ intent[i].state = "PREPARED" /\ intent'[i].state = "SUBMITTING"
    BY <1>2 DEF Claim, Prepared, CIInv, RowsTyped
  <2>2. AnswerOf(i)' = AnswerOf(i)
    BY <2>1 DEF AnswerOf, IsOpen, OpenStates
  <2> QED BY <2>1, <2>2, BooksMove
<1>3. Project(p) \/ Expire(p) => proc[p].id \in Intents
  BY <1>0 DEF Sound, Project, Expire
<1> QED BY <1>1, <1>2, <1>3

\* Every step takes the lane a step of ControlLane, or leaves it as it is.
LEMMA EveryStepIsTheLanes ==
  ASSUME CIInv, LaneInv, [CINext]_ciVars
  PROVE  [Lane!LaneNext]_(Lane!laneVars)
<1>1. ASSUME NEW j \in Intents, Land(j) PROVE Lane!LaneNext
  BY <1>1, LandTakesEffect DEF Lane!LaneNext
<1>2. CASE CloseLedger
  BY <1>2, CloseVoids DEF Lane!LaneNext
<1>3. CASE UNCHANGED <<intent, chain, ledger, serviceState>>
  BY <1>3 DEF Lane!laneVars, FateOf, AnswerOf, Prepared, Landed, CanLand, IsOpen
<1>4. ASSUME NEW p \in Procs, CreateIntent(p) PROVE [Lane!LaneNext]_(Lane!laneVars)
  BY <1>3, <1>4, CreatePrepares DEF Lane!LaneNext
<1>5. ASSUME NEW p \in Procs, Project(p) \/ Expire(p) \/ \E i \in Intents : Claim(p, i)
      PROVE  [Lane!LaneNext]_(Lane!laneVars)
  <2>1. UNCHANGED <<ledger, chain, serviceState>>
    BY <1>5 DEF Project, Expire, Claim
  <2> QED BY <1>5, <2>1, BooksStepInLane DEF Lane!LaneNext
<1>6. CASE Retire
  BY <1>6 DEF Retire, rows, Lane!LaneNext, Lane!Close, FateOf, AnswerOf, Prepared, Landed,
              CanLand, IsOpen
<1>7. ASSUME NEW p \in Procs, ProcNext(p)
      PROVE  \/ CreateIntent(p) \/ Project(p) \/ Expire(p)
             \/ \E i \in Intents : Claim(p, i)
             \/ UNCHANGED <<intent, chain, ledger, serviceState>>
  BY <1>7, ZenonT(120) DEF ProcNext, BeginPreparation, CheckTimeBounds, TickSelects,
     SimulationFails, LookUp, LookUpExpiry,
     CronSelects, RecordService, Send, RecordAnswer, RejectService, SignOutcome, rows
<1>8. \/ \E j \in Intents : Land(j)
      \/ CloseLedger \/ Retire
      \/ \E p \in Procs : ProcNext(p)
      \/ UNCHANGED <<intent, chain, ledger, serviceState>>
  BY DEF CINext, ObserveSigned, ObserveService, rows, ciVars
<1> QED BY <1>1, <1>2, <1>3, <1>4, <1>5, <1>6, <1>7, <1>8

\* createControlIntent, submitControlIntent, the wait, the lookups and the crons,
\* with all their crashes and replicas, implement a lane that answers each
\* control once, with its fate, and before it prepares the next.
THEOREM ControlsImplementLane == CISpec => LaneIsKept
<1>1. CIInit => Lane!LaneInit
  BY DEF CIInit, Lane!LaneInit, FateOf, AnswerOf, Prepared, Landed, CanLand, IsOpen, OpenStates,
     NoIntent
<1>2. CIInv /\ LaneInv /\ [CINext]_ciVars => [Lane!LaneNext]_(Lane!laneVars)
  BY EveryStepIsTheLanes
<1> QED BY <1>1, <1>2, LaneInvariant, PTL DEF CISpec, LaneIsKept, Lane!LaneSpec

\* reconcileRetirement waits for the intents: once the deployment retires and
\* none is open, no control lands any more, whatever its wallet does, and every
\* answer given stays.
THEOREM RetirementEndsTheLane ==
  CISpec => [][serviceState = "RETIRING" /\ (\A i \in Intents : ~IsOpen(i))
                 => /\ serviceState' = "RETIRING"
                    /\ \A i \in Intents : /\ ~Landed(i) => ~Landed(i)'
                                          /\ ~IsOpen(i)'
                                          /\ intent'[i] = intent[i]]_ciVars
<1>1. ASSUME CIInv, [CINext]_ciVars, serviceState = "RETIRING", \A i \in Intents : ~IsOpen(i)
      PROVE  /\ serviceState' = "RETIRING"
             /\ \A i \in Intents : /\ ~Landed(i) => ~Landed(i)'
                                   /\ ~IsOpen(i)'
                                   /\ intent'[i] = intent[i]
  <2>1. serviceState' = "RETIRING"
    BY <1>1, ZenonT(120) DEF CINext, ProcNext, BeginPreparation, CheckTimeBounds, TickSelects,
       SimulationFails, CreateIntent, Claim, LookUp,
       LookUpExpiry, CronSelects, RecordService, Send, RecordAnswer, Project, Expire,
       RejectService, SignOutcome, ObserveSigned, ObserveService, Land, CloseLedger, Retire,
       rows, ciVars
  <2>2. ASSUME NEW i \in Intents PROVE ~Landed(i) => ~Landed(i)'
    <3>1. ~CanLand(i)
      BY <1>1, LiveIsOpen
    <3>2. chain'[i] = chain[i]
      BY <1>1, <3>1, ChainMoves DEF ChainMove
    <3> QED BY <3>2 DEF Landed
  <2>3. ASSUME NEW i \in Intents PROVE intent'[i] = intent[i]
    <3>1. IntentMove(i)
      BY <1>1, IntentMoves
    <3>2. \A p \in Procs : ~Created(i, p)
      BY <1>1 DEF Created, MayCreate
    <3>3. intent[i].state # "PREPARED"
      BY <1>1 DEF IsOpen, OpenStates
    <3>4. ASSUME NEW p \in Procs, proc[p].pc = "projecting", proc[p].id = i,
                 NoConflict(i, proc[p].state, proc[p].at)
          PROVE  intent[i].state = proc[p].state /\ intent[i].at = proc[p].at
      <4>1. /\ intent[i].state = proc[p].state
            /\ proc[p].state \in Fates
            /\ chain[i] = [fate |-> proc[p].state, at |-> proc[p].at]
        BY <1>1, <3>4 DEF CIInv, Sound, Knows, NoConflict, IsOpen
      <4>2. chain[i] = [fate |-> intent[i].state, at |-> intent[i].at]
        BY <1>1, <4>1 DEF CIInv, Truth
      <4> QED BY <4>1, <4>2
    <3> QED BY <1>1, <3>1, <3>2, <3>3, <3>4, ZenonT(120) DEF IntentMove, CIInv, RowsTyped
  <2>4. \A i \in Intents : ~IsOpen(i)'
    BY <1>1, <2>3 DEF IsOpen
  <2> QED BY <2>1, <2>2, <2>3, <2>4
<1> QED BY <1>1, ControlInvariant, PTL DEF CISpec

=============================================================================
