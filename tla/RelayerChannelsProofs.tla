------------------------ MODULE RelayerChannelsProofs ------------------------
(***************************************************************************)
(* For any number of callers and channels: one caller per source, and, of  *)
(* callers that track what they send, one sequence number per envelope.    *)
(***************************************************************************)
EXTENDS RelayerChannels, TLAPS

-----------------------------------------------------------------------------
(* The pool and the chain                                                  *)

LanePlaces == {"lane", "working", "built", "polling"}

\* A caller outside acquire and release names no source.
HeldInv ==
  \A c \in Callers :
    /\ pc[c] \in {"idle", "woken", "waiting"} => held[c] = None
    /\ pc[c] \in {"checking", "settling"} => held[c] \in Slots
    /\ pc[c] = "lane" => held[c] = Relayer
    /\ pc[c] \in {"working", "built", "polling"} => held[c] \in Sources

\* The flag of a slot is up while somebody holds it, and it is one caller.
BusyInv ==
  \A c \in Callers : held[c] \in Slots /\ pc[c] \in InHold =>
    /\ busy[held[c]]
    /\ \A d \in Callers : held[d] = held[c] /\ pc[d] \in InHold => d = c

\* The queue of sleepers holds sleepers, each once.
WaitersInv ==
  /\ \A i \in 1..Len(waiters) : pc[waiters[i]] = "waiting"
  /\ \A i, j \in 1..Len(waiters) : waiters[i] = waiters[j] => i = j

\* The chain holds exactly the unfinished callers of the relayer's source,
\* and only its head is past the barrier.
LaneInv ==
  /\ \A i \in 1..Len(lane) : held[lane[i]] = Relayer /\ pc[lane[i]] \in LanePlaces
  /\ \A i \in 1..Len(lane) : i # 1 => pc[lane[i]] = "lane"
  /\ \A i, j \in 1..Len(lane) : lane[i] = lane[j] => i = j
  /\ \A c \in Callers : held[c] = Relayer /\ pc[c] # "done" =>
       \E i \in 1..Len(lane) : lane[i] = c

PoolInv == RCTypeOK /\ HeldInv /\ BusyInv /\ WaitersInv /\ LaneInv

\* What a step of c may do to the others: wake one of them.
OthersStay(c) ==
  \A d \in Callers \ {c} :
    /\ held'[d] = held[d] /\ net'[d] = net[d]
    /\ pc'[d] = pc[d] \/ (pc[d] = "waiting" /\ pc'[d] = "woken")

\* A caller whose turn it is: it holds a slot or heads the chain.
InTurn(c) == pc[c] \in InHold \/ (pc[c] = "lane" /\ lane[1] = c)

LEMMA WakeEffect ==
  ASSUME RCTypeOK, WaitersInv, NEW c \in Callers, pc[c] # "waiting",
         NEW place \in Places \ {"waiting"}, Wake([pc EXCEPT ![c] = place])
  PROVE  /\ pc' \in [Callers -> Places] /\ pc'[c] = place
         /\ \A d \in Callers \ {c} : pc'[d] = pc[d] \/ (pc[d] = "waiting" /\ pc'[d] = "woken")
         /\ waiters' \in Seq(Callers) /\ WaitersInv'
<1>1. CASE waiters = <<>>
  BY <1>1 DEF Wake, RCTypeOK, WaitersInv, Places
<1>2. CASE waiters # <<>>
  <2> DEFINE w == Head(waiters)
  <2>1. /\ pc' = [[pc EXCEPT ![c] = place] EXCEPT ![w] = "woken"]
        /\ waiters' = Tail(waiters)
    BY <1>2 DEF Wake
  <2>2. w = waiters[1] /\ w \in Callers /\ pc[w] = "waiting" /\ 1 \in 1..Len(waiters)
    BY <1>2 DEF RCTypeOK, WaitersInv
  <2>3. /\ waiters' \in Seq(Callers) /\ Len(waiters') = Len(waiters) - 1
        /\ \A i \in 1..Len(waiters') : waiters'[i] = waiters[i + 1] /\ i + 1 \in 1..Len(waiters)
    BY <1>2, <2>1 DEF RCTypeOK
  <2>4. pc' \in [Callers -> Places] /\ pc'[c] = place
    BY <2>1, <2>2 DEF RCTypeOK, Places
  <2>5. \A d \in Callers \ {c} : pc'[d] = pc[d] \/ (pc[d] = "waiting" /\ pc'[d] = "woken")
    BY <2>1, <2>2 DEF RCTypeOK
  <2>6. ASSUME NEW i \in 1..Len(waiters') PROVE pc'[waiters'[i]] = "waiting"
    <3>1. waiters[i + 1] # w /\ pc[waiters[i + 1]] = "waiting" /\ waiters[i + 1] \in Callers
      <4>1. i + 1 \in 1..Len(waiters) /\ i + 1 # 1
        BY <2>3
      <4> QED BY <2>2, <4>1 DEF WaitersInv, RCTypeOK
    <3> QED BY <2>1, <2>3, <3>1 DEF RCTypeOK
  <2>7. \A i, j \in 1..Len(waiters') : waiters'[i] = waiters'[j] => i = j
    BY <2>3 DEF WaitersInv
  <2> QED BY <2>3, <2>4, <2>5, <2>6, <2>7 DEF WaitersInv
<1> QED BY <1>1, <1>2

\* A caller that leaves lets go of its source and of nothing else.
LEMMA LeaveKeepsPool ==
  ASSUME PoolInv, NEW c \in Callers, InTurn(c), Leave(c), held' = held,
         \A d \in Callers \ {c} : net'[d] = net[d],
         disabled' \in [Slots -> BOOLEAN], pending' \in [Sources -> Callers \cup {None}],
         net' \in [Callers -> {"none", "built", "flying", "over"}]
  PROVE  PoolInv' /\ OthersStay(c) /\ pc'[c] = "done"
<1> USE DEF PoolInv
<1>1. CASE held[c] = Relayer
  <2>1. PICK i \in 1..Len(lane) : lane[i] = c
    BY <1>1 DEF LaneInv, InTurn, InHold
  <2>2. i = 1
    BY <2>1 DEF LaneInv, InTurn, InHold
  <2>3. /\ pc' = [pc EXCEPT ![c] = "done"] /\ lane' = Tail(lane)
        /\ UNCHANGED <<busy, waiters>>
    BY <1>1, ChannelsAssumption DEF Leave, ChannelsAssumption
  <2>4. /\ lane' \in Seq(Callers) /\ Len(lane') = Len(lane) - 1
        /\ \A j \in 1..Len(lane') : lane'[j] = lane[j + 1] /\ j + 1 \in 1..Len(lane)
    BY <2>1, <2>3 DEF RCTypeOK
  <2>5. RCTypeOK'
    BY <2>3, <2>4 DEF RCTypeOK, Places
  <2>6. WaitersInv' /\ HeldInv'
    BY <2>3 DEF WaitersInv, HeldInv, InTurn, InHold, RCTypeOK
  <2>7. BusyInv'
    BY <2>3 DEF BusyInv, RCTypeOK, InHold
  <2>8. LaneInv'
    <3>1. ASSUME NEW j \in 1..Len(lane') PROVE lane'[j] # c /\ lane'[j] \in Callers
      <4>1. lane'[j] = lane[j + 1] /\ j + 1 \in 1..Len(lane) /\ j + 1 # 1
        BY <2>4
      <4> QED BY <2>1, <2>2, <4>1 DEF LaneInv, RCTypeOK
    <3>2. ASSUME NEW d \in Callers, held'[d] = Relayer, pc'[d] # "done"
          PROVE  \E j \in 1..Len(lane') : lane'[j] = d
      <4>1. d # c /\ pc[d] # "done" /\ held[d] = Relayer
        BY <2>3, <3>2 DEF RCTypeOK
      <4>2. PICK k \in 1..Len(lane) : lane[k] = d
        BY <4>1 DEF LaneInv
      <4>3. k # 1 /\ k - 1 \in 1..Len(lane') /\ lane'[k - 1] = d
        BY <2>1, <2>2, <2>4, <4>1, <4>2 DEF RCTypeOK
      <4> QED BY <4>3
    <3>3. \A j \in 1..Len(lane') : pc'[lane'[j]] = pc[lane'[j]] /\ held'[lane'[j]] = held[lane'[j]]
      BY <2>3, <3>1 DEF RCTypeOK
    <3>4. \A j \in 1..Len(lane') : held[lane'[j]] = Relayer /\ pc[lane'[j]] = "lane"
      <4> SUFFICES ASSUME NEW j \in 1..Len(lane')
                   PROVE  held[lane'[j]] = Relayer /\ pc[lane'[j]] = "lane"
        OBVIOUS
      <4>1. lane'[j] = lane[j + 1] /\ j + 1 \in 1..Len(lane) /\ j + 1 # 1
        BY <2>4
      <4> QED BY <4>1 DEF LaneInv
    <3>5. \A j, k \in 1..Len(lane') : lane'[j] = lane'[k] => j = k
      <4> SUFFICES ASSUME NEW j \in 1..Len(lane'), NEW k \in 1..Len(lane'), lane'[j] = lane'[k]
                   PROVE  j = k
        OBVIOUS
      <4>1. lane[j + 1] = lane[k + 1] /\ j + 1 \in 1..Len(lane) /\ k + 1 \in 1..Len(lane)
        BY <2>4
      <4> QED BY <4>1 DEF LaneInv
    <3> QED BY <3>2, <3>3, <3>4, <3>5 DEF LaneInv, LanePlaces
  <2> QED BY <2>3, <2>5, <2>6, <2>7, <2>8 DEF OthersStay, RCTypeOK
<1>2. CASE held[c] \in Slots
  <2>1. /\ busy' = [busy EXCEPT ![held[c]] = FALSE] /\ lane' = lane
        /\ Wake([pc EXCEPT ![c] = "done"])
    BY <1>2, ChannelsAssumption DEF Leave, ChannelsAssumption
  <2>2. /\ pc' \in [Callers -> Places] /\ pc'[c] = "done"
        /\ \A d \in Callers \ {c} : pc'[d] = pc[d] \/ (pc[d] = "waiting" /\ pc'[d] = "woken")
        /\ waiters' \in Seq(Callers) /\ WaitersInv'
    BY <2>1, WakeEffect DEF InTurn, InHold, Places
  <2>3. RCTypeOK'
    BY <2>1, <2>2 DEF RCTypeOK
  <2>4. HeldInv'
    BY <2>2 DEF HeldInv
  <2>5. BusyInv'
    <3>1. \A d \in Callers : pc'[d] \in InHold => d # c /\ pc[d] = pc'[d]
      BY <2>2 DEF InHold
    <3>2. pc[c] \in InHold
      BY <1>2, ChannelsAssumption DEF InTurn, HeldInv, ChannelsAssumption
    <3> QED BY <1>2, <2>1, <3>1, <3>2 DEF BusyInv, RCTypeOK
  <2>6. LaneInv'
    <3>1. \A i \in 1..Len(lane) : lane[i] \in Callers \ {c}
      BY <1>2, ChannelsAssumption DEF LaneInv, RCTypeOK, ChannelsAssumption
    <3>2. \A d \in Callers \ {c} : held[d] = Relayer => pc'[d] = pc[d]
      BY <2>2, ChannelsAssumption DEF HeldInv, ChannelsAssumption, Sources
    <3>3. \A i \in 1..Len(lane) : pc'[lane[i]] = pc[lane[i]]
      BY <3>1, <3>2 DEF LaneInv
    <3> QED BY <1>2, <2>1, <2>2, <3>2, <3>3, SMTT(30) DEF LaneInv
  <2> QED BY <2>2, <2>3, <2>4, <2>5, <2>6 DEF OthersStay
<1> QED BY <1>1, <1>2 DEF Leave

\* A step that moves c alone, within a turn, between places that hold the
\* same source.
LEMMA MoveKeepsPool ==
  ASSUME PoolInv, NEW c \in Callers, InTurn(c), NEW place \in {"settling", "working", "built", "polling"},
         pc' = [pc EXCEPT ![c] = place], held' = held, UNCHANGED <<poolVars, lane>>,
         pc[c] = "checking" \/ place # "settling", 
         pc[c] = "checking" => place = "settling",
         \A d \in Callers \ {c} : net'[d] = net[d],
         pending' \in [Sources -> Callers \cup {None}],
         net' \in [Callers -> {"none", "built", "flying", "over"}]
  PROVE  PoolInv' /\ OthersStay(c) /\ pc'[c] = place
<1> USE DEF PoolInv, poolVars
<1>1. RCTypeOK' /\ OthersStay(c) /\ pc'[c] = place
  BY DEF RCTypeOK, Places, OthersStay
<1>2. HeldInv'
  BY <1>1 DEF HeldInv, InTurn, InHold, RCTypeOK, Sources
<1>3. BusyInv'
  <2>1. held[c] \in Slots => pc[c] \in InHold
    BY ChannelsAssumption DEF InTurn, HeldInv, ChannelsAssumption
  <2> QED BY <1>1, <2>1 DEF BusyInv, RCTypeOK, OthersStay, InHold
<1>4. WaitersInv'
  BY DEF WaitersInv, RCTypeOK, InTurn, InHold
<1>5. LaneInv'
  <2>1. \A i \in 1..Len(lane) : lane[i] = c => i = 1 /\ place \in LanePlaces
    BY ChannelsAssumption DEF LaneInv, InTurn, InHold, LanePlaces, HeldInv, ChannelsAssumption, RCTypeOK
  <2>2. \A i \in 1..Len(lane) : lane[i] \in Callers
    BY DEF RCTypeOK
  <2>3. held[c] = Relayer => pc[c] # "done"
    BY DEF InTurn, InHold
  <2>4. \A d \in Callers \ {c} : pc'[d] = pc[d]
    BY DEF RCTypeOK
  <2>5. \A i \in 1..Len(lane) : pc'[lane[i]] = IF lane[i] = c THEN place ELSE pc[lane[i]]
    BY <1>1, <2>2, <2>4
  <2> QED BY <2>1, <2>3, <2>4, <2>5 DEF LaneInv
<1> QED BY <1>1, <1>2, <1>3, <1>4, <1>5

\* The slot a look takes had nobody on it: its flag was down.
LEMMA TakeKeepsPool ==
  ASSUME PoolInv, NEW c \in Callers, Take(c) PROVE PoolInv' /\ OthersStay(c)
<1> USE DEF PoolInv
<1>1. PICK s \in Slots : /\ ~busy[s]
                        /\ busy' = [busy EXCEPT ![s] = TRUE]
                        /\ held' = [held EXCEPT ![c] = s]
  BY DEF Take, Free, Reserve
<1>2. /\ pc' = [pc EXCEPT ![c] = "checking"] /\ pc[c] \in {"idle", "woken"} /\ held[c] = None
      /\ UNCHANGED <<disabled, waiters, lane, pending, net>>
  BY DEF Take, Looking, HeldInv
<1>3. RCTypeOK'
  BY <1>1, <1>2 DEF RCTypeOK, Places, Sources
<1>4. OthersStay(c)
  BY <1>1, <1>2 DEF OthersStay, RCTypeOK
<1>5. HeldInv'
  BY <1>1, <1>2 DEF HeldInv, RCTypeOK
<1>6. BusyInv'
  BY <1>1, <1>2 DEF BusyInv, RCTypeOK, InHold
<1>7. WaitersInv'
  BY <1>2 DEF WaitersInv, RCTypeOK
<1>8. LaneInv'
  <2>1. None # Relayer /\ s # Relayer
    BY ChannelsAssumption DEF ChannelsAssumption, Sources
  <2>2. \A i \in 1..Len(lane) : lane[i] \in Callers \ {c}
    BY <1>2, <2>1 DEF LaneInv, RCTypeOK
  <2>3. \A d \in Callers \ {c} : pc'[d] = pc[d] /\ held'[d] = held[d]
    BY <1>1, <1>2 DEF RCTypeOK
  <2>4. held'[c] # Relayer
    BY <1>1, <2>1 DEF RCTypeOK
  <2>5. \A i \in 1..Len(lane) : pc'[lane[i]] = pc[lane[i]] /\ held'[lane[i]] = held[lane[i]]
    BY <2>2, <2>3
  <2> QED BY <1>2, <2>3, <2>4, <2>5 DEF LaneInv
<1> QED BY <1>3, <1>4, <1>5, <1>6, <1>7, <1>8

LEMMA FallBackKeepsPool ==
  ASSUME PoolInv, NEW c \in Callers, FallBack(c) PROVE PoolInv' /\ OthersStay(c)
<1> USE DEF PoolInv
<1>1. /\ pc[c] \in {"idle", "woken"} /\ held[c] = None
      /\ Wake([pc EXCEPT ![c] = "lane"])
      /\ held' = [held EXCEPT ![c] = Relayer] /\ lane' = Append(lane, c)
      /\ UNCHANGED <<busy, disabled, pending, net>>
  BY DEF FallBack, NullPassesTheWake, Looking, HeldInv
<1>2. /\ pc' \in [Callers -> Places] /\ pc'[c] = "lane"
      /\ \A d \in Callers \ {c} : pc'[d] = pc[d] \/ (pc[d] = "waiting" /\ pc'[d] = "woken")
      /\ waiters' \in Seq(Callers) /\ WaitersInv'
  BY <1>1, WakeEffect DEF Places
<1>3. /\ lane' \in Seq(Callers) /\ Len(lane') = Len(lane) + 1 /\ lane'[Len(lane')] = c
      /\ \A i \in 1..Len(lane) : lane'[i] = lane[i] /\ i \in 1..Len(lane')
      /\ Len(lane) \in Nat
  BY <1>1 DEF RCTypeOK
<1>4. RCTypeOK'
  BY <1>1, <1>2, <1>3 DEF RCTypeOK, Sources
<1>5. OthersStay(c)
  BY <1>1, <1>2 DEF OthersStay, RCTypeOK
<1>6. HeldInv'
  BY <1>1, <1>2 DEF HeldInv, RCTypeOK
<1>7. None # Relayer /\ Relayer \notin Slots
  BY ChannelsAssumption DEF ChannelsAssumption, Sources
<1>8. BusyInv'
  <2>1. \A d \in Callers : pc'[d] \in InHold => d # c /\ pc'[d] = pc[d]
    BY <1>2 DEF InHold
  <2> QED BY <1>1, <2>1 DEF BusyInv, RCTypeOK
<1>9. LaneInv'
  <2>1. \A i \in 1..Len(lane) : lane[i] \in Callers \ {c}
    BY <1>1, <1>7 DEF LaneInv, RCTypeOK
  <2>2. \A d \in Callers \ {c} : held'[d] = held[d] /\ (held[d] = Relayer => pc'[d] = pc[d])
    BY <1>1, <1>2, <1>7 DEF HeldInv, RCTypeOK
  <2>3. \A i \in 1..Len(lane) : held'[lane[i]] = Relayer /\ pc'[lane[i]] = pc[lane[i]]
    BY <2>1, <2>2 DEF LaneInv
  <2>4. \A i \in 1..Len(lane') : i \in 1..Len(lane) \/ i = Len(lane) + 1
    BY <1>3
  <2>5. held'[c] = Relayer
    BY <1>1 DEF RCTypeOK
  <2>6. \A i \in 1..Len(lane') : held'[lane'[i]] = Relayer /\ pc'[lane'[i]] \in LanePlaces
    BY <1>2, <1>3, <2>3, <2>4, <2>5 DEF LaneInv, LanePlaces
  <2>7. \A i \in 1..Len(lane') : i # 1 => pc'[lane'[i]] = "lane"
    BY <1>2, <1>3, <2>3, <2>4 DEF LaneInv
  <2>8. \A i, j \in 1..Len(lane') : lane'[i] = lane'[j] => i = j
    BY <1>3, <2>1, <2>4 DEF LaneInv
  <2>9. ASSUME NEW d \in Callers, held'[d] = Relayer, pc'[d] # "done"
        PROVE  \E i \in 1..Len(lane') : lane'[i] = d
    <3>1. CASE d = c
      BY <1>3, <3>1
    <3>2. CASE d # c
      <4>1. held[d] = Relayer /\ pc[d] # "done"
        BY <2>2, <2>9, <3>2
      <4> QED BY <1>3, <4>1 DEF LaneInv
    <3> QED BY <3>1, <3>2
  <2> QED BY <2>6, <2>7, <2>8, <2>9 DEF LaneInv
<1> QED BY <1>2, <1>4, <1>5, <1>6, <1>8, <1>9

LEMMA SleepKeepsPool ==
  ASSUME PoolInv, NEW c \in Callers, Sleep(c) PROVE PoolInv' /\ OthersStay(c)
<1> USE DEF PoolInv
<1>1. /\ pc[c] \in {"idle", "woken"} /\ held[c] = None
      /\ pc' = [pc EXCEPT ![c] = "waiting"] /\ waiters' = Append(waiters, c)
      /\ UNCHANGED <<held, busy, disabled, lane, pending, net>>
  BY DEF Sleep, Looking, HeldInv
<1>2. /\ waiters' \in Seq(Callers) /\ Len(waiters') = Len(waiters) + 1
      /\ waiters'[Len(waiters')] = c /\ Len(waiters) \in Nat
      /\ \A i \in 1..Len(waiters) : waiters'[i] = waiters[i]
      /\ \A i \in 1..Len(waiters') : i \in 1..Len(waiters) \/ i = Len(waiters')
  BY <1>1 DEF RCTypeOK
<1>3. RCTypeOK' /\ OthersStay(c)
  BY <1>1, <1>2 DEF RCTypeOK, Places, OthersStay
<1>4. HeldInv' /\ BusyInv'
  BY <1>1 DEF HeldInv, BusyInv, RCTypeOK, InHold
<1>5. \A i \in 1..Len(waiters) : waiters[i] \in Callers \ {c}
  BY <1>1 DEF WaitersInv, RCTypeOK
<1>6. WaitersInv'
  <2>1. \A i \in 1..Len(waiters') : pc'[waiters'[i]] = "waiting"
    BY <1>1, <1>2, <1>5 DEF WaitersInv, RCTypeOK
  <2>2. \A i, j \in 1..Len(waiters') : waiters'[i] = waiters'[j] => i = j
    BY <1>2, <1>5 DEF WaitersInv
  <2> QED BY <2>1, <2>2 DEF WaitersInv
<1>7. LaneInv'
  <2>1. None # Relayer
    BY ChannelsAssumption DEF ChannelsAssumption, Sources
  <2>2. \A i \in 1..Len(lane) : lane[i] \in Callers \ {c}
    BY <1>1, <2>1 DEF LaneInv, RCTypeOK
  <2>3. \A i \in 1..Len(lane) : pc'[lane[i]] = pc[lane[i]]
    BY <1>1, <2>2 DEF RCTypeOK
  <2> QED BY <1>1, <2>1, <2>3 DEF LaneInv, RCTypeOK
<1> QED BY <1>3, <1>4, <1>6, <1>7

LEMMA UnusableKeepsPool ==
  ASSUME PoolInv, NEW c \in Callers, Unusable(c) PROVE PoolInv' /\ OthersStay(c)
<1> USE DEF PoolInv
<1>1. /\ pc[c] = "checking" /\ held[c] \in Slots
      /\ busy' = [busy EXCEPT ![held[c]] = FALSE]
      /\ disabled' = [disabled EXCEPT ![held[c]] = TRUE]
      /\ held' = [held EXCEPT ![c] = None] /\ Wake([pc EXCEPT ![c] = "woken"])
      /\ UNCHANGED <<lane, pending, net>>
  BY DEF Unusable, HeldInv
<1>2. /\ pc' \in [Callers -> Places] /\ pc'[c] = "woken"
      /\ \A d \in Callers \ {c} : pc'[d] = pc[d] \/ (pc[d] = "waiting" /\ pc'[d] = "woken")
      /\ waiters' \in Seq(Callers) /\ WaitersInv'
  BY <1>1, WakeEffect DEF Places
<1>3. RCTypeOK'
  BY <1>1, <1>2 DEF RCTypeOK
<1>4. OthersStay(c) /\ HeldInv'
  BY <1>1, <1>2 DEF OthersStay, HeldInv, RCTypeOK
<1>5. BusyInv'
  <2>1. \A d \in Callers : pc'[d] \in InHold => d # c /\ pc'[d] = pc[d] /\ held'[d] = held[d]
    BY <1>1, <1>2 DEF InHold, RCTypeOK
  <2>2. pc[c] \in InHold
    BY <1>1 DEF InHold
  <2> QED BY <1>1, <2>1, <2>2 DEF BusyInv, RCTypeOK
<1>6. LaneInv'
  <2>1. None # Relayer /\ held[c] # Relayer
    BY <1>1, ChannelsAssumption DEF ChannelsAssumption, Sources
  <2>2. \A i \in 1..Len(lane) : lane[i] \in Callers \ {c}
    BY <2>1 DEF LaneInv, RCTypeOK
  <2>3. \A d \in Callers \ {c} : held'[d] = held[d] /\ (held[d] = Relayer => pc'[d] = pc[d])
    BY <1>1, <1>2, <2>1 DEF HeldInv, RCTypeOK
  <2>4. held'[c] # Relayer
    BY <1>1, <2>1 DEF RCTypeOK
  <2>5. \A i \in 1..Len(lane) : held'[lane[i]] = Relayer /\ pc'[lane[i]] = pc[lane[i]]
    BY <2>2, <2>3 DEF LaneInv
  <2> QED BY <1>1, <2>3, <2>4, <2>5 DEF LaneInv
<1> QED BY <1>2, <1>3, <1>4, <1>5, <1>6

\* Whoever is at the barrier or past it is in turn.
LEMMA BarrierIsTurn ==
  ASSUME PoolInv, NEW c \in Callers, AtBarrier(c)
  PROVE  InTurn(c) /\ pc[c] # "checking" /\ held[c] \in Sources
BY DEF AtBarrier, InTurn, InHold, PoolInv, HeldInv, Sources

LEMMA HoldKeepsPool ==
  ASSUME PoolInv, NEW c \in Callers, HoldStep(c) PROVE PoolInv' /\ OthersStay(c)
<1>1. held[c] \in Sources
  BY BarrierIsTurn DEF HoldStep, PendingSettled, PendingUnknown, Build, BuildFails, Abandon,
     SendQueued, SendUnanswered, SendRefused, PollFinal, PollTimesOut, PoolInv, HeldInv
<1>2. RCTypeOK
  BY DEF PoolInv
<1>3. CASE PendingSettled(c)
  <2>1. pending' \in [Sources -> Callers \cup {None}] /\ net' = net
    BY <1>1, <1>2, <1>3 DEF PendingSettled, RCTypeOK
  <2> QED BY <1>2, <1>3, <2>1, BarrierIsTurn, MoveKeepsPool DEF PendingSettled, RCTypeOK
<1>4. CASE PendingUnknown(c)
  BY <1>2, <1>4, BarrierIsTurn, LeaveKeepsPool DEF PendingUnknown, RCTypeOK
<1>5. CASE Build(c)
  <2>1. /\ net' \in [Callers -> {"none", "built", "flying", "over"}]
        /\ \A d \in Callers \ {c} : net'[d] = net[d]
    BY <1>2, <1>5 DEF Build, RCTypeOK
  <2>2. InTurn(c) /\ pc[c] # "checking"
    BY <1>5 DEF Build, InTurn, InHold
  <2> QED BY <1>2, <1>5, <2>1, <2>2, MoveKeepsPool DEF Build, RCTypeOK
<1>6. CASE BuildFails(c)
  <2>1. disabled' \in [Slots -> BOOLEAN] /\ InTurn(c)
    BY <1>2, <1>6 DEF BuildFails, RCTypeOK, InTurn, InHold
  <2> QED BY <1>2, <1>6, <2>1, LeaveKeepsPool DEF BuildFails, RCTypeOK
<1>7. CASE Abandon(c) \/ SendUnanswered(c) \/ SendRefused(c)
  <2>1. /\ net' \in [Callers -> {"none", "built", "flying", "over"}]
        /\ \A d \in Callers \ {c} : net'[d] = net[d]
    BY <1>2, <1>7 DEF Abandon, SendUnanswered, SendRefused, RCTypeOK
  <2>2. pending' \in [Sources -> Callers \cup {None}]
    BY <1>1, <1>2, <1>7 DEF Abandon, SendUnanswered, SendRefused, Track, RCTypeOK
  <2>3. InTurn(c) /\ Leave(c) /\ UNCHANGED <<held, disabled>>
    BY <1>7 DEF Abandon, SendUnanswered, SendRefused, InTurn, InHold
  <2> QED BY <1>2, <2>1, <2>2, <2>3, LeaveKeepsPool DEF RCTypeOK
<1>8. CASE SendQueued(c)
  <2>1. /\ net' \in [Callers -> {"none", "built", "flying", "over"}]
        /\ \A d \in Callers \ {c} : net'[d] = net[d]
    BY <1>2, <1>8 DEF SendQueued, RCTypeOK
  <2>2. pending' \in [Sources -> Callers \cup {None}]
    BY <1>1, <1>2, <1>8 DEF SendQueued, Track, RCTypeOK
  <2>3. InTurn(c) /\ pc[c] # "checking" /\ held' = held
    BY <1>8 DEF SendQueued, InTurn, InHold
  <2>4. CASE Leave(c) /\ UNCHANGED disabled
    BY <1>2, <2>1, <2>2, <2>3, <2>4, LeaveKeepsPool DEF RCTypeOK
  <2>5. CASE pc' = [pc EXCEPT ![c] = "polling"] /\ UNCHANGED <<poolVars, lane>>
    BY <2>1, <2>2, <2>3, <2>5, MoveKeepsPool
  <2> QED BY <1>8, <2>4, <2>5 DEF SendQueued
<1>9. CASE PollFinal(c) \/ PollTimesOut(c)
  <2>1. pending' \in [Sources -> Callers \cup {None}] /\ net' = net
    BY <1>1, <1>2, <1>9 DEF PollFinal, PollTimesOut, ClearPending, RCTypeOK
  <2>2. InTurn(c) /\ Leave(c) /\ UNCHANGED <<held, disabled>>
    BY <1>9 DEF PollFinal, PollTimesOut, InTurn, InHold
  <2> QED BY <1>2, <2>1, <2>2, LeaveKeepsPool DEF RCTypeOK
<1> QED BY <1>3, <1>4, <1>5, <1>6, <1>7, <1>8, <1>9 DEF HoldStep

LEMMA AcquireKeepsPool ==
  ASSUME PoolInv, NEW c \in Callers, AcquireStep(c) PROVE PoolInv' /\ OthersStay(c)
<1>1. CASE Usable(c)
  <2>1. InTurn(c)
    BY <1>1 DEF Usable, InTurn, InHold
  <2> QED BY <1>1, <2>1, MoveKeepsPool DEF Usable, PoolInv, RCTypeOK
<1> QED BY <1>1, TakeKeepsPool, FallBackKeepsPool, SleepKeepsPool, UnusableKeepsPool DEF AcquireStep

\* Time and the network move nothing of the pool's bookkeeping.
LEMMA EnvironmentKeepsPool ==
  ASSUME PoolInv, (\E c \in Callers : Over(c)) \/ (\E s \in Slots : Enable(s))
  PROVE  PoolInv' /\ UNCHANGED <<pc, held, busy, waiters, lane, pending>>
<1>1. UNCHANGED <<pc, held, busy, waiters, lane, pending>>
  BY DEF Over, Enable, poolVars
<1>2. RCTypeOK'
  BY DEF Over, Enable, poolVars, PoolInv, RCTypeOK
<1> QED BY <1>1, <1>2 DEF PoolInv, HeldInv, BusyInv, WaitersInv, LaneInv

LEMMA PoolInvariant == RCSpec => []PoolInv
<1>1. RCInit => PoolInv
  <2> SUFFICES ASSUME RCInit PROVE PoolInv
    OBVIOUS
  <2>1. None # Relayer
    BY ChannelsAssumption DEF ChannelsAssumption, Sources
  <2>2. RCTypeOK
    BY DEF RCInit, RCTypeOK, Places
  <2>3. HeldInv /\ BusyInv
    BY DEF RCInit, HeldInv, BusyInv, InHold
  <2>4. WaitersInv /\ LaneInv
    BY <2>1 DEF RCInit, WaitersInv, LaneInv
  <2> QED BY <2>2, <2>3, <2>4 DEF PoolInv
<1>2. PoolInv /\ [RCNext]_vars => PoolInv'
  <2> SUFFICES ASSUME PoolInv, [RCNext]_vars PROVE PoolInv'
    OBVIOUS
  <2>1. CASE UNCHANGED vars
    BY <2>1 DEF vars, PoolInv, RCTypeOK, HeldInv, BusyInv, WaitersInv, LaneInv
  <2> QED BY <2>1, AcquireKeepsPool, HoldKeepsPool, EnvironmentKeepsPool DEF RCNext
<1> QED BY <1>1, <1>2, PTL DEF RCSpec

\* The queues and flags of relayer-channels.ts keep their types in every
\* behaviour, with any number of callers and channels.
THEOREM RelayerTypeCorrect == RCSpec => []RCTypeOK
BY PoolInvariant, PTL DEF PoolInv

\* A source has one holder: slots by their flag, the relayer by its chain.
LEMMA OneHolder ==
  ASSUME PoolInv, NEW c \in Callers, NEW d \in Callers, held[c] \in Sources, held[c] = held[d],
         pc[c] \in InHold, pc[d] \in InHold
  PROVE  c = d
<1>1. CASE held[c] \in Slots
  BY <1>1 DEF PoolInv, BusyInv
<1>2. CASE held[c] = Relayer
  <2>1. PICK i \in 1..Len(lane) : lane[i] = c
    BY <1>2 DEF PoolInv, LaneInv, InHold
  <2>2. PICK j \in 1..Len(lane) : lane[j] = d
    BY <1>2 DEF PoolInv, LaneInv, InHold
  <2> QED BY <2>1, <2>2 DEF PoolInv, LaneInv, InHold
<1> QED BY <1>1, <1>2 DEF Sources

\* withRelayerChannel gives a source to one caller at a time, however many
\* callers and channels there are.
THEOREM ChannelsAreExclusive == RCSpec => []ChannelExclusive
<1>1. PoolInv => ChannelExclusive
  BY OneHolder DEF ChannelExclusive, AtMostOneOf, Holders
<1> QED BY <1>1, PoolInvariant, PTL

-----------------------------------------------------------------------------
(* Sleepers                                                                *)

LEMMA WakeLeavesOneAwake ==
  ASSUME RCTypeOK, NEW p \in [Callers -> Places], Wake(p)
  PROVE  waiters' # <<>> => \E c \in Callers : pc'[c] = "woken"
<1>1. CASE waiters # <<>>
  <2>1. Head(waiters) \in Callers /\ pc' = [p EXCEPT ![Head(waiters)] = "woken"]
    BY <1>1 DEF Wake, RCTypeOK
  <2> QED BY <2>1
<1>2. CASE waiters = <<>>
  BY <1>2 DEF Wake
<1> QED BY <1>1, <1>2

\* Leaving the chain frees no slot; leaving a slot wakes the first sleeper.
LEMMA LeaveStrandsNobody ==
  ASSUME PoolInv, NoStrandedWaiter, NEW c \in Callers, Leave(c), pc[c] # "woken"
  PROVE  NoStrandedWaiter'
<1>1. RCTypeOK
  BY DEF PoolInv
<1>2. CASE UNCHANGED <<busy, waiters>> /\ pc' = [pc EXCEPT ![c] = "done"]
  BY <1>1, <1>2 DEF NoStrandedWaiter, RCTypeOK
<1>3. CASE Wake([pc EXCEPT ![c] = "done"])
  <2>1. [pc EXCEPT ![c] = "done"] \in [Callers -> Places]
    BY <1>1 DEF RCTypeOK, Places
  <2> QED BY <1>1, <1>3, <2>1, WakeLeavesOneAwake DEF NoStrandedWaiter
<1> QED BY <1>2, <1>3 DEF Leave

LEMMA AcquireStrandsNobody ==
  ASSUME PoolInv, NoStrandedWaiter, NEW c \in Callers, AcquireStep(c)
  PROVE  NoStrandedWaiter'
<1>1. RCTypeOK
  BY DEF PoolInv
<1>2. CASE Take(c)
  BY <1>1, <1>2 DEF Take, Reserve, Free, NoStrandedWaiter, RCTypeOK
<1>3. CASE FallBack(c)
  <2>1. [pc EXCEPT ![c] = "lane"] \in [Callers -> Places]
    BY <1>1 DEF RCTypeOK, Places
  <2> QED BY <1>1, <1>3, <2>1, WakeLeavesOneAwake DEF FallBack, NullPassesTheWake, NoStrandedWaiter
<1>4. CASE Sleep(c)
  BY <1>4 DEF Sleep, NoStrandedWaiter
<1>5. CASE Usable(c)
  BY <1>1, <1>5 DEF Usable, poolVars, NoStrandedWaiter, RCTypeOK
<1>6. CASE Unusable(c)
  <2>1. [pc EXCEPT ![c] = "woken"] \in [Callers -> Places]
    BY <1>1 DEF RCTypeOK, Places
  <2> QED BY <1>1, <1>6, <2>1, WakeLeavesOneAwake DEF Unusable, NoStrandedWaiter
<1> QED BY <1>2, <1>3, <1>4, <1>5, <1>6 DEF AcquireStep

LEMMA HoldStrandsNobody ==
  ASSUME PoolInv, NoStrandedWaiter, NEW c \in Callers, HoldStep(c)
  PROVE  NoStrandedWaiter'
<1>1. pc[c] # "woken"
  BY DEF HoldStep, PendingSettled, PendingUnknown, AtBarrier, Build, BuildFails, Abandon,
     SendQueued, SendUnanswered, SendRefused, PollFinal, PollTimesOut
<1>2. CASE Leave(c)
  BY <1>1, <1>2, LeaveStrandsNobody
<1>3. CASE ~Leave(c)
  <2>1. UNCHANGED <<busy, waiters>> /\ \E p \in Places : pc' = [pc EXCEPT ![c] = p]
    BY <1>3 DEF HoldStep, PendingSettled, PendingUnknown, Build, BuildFails, Abandon, SendQueued,
       SendUnanswered, SendRefused, PollFinal, PollTimesOut, poolVars, Places
  <2> QED BY <1>1, <2>1 DEF NoStrandedWaiter, PoolInv, RCTypeOK
<1> QED BY <1>2, <1>3

\* The wake-ups of release, of a failed check and of the null result leave no
\* sleeper without a caller that will wake it.
THEOREM NoCallerStranded == RCSpec => []NoStrandedWaiter
<1>1. RCInit => NoStrandedWaiter
  BY DEF RCInit, NoStrandedWaiter
<1>2. PoolInv /\ NoStrandedWaiter /\ [RCNext]_vars => NoStrandedWaiter'
  <2> SUFFICES ASSUME PoolInv, NoStrandedWaiter, [RCNext]_vars PROVE NoStrandedWaiter'
    OBVIOUS
  <2>1. CASE UNCHANGED vars
    BY <2>1 DEF vars, NoStrandedWaiter
  <2>2. CASE (\E c \in Callers : Over(c)) \/ (\E s \in Slots : Enable(s))
    BY <2>2, EnvironmentKeepsPool DEF NoStrandedWaiter
  <2> QED BY <2>1, <2>2, AcquireStrandsNobody, HoldStrandsNobody DEF RCNext
<1> QED BY <1>1, <1>2, PoolInvariant, PTL DEF RCSpec

-----------------------------------------------------------------------------
(* Sequence numbers                                                        *)

\* A transaction exists from its build on, and a caller that left has sent it
\* or thrown it away.
TxInv ==
  \A c \in Callers :
    /\ pc[c] \in {"polling", "done"} \/ net[c] = (IF pc[c] = "built" THEN "built" ELSE "none")
    /\ pc[c] \in {"polling", "done"} => net[c] # "built"
    /\ net[c] # "none" => held[c] \in Sources

\* The call is over and did not track what it sent unanswered.
LetGo(c) == pc[c] = "done" /\ ~TracksUnanswered(c)

\* What may still land is tracked by its source, is polled for under a hold, or
\* was let go of; whoever builds on a source found nothing tracked there, and
\* nobody but the holder marks a source.
TrackInv ==
  \A c \in Callers :
    /\ net[c] = "flying" =>
         pending[held[c]] = c \/ (pc[c] = "polling" /\ ~TracksUnanswered(c)) \/ LetGo(c)
    /\ pc[c] \in {"working", "built"} => pending[held[c]] = None
    /\ pc[c] = "polling" => pending[held[c]] \in {None, c}

LEMMA AcquireKeepsTx ==
  ASSUME PoolInv, TxInv, TrackInv, NEW c \in Callers, AcquireStep(c), OthersStay(c)
  PROVE  TxInv' /\ TrackInv'
<1>1. /\ pc[c] \in {"idle", "woken", "checking"} /\ net[c] = "none"
      /\ UNCHANGED <<pending, net>>
  BY DEF AcquireStep, Take, FallBack, Sleep, Usable, Unusable, Looking, poolVars, TxInv
<1>2. pc'[c] \in {"checking", "lane", "waiting", "settling", "woken"}
  <2>1. RCTypeOK /\ WaitersInv
    BY DEF PoolInv
  <2>2. CASE FallBack(c)
    BY <2>1, <2>2, <1>1, WakeEffect DEF FallBack, NullPassesTheWake, Places
  <2>3. CASE Unusable(c)
    BY <2>1, <2>3, <1>1, WakeEffect DEF Unusable, Places
  <2> QED BY <2>1, <2>2, <2>3 DEF AcquireStep, Take, Sleep, Usable, RCTypeOK
<1>3. net'[c] = "none"
  BY <1>1
<1>4. TxInv'
  BY <1>1, <1>2, <1>3 DEF OthersStay, TxInv
<1>5. ASSUME NEW d \in Callers
      PROVE  /\ net'[d] = "flying" =>
                  \/ pending'[held'[d]] = d
                  \/ pc'[d] = "polling" /\ ~TracksUnanswered(d)
                  \/ LetGo(d)'
             /\ pc'[d] \in {"working", "built"} => pending'[held'[d]] = None
             /\ pc'[d] = "polling" => pending'[held'[d]] \in {None, d}
  <2>1. CASE d = c
    BY <1>2, <1>3, <2>1
  <2>2. CASE d # c
    <3>1. CASE pc'[d] = pc[d] /\ held'[d] = held[d]
      <4>1. LetGo(d)' <=> LetGo(d)
        BY <3>1 DEF LetGo, TracksUnanswered
      <4> QED BY <1>1, <3>1, <4>1 DEF TrackInv
    <3>2. CASE ~(pc'[d] = pc[d] /\ held'[d] = held[d])
      BY <1>1, <2>2, <3>2 DEF OthersStay, TxInv
    <3> QED BY <3>1, <3>2
  <2> QED BY <2>1, <2>2
<1> QED BY <1>4, <1>5 DEF TrackInv, TracksUnanswered

\* What each step of a hold does to the one transaction and the one mark of
\* its source.
HoldShape(c) ==
  \/ /\ \A d \in Callers : net[d] = "flying" => pending[held[c]] # d
     /\ pending' = [pending EXCEPT ![held[c]] = None]
     /\ pc'[c] = "working" /\ net[c] = "none" /\ net' = net
  \/ /\ pending' = pending /\ pc[c] = "working"
     /\ pc'[c] = "built" /\ net' = [net EXCEPT ![c] = "built"]
  \/ /\ pending' = pending /\ pc'[c] = "done" /\ net' = net /\ pc[c] # "built"
  \/ /\ pc[c] = "built" /\ pc'[c] \in {"polling", "done"}
     /\ \/ net' = [net EXCEPT ![c] = "flying"] /\ pending' = [pending EXCEPT ![held[c]] = c]
        \/ /\ net' = [net EXCEPT ![c] = "flying"] /\ pending' = pending
           /\ ~TracksUnanswered(c)
        \/ /\ net' = [net EXCEPT ![c] = "over"] /\ pc'[c] = "done"
           /\ pending' \in {pending, [pending EXCEPT ![held[c]] = c]}
  \/ /\ net[c] = "over" /\ net' = net /\ pc[c] = "polling" /\ pc'[c] = "done"
     /\ pending[held[c]] = c /\ pending' = [pending EXCEPT ![held[c]] = None]

LEMMA HoldHasShape ==
  ASSUME PoolInv, TxInv, NEW c \in Callers, HoldStep(c)
  PROVE  HoldShape(c) /\ InTurn(c) /\ held' = held
<1>1. RCTypeOK /\ WaitersInv
  BY DEF PoolInv
<1>2. Leave(c) /\ pc[c] # "waiting" => pc'[c] = "done"
  <2> SUFFICES ASSUME Leave(c), pc[c] # "waiting" PROVE pc'[c] = "done"
    OBVIOUS
  <2>1. CASE pc' = [pc EXCEPT ![c] = "done"]
    BY <1>1, <2>1 DEF RCTypeOK
  <2>2. CASE Wake([pc EXCEPT ![c] = "done"])
    BY <1>1, <2>2, WakeEffect DEF Places
  <2> QED BY <2>1, <2>2 DEF Leave
<1>3. CASE PendingSettled(c)
  <2>1. /\ \A d \in Callers : net[d] = "flying" => pending[held[c]] # d
        /\ pending' = [pending EXCEPT ![held[c]] = None] /\ net' = net
    BY <1>3, ChannelsAssumption DEF PendingSettled, ProvenOver, ChannelsAssumption
  <2>2. pc'[c] = "working" /\ net[c] = "none"
    BY <1>1, <1>3 DEF PendingSettled, AtBarrier, TxInv, RCTypeOK
  <2> QED BY <1>3, <2>1, <2>2, BarrierIsTurn DEF PendingSettled, HoldShape
<1>4. CASE PendingUnknown(c)
  <2>1. pc[c] # "waiting" /\ pc[c] # "built"
    BY <1>4 DEF PendingUnknown, AtBarrier
  <2> QED BY <1>2, <1>4, <2>1, BarrierIsTurn DEF PendingUnknown, HoldShape
<1>5. CASE Build(c)
  BY <1>1, <1>5 DEF Build, HoldShape, InTurn, InHold, RCTypeOK
<1>6. CASE BuildFails(c)
  BY <1>2, <1>6 DEF BuildFails, HoldShape, InTurn, InHold
<1>7. CASE Abandon(c) \/ SendRefused(c)
  BY <1>2, <1>7 DEF Abandon, SendRefused, HoldShape, InTurn, InHold
<1>8. CASE SendUnanswered(c)
  <2>1. pc'[c] = "done"
    BY <1>2, <1>8 DEF SendUnanswered
  <2> QED BY <1>8, <2>1 DEF SendUnanswered, Track, HoldShape, InTurn, InHold
<1>9. CASE SendQueued(c)
  <2>1. pc'[c] \in {"polling", "done"}
    BY <1>1, <1>2, <1>9 DEF SendQueued, RCTypeOK
  <2>2. ~TracksQueued(c) => ~TracksUnanswered(c)
    BY DEF TracksQueued, TracksUnanswered
  <2> QED BY <1>9, <2>1, <2>2 DEF SendQueued, Track, HoldShape, InTurn, InHold
<1>10. CASE PollFinal(c)
  BY <1>2, <1>10 DEF PollFinal, ClearPending, HoldShape, InTurn, InHold
<1>11. CASE PollTimesOut(c)
  BY <1>2, <1>11 DEF PollTimesOut, HoldShape, InTurn, InHold
<1> QED BY <1>3, <1>4, <1>5, <1>6, <1>7, <1>8, <1>9, <1>10, <1>11 DEF HoldStep

LEMMA HoldKeepsTx ==
  ASSUME PoolInv, TxInv, TrackInv, NEW c \in Callers, HoldStep(c), OthersStay(c)
  PROVE  TxInv' /\ TrackInv'
<1>1. HoldShape(c) /\ InTurn(c) /\ held' = held /\ held[c] \in Sources
  BY HoldHasShape DEF InTurn, InHold, PoolInv, HeldInv, Sources
<1>2. RCTypeOK /\ None \notin Callers
  BY ChannelsAssumption DEF PoolInv, ChannelsAssumption
<1>3. TxInv'
  BY <1>1, <1>2 DEF HoldShape, OthersStay, TxInv, RCTypeOK
<1>4. ASSUME NEW d \in Callers, d # c, net'[d] = "flying"
      PROVE  \/ pending'[held'[d]] = d
             \/ pc'[d] = "polling" /\ ~TracksUnanswered(d)
             \/ LetGo(d)'
  <2>1. net[d] = "flying" /\ pc'[d] = pc[d]
    BY <1>1, <1>2, <1>4 DEF HoldShape, OthersStay, TxInv, RCTypeOK
  <2>2. CASE pending[held[d]] = d
    <3>1. held[d] \in Sources
      BY <2>1 DEF TxInv
    <3>2. pc[c] = "built" => pending[held[c]] = None
      BY DEF TrackInv
    <3> QED BY <1>1, <1>2, <1>4, <2>1, <2>2, <3>1, <3>2 DEF HoldShape, RCTypeOK
  <2>3. CASE (pc[d] = "polling" /\ ~TracksUnanswered(d)) \/ LetGo(d)
    BY <2>1, <2>3 DEF LetGo, TracksUnanswered
  <2> QED BY <2>1, <2>2, <2>3 DEF TrackInv
<1>5. ASSUME net'[c] = "flying"
      PROVE  \/ pending'[held'[c]] = c
             \/ pc'[c] = "polling" /\ ~TracksUnanswered(c)
             \/ LetGo(c)'
  <2>1. net[c] = "flying" =>
          /\ pending[held[c]] = c \/ ~TracksUnanswered(c)
          /\ pc[c] # "built" /\ pc[c] # "working"
    BY DEF TrackInv, TxInv, LetGo
  <2>2. LetGo(c)' <=> pc'[c] = "done" /\ ~TracksUnanswered(c)
    BY DEF LetGo, TracksUnanswered
  <2> QED BY <1>1, <1>2, <1>5, <2>1, <2>2 DEF HoldShape, RCTypeOK
<1>6. ASSUME NEW d \in Callers, d # c, pc'[d] \in {"working", "built", "polling"}
      PROVE  /\ pc'[d] \in {"working", "built"} => pending'[held'[d]] = None
             /\ pc'[d] = "polling" => pending'[held'[d]] \in {None, d}
  <2>1. /\ pc[d] = pc'[d] /\ held[d] \in Sources
        /\ pc[d] \in {"working", "built"} => pending[held[d]] = None
        /\ pc[d] = "polling" => pending[held[d]] \in {None, d}
    BY <1>6 DEF OthersStay, TrackInv, PoolInv, HeldInv
  <2>2. pc[c] = "built" => held[c] # held[d]
    BY <1>1, <1>6, <2>1, OneHolder DEF InHold
  <2>3. pending'[held[d]] \in {pending[held[d]], None}
    BY <1>1, <1>2, <2>1, <2>2 DEF HoldShape, RCTypeOK
  <2> QED BY <1>1, <2>1, <2>3
<1>7. /\ pc'[c] \in {"working", "built"} => pending'[held'[c]] = None
      /\ pc'[c] = "polling" => pending'[held'[c]] \in {None, c}
  BY <1>1, <1>2 DEF HoldShape, TrackInv, RCTypeOK
<1>8. TrackInv'
  BY <1>4, <1>5, <1>6, <1>7 DEF TrackInv, TracksUnanswered
<1> QED BY <1>3, <1>8

\* Whatever answers are lost or late and whichever kinds of calls mix, a
\* sequence number is shared only with the envelope of a call that is over and
\* does not track what goes unanswered.
THEOREM SequencesSharedOnlyUntracked == RCSpec => []SharedOnlyUntracked
<1>1. RCInit => TxInv /\ TrackInv
  BY DEF RCInit, TxInv, TrackInv
<1>2. PoolInv /\ TxInv /\ TrackInv /\ [RCNext]_vars => TxInv' /\ TrackInv'
  <2> SUFFICES ASSUME PoolInv, TxInv, TrackInv, [RCNext]_vars PROVE TxInv' /\ TrackInv'
    OBVIOUS
  <2>1. CASE UNCHANGED vars
    BY <2>1 DEF vars, TxInv, TrackInv, LetGo, TracksUnanswered
  <2>2. ASSUME NEW c \in Callers, Over(c) PROVE TxInv' /\ TrackInv'
    BY <2>2 DEF Over, poolVars, TxInv, TrackInv, PoolInv, RCTypeOK, LetGo, TracksUnanswered
  <2>3. CASE \E s \in Slots : Enable(s)
    BY <2>3 DEF Enable, TxInv, TrackInv, LetGo, TracksUnanswered
  <2> QED BY <2>1, <2>2, <2>3, AcquireKeepsPool, HoldKeepsPool, AcquireKeepsTx, HoldKeepsTx DEF RCNext
<1>3. PoolInv /\ TxInv /\ TrackInv => SharedOnlyUntracked
  <2> SUFFICES ASSUME PoolInv, TxInv, TrackInv, NEW a \in Callers, NEW b \in Callers,
                      a # b, held[a] = held[b],
                      net[a] \in {"built", "flying"}, net[b] \in {"built", "flying"},
                      ~LetGo(a), ~LetGo(b)
               PROVE  FALSE
    BY DEF SharedOnlyUntracked, LetGo
  <2>1. ASSUME NEW c \in {a, b}
        PROVE  \/ pending[held[c]] = c /\ c # None
               \/ pc[c] \in InHold /\ pending[held[c]] \in {None, c}
    BY <2>1, ChannelsAssumption DEF TxInv, TrackInv, InHold, ChannelsAssumption
  <2>2. ~(pc[a] \in InHold /\ pc[b] \in InHold)
    <3>1. held[a] \in Sources
      BY DEF TxInv
    <3> QED BY <3>1, OneHolder
  <2> QED BY <2>1, <2>2
<1> QED BY <1>1, <1>2, <1>3, PoolInvariant, PTL DEF RCSpec
=============================================================================
