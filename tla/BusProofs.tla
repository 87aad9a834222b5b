----------------------------- MODULE BusProofs ------------------------------
(* The books of the bus are right, for any number of tasks and any capacity;  *)
(* threads sleep as long as they asked, whatever their number and durations;  *)
(* and for the bus it makes no difference that transfers sleep.               *)
EXTENDS BusTimer, FiniteSetTheorems, SequenceTheorems, TLAPS

----------------------------------------------------------------------------
(* The bus *)

Places == {"created", "waiting", "woken", "boarding", "aboard", "done"}
Counts == [Directions -> [Levels -> Nat]]

LEMMA DirectionType == \A t \in Tasks : Direction(t) \in Directions /\ Level(t) \in Levels
BY DEF Direction, Level, Directions, Levels

\* What the turns of release_slot pass on.
BusType == [direction : Directions \cup {"none"}, reserved : Nat, wakeups : Counts]

LEMMA ToWakeType ==
    ASSUME NEW onBus \in Nat, NEW reserved \in Nat, NEW count \in Nat
    PROVE  /\ ToWake(onBus, reserved, count) \in Nat
           /\ onBus + reserved <= Capacity => onBus + reserved + ToWake(onBus, reserved, count) <= Capacity
BY TaskAssumption DEF ToWake

\* The wake-ups sent and not taken.
Sent(w) == w["send"]["priority"] + w["send"]["normal"] + w["receive"]["priority"] + w["receive"]["normal"]

\* A turn wakes what fits, and reserves as much as it wakes.
LEMMA TurnType ==
    ASSUME waiting \in Counts, NEW d \in Directions, NEW onBus \in Nat, NEW bus \in BusType
    PROVE  /\ Turn(d, onBus, bus) \in BusType
           /\ onBus + bus.reserved <= Capacity => onBus + Turn(d, onBus, bus).reserved <= Capacity
           /\ Turn(d, onBus, bus).reserved - bus.reserved = Sent(Turn(d, onBus, bus).wakeups) - Sent(bus.wakeups)
<1> DEFINE prio == waiting[d]["priority"]
           norm == waiting[d]["normal"]
           first == ToWake(onBus, bus.reserved, prio)
           more == ToWake(onBus, bus.reserved + first, norm)
           second == IF waiting[Other(d)]["priority"] = 0 THEN more ELSE 0
           next == [direction |-> IF first + second > 0 THEN d ELSE bus.direction,
                    reserved  |-> bus.reserved + first + second,
                    wakeups   |-> [bus.wakeups EXCEPT ![d]["priority"] = @ + first,
                                                      ![d]["normal"] = @ + second]]
<1>1. bus.reserved \in Nat /\ bus.wakeups \in Counts /\ bus.direction \in Directions \cup {"none"}
    BY DEF BusType
<1>2. prio \in Nat /\ norm \in Nat
    BY DEF Counts, Levels
<1>3. Turn(d, onBus, bus) = IF bus.direction = Other(d) THEN bus ELSE next
    BY DEF Turn
<1> HIDE DEF prio, norm
<1>4. first \in Nat /\ (onBus + bus.reserved <= Capacity => onBus + bus.reserved + first <= Capacity)
    BY <1>1, <1>2, ToWakeType
<1> HIDE DEF first
<1>5. bus.reserved + first \in Nat
    BY <1>1, <1>4
<1>6. more \in Nat /\ (onBus + (bus.reserved + first) <= Capacity => onBus + (bus.reserved + first) + more <= Capacity)
    BY <1>2, <1>5, ToWakeType
<1> HIDE DEF more
<1>7. second \in {0, more}
    OBVIOUS
<1> HIDE DEF second
<1>8. /\ second \in Nat
      /\ onBus + bus.reserved <= Capacity => onBus + (bus.reserved + first + second) <= Capacity
    BY <1>1, <1>4, <1>6, <1>7, TaskAssumption
<1>9. [bus.wakeups EXCEPT ![d]["priority"] = @ + first, ![d]["normal"] = @ + second] \in Counts
  <2>1. \A c \in Counts, l \in Levels, n \in Nat : [c EXCEPT ![d][l] = @ + n] \in Counts
      BY DEF Counts
  <2>2. [bus.wakeups EXCEPT ![d]["priority"] = @ + first] \in Counts
      BY <1>1, <1>4, <2>1 DEF Levels
  <2>3. [[bus.wakeups EXCEPT ![d]["priority"] = @ + first] EXCEPT ![d]["normal"] = @ + second] \in Counts
      BY <1>8, <2>1, <2>2 DEF Levels
  <2> QED
      BY <2>3
<1>10. /\ next \in BusType /\ next.reserved = bus.reserved + first + second
       /\ Sent(next.wakeups) = Sent(bus.wakeups) + first + second
  <2>1. next \in BusType /\ next.reserved = bus.reserved + first + second
      BY <1>1, <1>4, <1>8, <1>9 DEF BusType
  <2>2. Sent(next.wakeups) = Sent(bus.wakeups) + first + second
    <3> DEFINE w == [bus.wakeups EXCEPT ![d]["priority"] = @ + first, ![d]["normal"] = @ + second]
    <3>1. /\ w[d]["priority"] = bus.wakeups[d]["priority"] + first
          /\ w[d]["normal"] = bus.wakeups[d]["normal"] + second
          /\ w[Other(d)] = bus.wakeups[Other(d)]
        BY <1>1 DEF Counts, Levels, Directions, Other
    <3>2. \A e \in Directions, l \in Levels : bus.wakeups[e][l] \in Nat
        BY <1>1 DEF Counts
    <3>3. Sent(w) = Sent(bus.wakeups) + first + second
      <4> HIDE DEF w
      <4>1. CASE d = "send"
          BY <1>4, <1>8, <3>1, <3>2, <4>1 DEF Sent, Other, Directions, Levels
      <4>2. CASE d = "receive"
          BY <1>4, <1>8, <3>1, <3>2, <4>2 DEF Sent, Other, Directions, Levels
      <4> QED BY <4>1, <4>2 DEF Directions
    <3> QED BY <3>3
  <2> QED BY <2>1, <2>2
<1>11. Sent(bus.wakeups) \in Int
    BY <1>1 DEF Counts, Sent, Directions, Levels
<1> HIDE DEF next
<1> QED
    BY <1>1, <1>3, <1>4, <1>8, <1>10, <1>11

\* What release_slot leaves.
After(t) ==
    Turn("receive", taskOnBus - 1,
         Turn("send", taskOnBus - 1,
              [direction |-> DirectionLeft(taskOnBus - 1), reserved |-> waitingTask, wakeups |-> wakeups]))

LEMMA ReleaseLeaves ==
    ASSUME TypeOK, taskOnBus > 0, NEW t \in Tasks
    PROVE  /\ After(t) \in BusType
           /\ taskOnBus - 1 + waitingTask <= Capacity => taskOnBus - 1 + After(t).reserved <= Capacity
           /\ After(t).reserved - waitingTask = Sent(After(t).wakeups) - Sent(wakeups)
<1> DEFINE idle == [direction |-> DirectionLeft(taskOnBus - 1), reserved |-> waitingTask, wakeups |-> wakeups]
<1>0. waiting \in Counts /\ taskOnBus \in Nat
    BY DEF TypeOK, Counts
<1>1. taskOnBus - 1 \in Nat /\ waiting \in Counts
    BY <1>0
<1>2. DirectionLeft(taskOnBus - 1) \in Directions \cup {"none"} /\ waitingTask \in Nat /\ wakeups \in Counts
    BY DEF TypeOK, DirectionLeft, Counts
<1>3. idle \in BusType /\ idle.reserved = waitingTask /\ idle.wakeups = wakeups
    BY <1>2 DEF BusType
<1> HIDE DEF idle
<1> DEFINE sent == Turn("send", taskOnBus - 1, idle)
           both == Turn("receive", taskOnBus - 1, sent)
<1>4. /\ sent \in BusType
      /\ taskOnBus - 1 + idle.reserved <= Capacity => taskOnBus - 1 + sent.reserved <= Capacity
      /\ sent.reserved - idle.reserved = Sent(sent.wakeups) - Sent(idle.wakeups)
    BY <1>1, <1>3, TurnType DEF Directions
<1> HIDE DEF sent
<1>5. /\ both \in BusType
      /\ taskOnBus - 1 + sent.reserved <= Capacity => taskOnBus - 1 + both.reserved <= Capacity
      /\ both.reserved - sent.reserved = Sent(both.wakeups) - Sent(sent.wakeups)
    BY <1>1, <1>4, TurnType DEF Directions
<1> HIDE DEF both
<1>6. After(t) = both
    BY DEF After, idle, sent, both
<1>7. \A b \in BusType : b.reserved \in Int /\ Sent(b.wakeups) \in Int
    BY DEF BusType, Counts, Sent, Directions, Levels
<1>8. /\ sent.reserved \in Int /\ both.reserved \in Int /\ Sent(sent.wakeups) \in Int
      /\ Sent(both.wakeups) \in Int /\ Sent(wakeups) \in Int
    BY <1>3, <1>4, <1>5, <1>7
<1>9. waitingTask \in Nat /\ taskOnBus \in Nat
    BY <1>0, <1>2
<1>10. /\ taskOnBus - 1 + waitingTask <= Capacity => taskOnBus - 1 + both.reserved <= Capacity
       /\ both.reserved - waitingTask = Sent(both.wakeups) - Sent(wakeups)
  <2>1. Sent(idle.wakeups) = Sent(wakeups)
      BY <1>3
  <2> HIDE DEF Sent
  <2> QED BY <1>3, <1>4, <1>5, <1>8, <1>9, <2>1
<1> QED
    BY <1>5, <1>6, <1>10

----------------------------------------------------------------------------
(* Counting tasks *)

Woken == {t \in Tasks : pc[t] = "woken"}
Waiters(d, l) == Being({"waiting", "woken"}, d, l)

LEMMA TaskSets ==
    ASSUME NEW S \in SUBSET Tasks
    PROVE  IsFiniteSet(S) /\ Cardinality(S) \in Nat
<1>1. IsFiniteSet(Tasks)
    BY TaskAssumption, FS_Union DEF Tasks
<1> QED
    BY <1>1, FS_Subset, FS_CardinalityType

LEMMA OneMore ==
    ASSUME NEW S \in SUBSET Tasks, NEW t \in Tasks
    PROVE  /\ t \notin S => Cardinality(S \cup {t}) = Cardinality(S) + 1
           /\ t \in S => Cardinality(S \ {t}) = Cardinality(S) - 1 /\ Cardinality(S) > 0
<1>1. IsFiniteSet(S) /\ Cardinality(S) \in Nat
    BY TaskSets
<1>2. t \notin S => Cardinality(S \cup {t}) = Cardinality(S) + 1
    BY <1>1, FS_AddElement
<1>3. t \in S => Cardinality(S \ {t}) = Cardinality(S) - 1
    BY <1>1, FS_RemoveElement
<1>4. t \in S => S # {}
    OBVIOUS
<1>5. t \in S => Cardinality(S) # 0
    BY <1>1, <1>4, FS_EmptySet
<1> QED
    BY <1>1, <1>2, <1>3, <1>5

LEMMA CountedSets ==
    /\ OnBus \in SUBSET Tasks /\ Woken \in SUBSET Tasks
    /\ \A d, l : Waiters(d, l) \in SUBSET Tasks
BY DEF OnBus, Woken, Waiters, Being

\* What a change of one task's place does to the counted sets.
LEMMA Moves ==
    ASSUME TypeOK, NEW t \in Tasks, NEW p \in Places, pc' = [pc EXCEPT ![t] = p]
    PROVE  /\ OnBus' = IF p = "aboard" THEN OnBus \cup {t} ELSE OnBus \ {t}
           /\ Woken' = IF p = "woken" THEN Woken \cup {t} ELSE Woken \ {t}
           /\ \A d, l : Waiters(d, l)' =
                 IF p \in {"waiting", "woken"} /\ Direction(t) = d /\ Level(t) = l
                 THEN Waiters(d, l) \cup {t} ELSE Waiters(d, l) \ {t}
BY DEF TypeOK, Places, OnBus, Woken, Waiters, Being

----------------------------------------------------------------------------
(* The invariant *)

\* Nothing is reserved before the first task leaves, and with Together none
\* leaves before all have come.
NoneReserved == (\E t \in Tasks : pc[t] = "created") => waitingTask = 0

Books == SlotsAccounted /\ WaitersCounted /\ WakeupsReserved

BusInv == TypeOK /\ Books /\ (Together => NotOverbooked /\ NoneReserved)

\* The types without the mutex's.
CountsType ==
    /\ busSlots \in Nat /\ taskOnBus \in Nat /\ waitingTask \in Nat
    /\ wakeups \in Counts /\ waiting \in Counts
    /\ busDirection \in Directions \cup {"none"}

MutexType ==
    /\ pc \in [Tasks -> Places]
    /\ mutex \in Tasks \cup {Nobody}
    /\ \A t \in Tasks : pc[t] = "boarding" <=> mutex = t

LEMMA TypeParts == TypeOK <=> CountsType /\ MutexType
BY DEF TypeOK, CountsType, MutexType, Counts, Places

LEMMA MutexKept ==
    ASSUME MutexType, NEW t \in Tasks, run_task(t)
    PROVE  MutexType'
<1> USE TaskAssumption DEF MutexType, Places
<1>1. CASE Arrive(t)
  <2>1. CASE pc' = [pc EXCEPT ![t] = "waiting"] /\ mutex' = mutex
      BY <1>1, <2>1 DEF Arrive
  <2>2. CASE pc' = [pc EXCEPT ![t] = "boarding"] /\ mutex' = t
      BY <1>1, <2>2 DEF Arrive
  <2> QED
      BY <1>1, <2>1, <2>2 DEF Arrive
<1>2. CASE WakeUp(t)
    BY <1>2 DEF WakeUp
<1>3. CASE Resume(t)
    BY <1>3 DEF Resume
<1>4. CASE Board(t)
    BY <1>4 DEF Board
<1>5. CASE Release(t)
    BY <1>5 DEF Release
<1> QED
    BY <1>1, <1>2, <1>3, <1>4, <1>5 DEF run_task

LEMMA BusStart == Init => BusInv
<1> SUFFICES ASSUME Init PROVE BusInv
    OBVIOUS
<1>1. OnBus = {} /\ Woken = {} /\ \A d, l : Waiters(d, l) = {}
    BY DEF Init, OnBus, Woken, Waiters, Being
<1>2. CountsType /\ MutexType
    BY TaskAssumption DEF Init, CountsType, MutexType, Counts, Places
<1>3. SlotsAccounted /\ WaitersCounted
    BY <1>1, TaskAssumption, FS_EmptySet DEF Init, SlotsAccounted, WaitersCounted, Waiters
<1>4. WakeupsReserved
    BY <1>1, FS_EmptySet DEF Init, WakeupsReserved, Woken, Directions, Levels
<1>5. NotOverbooked /\ NoneReserved
    BY TaskAssumption DEF Init, NotOverbooked, NoneReserved
<1> QED
    BY <1>2, <1>3, <1>4, <1>5, TypeParts DEF BusInv, Books

LEMMA ReservedIs == WakeupsReserved <=> waitingTask = Sent(wakeups) + Cardinality(Woken)
BY DEF WakeupsReserved, Sent, Woken

LEMMA WaitersCountedIs ==
    WaitersCounted <=> \A d \in Directions, l \in Levels : waiting[d][l] = Cardinality(Waiters(d, l))
BY DEF WaitersCounted, Waiters

\* Arriving takes nothing from the bus.
LEMMA ArriveKeeps ==
    ASSUME BusInv, NEW t \in Tasks, Arrive(t)
    PROVE  CountsType' /\ Books' /\ (Together => NotOverbooked' /\ NoneReserved')
<1> DEFINE d0 == Direction(t)
           l0 == Level(t)
<1>1. TypeOK /\ CountsType /\ MutexType /\ Books /\ (Together => NotOverbooked /\ NoneReserved)
    BY TypeParts DEF BusInv
<1>2. /\ pc[t] = "created" /\ mutex = Nobody
      /\ UNCHANGED <<busSlots, wakeups, taskOnBus, busDirection, waitingTask>>
    BY DEF Arrive
<1>3. PICK p \in {"waiting", "boarding"} : pc' = [pc EXCEPT ![t] = p]
    BY DEF Arrive
<1>4. t \notin OnBus /\ t \notin Woken /\ \A d, l : t \notin Waiters(d, l)
    BY <1>2 DEF OnBus, Woken, Waiters, Being
<1>5. /\ OnBus' = OnBus /\ Woken' = Woken
      /\ \A d, l : Waiters(d, l)' =
            IF p = "waiting" /\ d0 = d /\ l0 = l THEN Waiters(d, l) \cup {t} ELSE Waiters(d, l)
  <2>1. /\ OnBus' = OnBus \ {t} /\ Woken' = Woken \ {t}
        /\ \A d, l : Waiters(d, l)' =
              IF p = "waiting" /\ d0 = d /\ l0 = l THEN Waiters(d, l) \cup {t} ELSE Waiters(d, l) \ {t}
    <3>1. p \in Places /\ p # "aboard" /\ p # "woken" /\ (p \in {"waiting", "woken"} <=> p = "waiting")
        BY DEF Places
    <3>2. /\ OnBus' = IF p = "aboard" THEN OnBus \cup {t} ELSE OnBus \ {t}
          /\ Woken' = IF p = "woken" THEN Woken \cup {t} ELSE Woken \ {t}
          /\ \A d, l : Waiters(d, l)' =
                IF p \in {"waiting", "woken"} /\ Direction(t) = d /\ Level(t) = l
                THEN Waiters(d, l) \cup {t} ELSE Waiters(d, l) \ {t}
        BY <1>1, <1>3, <3>1, Moves
    <3> QED
        BY <3>1, <3>2
  <2>2. OnBus \ {t} = OnBus /\ Woken \ {t} = Woken /\ \A d, l : Waiters(d, l) \ {t} = Waiters(d, l)
      BY <1>4
  <2> QED
      BY <2>1, <2>2
<1>6. SlotsAccounted' /\ WakeupsReserved'
    BY <1>1, <1>2, <1>5, ReservedIs DEF Books, SlotsAccounted, WakeupsReserved, Woken
<1>7. waiting \in Counts /\ d0 \in Directions /\ l0 \in Levels
    BY <1>1, DirectionType DEF CountsType
<1>8. waiting' = IF p = "waiting" THEN [waiting EXCEPT ![d0][l0] = @ + 1] ELSE waiting
  <2>1. pc'[t] = p
      BY <1>1, <1>3 DEF MutexType
  <2> QED
      BY <1>1, <2>1, <1>2 DEF Arrive, MutexType
<1> HIDE DEF d0, l0
<1>9. waiting' \in Counts /\ WaitersCounted'
  <2>1. CASE p = "boarding"
      BY <1>1, <1>5, <1>7, <1>8, <2>1, WaitersCountedIs DEF Books, WaitersCounted, Waiters
  <2>2. CASE p = "waiting"
    <3>1. waiting' \in Counts
        BY <1>7, <1>8, <2>2 DEF Counts
    <3>2. \A d \in Directions, l \in Levels :
             waiting'[d][l] = IF d = d0 /\ l = l0 THEN waiting[d][l] + 1 ELSE waiting[d][l]
        BY <1>7, <1>8, <2>2 DEF Counts
    <3>3. \A d \in Directions, l \in Levels :
             Cardinality(Waiters(d, l)') =
                IF d = d0 /\ l = l0 THEN Cardinality(Waiters(d, l)) + 1 ELSE Cardinality(Waiters(d, l))
        BY <1>4, <1>5, <2>2, OneMore, CountedSets
    <3> QED
        BY <1>1, <3>1, <3>2, <3>3, WaitersCountedIs DEF Books, WaitersCounted, Waiters
  <2> QED BY <2>1, <2>2
<1>10. CountsType'
    BY <1>1, <1>2, <1>9 DEF CountsType
<1>11. Together => NotOverbooked'
  <2>1. SUFFICES ASSUME Together, mutex' # Nobody PROVE NotOverbooked'
      BY <1>1, <1>2 DEF NotOverbooked
  <2>2. taskOnBus < Capacity
      BY <1>1, <1>2, <2>1, TaskAssumption DEF Arrive, MustWait, CountsType
  <2>3. waitingTask = 0
      BY <1>1, <1>2, <2>1 DEF NoneReserved
  <2> QED
      BY <1>1, <1>2, <2>2, <2>3, TaskAssumption DEF NotOverbooked, CountsType
<1>12. Together => NoneReserved'
    BY <1>1, <1>2 DEF NoneReserved
<1> QED
    BY <1>6, <1>9, <1>10, <1>11, <1>12 DEF Books

\* A task takes a wake-up: one less is sent, one more task is woken.
LEMMA WakeUpKeeps ==
    ASSUME BusInv, NEW t \in Tasks, WakeUp(t)
    PROVE  CountsType' /\ Books' /\ (Together => NotOverbooked' /\ NoneReserved')
<1> DEFINE d0 == Direction(t)
           l0 == Level(t)
<1>1. TypeOK /\ CountsType /\ MutexType /\ Books /\ (Together => NotOverbooked /\ NoneReserved)
    BY TypeParts DEF BusInv
<1>2. /\ pc[t] = "waiting" /\ wakeups[d0][l0] > 0
      /\ wakeups' = [wakeups EXCEPT ![d0][l0] = @ - 1]
      /\ pc' = [pc EXCEPT ![t] = "woken"]
      /\ UNCHANGED <<mutex, busSlots, taskOnBus, busDirection, waitingTask, waiting>>
    BY DEF WakeUp
<1>3. /\ t \notin OnBus /\ t \notin Woken
      /\ \A d, l : (Direction(t) = d /\ Level(t) = l) <=> t \in Waiters(d, l)
    BY <1>2 DEF OnBus, Woken, Waiters, Being
<1>4. /\ OnBus' = OnBus \ {t} /\ Woken' = Woken \cup {t}
      /\ \A d, l : Waiters(d, l)' =
            IF Direction(t) = d /\ Level(t) = l THEN Waiters(d, l) \cup {t} ELSE Waiters(d, l) \ {t}
  <2>1. "woken" \in Places /\ "woken" # "aboard" /\ "woken" \in {"waiting", "woken"}
      BY DEF Places
  <2>2. /\ OnBus' = IF "woken" = "aboard" THEN OnBus \cup {t} ELSE OnBus \ {t}
        /\ Woken' = IF "woken" = "woken" THEN Woken \cup {t} ELSE Woken \ {t}
        /\ \A d, l : Waiters(d, l)' =
              IF "woken" \in {"waiting", "woken"} /\ Direction(t) = d /\ Level(t) = l
              THEN Waiters(d, l) \cup {t} ELSE Waiters(d, l) \ {t}
      BY <1>1, <1>2, <2>1, Moves
  <2> QED
      BY <2>1, <2>2
<1>5. OnBus' = OnBus /\ \A d, l : Waiters(d, l)' = Waiters(d, l)
    BY <1>3, <1>4
<1>6. Cardinality(Woken') = Cardinality(Woken) + 1 /\ Cardinality(Woken) \in Nat
    BY <1>3, <1>4, OneMore, CountedSets, TaskSets
<1>7. d0 \in Directions /\ l0 \in Levels
    BY DirectionType
<1> HIDE DEF d0, l0
<1>8. wakeups' \in Counts /\ Sent(wakeups') = Sent(wakeups) - 1 /\ Sent(wakeups) \in Nat
  <2>1. \A d \in Directions, l \in Levels :
           /\ wakeups[d][l] \in Nat
           /\ wakeups'[d][l] = IF d = d0 /\ l = l0 THEN wakeups[d][l] - 1 ELSE wakeups[d][l]
      BY <1>1, <1>2, <1>7 DEF CountsType, Counts
  <2>2. wakeups' \in Counts
      BY <1>1, <1>2, <1>7 DEF CountsType, Counts
  <2>3. Sent(wakeups') = Sent(wakeups) - 1 /\ Sent(wakeups) \in Nat
      BY <1>7, <2>1 DEF Sent, Directions, Levels
  <2> QED BY <2>2, <2>3
<1>9. WakeupsReserved'
  <2>1. waitingTask = Sent(wakeups) + Cardinality(Woken)
      BY <1>1, ReservedIs DEF Books
  <2>2. waitingTask' = Sent(wakeups') + Cardinality(Woken')
      BY <1>2, <1>6, <1>8, <2>1
  <2> QED
      BY <2>2 DEF WakeupsReserved, Sent, Woken
<1>10. SlotsAccounted' /\ WaitersCounted'
  <2>1. \A d \in Directions, l \in Levels : waiting'[d][l] = Cardinality(Waiters(d, l)')
      BY <1>1, <1>2, <1>5, WaitersCountedIs DEF Books
  <2>2. WaitersCounted'
      BY <2>1 DEF WaitersCounted, Waiters
  <2> QED
      BY <1>1, <1>2, <1>5, <2>2 DEF Books, SlotsAccounted
<1>11. CountsType'
    BY <1>1, <1>2, <1>8 DEF CountsType
<1>12. Together => NotOverbooked' /\ NoneReserved'
    BY <1>1, <1>2 DEF NotOverbooked, NoneReserved, MutexType
<1> QED
    BY <1>9, <1>10, <1>11, <1>12 DEF Books

\* A woken task has its slot's reservation until it holds the mutex.
LEMMA ResumeKeeps ==
    ASSUME BusInv, NEW t \in Tasks, Resume(t)
    PROVE  CountsType' /\ Books' /\ (Together => NotOverbooked' /\ NoneReserved')
<1> DEFINE d0 == Direction(t)
           l0 == Level(t)
<1>1. TypeOK /\ CountsType /\ MutexType /\ Books /\ (Together => NotOverbooked /\ NoneReserved)
    BY TypeParts DEF BusInv
<1>2. /\ pc[t] = "woken" /\ mutex = Nobody
      /\ waiting' = [waiting EXCEPT ![d0][l0] = @ - 1]
      /\ waitingTask' = waitingTask - 1
      /\ mutex' = t
      /\ pc' = [pc EXCEPT ![t] = "boarding"]
      /\ UNCHANGED <<busSlots, wakeups, taskOnBus, busDirection>>
    BY DEF Resume, StopsWaiting
<1>3. /\ t \notin OnBus /\ t \in Woken
      /\ \A d, l : (d0 = d /\ l0 = l) <=> t \in Waiters(d, l)
    BY <1>2 DEF OnBus, Woken, Waiters, Being
<1>4. /\ OnBus' = OnBus \ {t} /\ Woken' = Woken \ {t}
      /\ \A d, l : Waiters(d, l)' = Waiters(d, l) \ {t}
  <2>1. "boarding" \in Places /\ "boarding" # "aboard" /\ "boarding" # "woken" /\ "boarding" \notin {"waiting", "woken"}
      BY DEF Places
  <2>2. /\ OnBus' = IF "boarding" = "aboard" THEN OnBus \cup {t} ELSE OnBus \ {t}
        /\ Woken' = IF "boarding" = "woken" THEN Woken \cup {t} ELSE Woken \ {t}
        /\ \A d, l : Waiters(d, l)' =
              IF "boarding" \in {"waiting", "woken"} /\ Direction(t) = d /\ Level(t) = l
              THEN Waiters(d, l) \cup {t} ELSE Waiters(d, l) \ {t}
      BY <1>1, <1>2, <2>1, Moves
  <2> QED
      BY <2>1, <2>2
<1>5. OnBus' = OnBus
    BY <1>3, <1>4
<1>6. /\ Cardinality(Woken') = Cardinality(Woken) - 1
      /\ Cardinality(Woken) \in Nat /\ Cardinality(Woken) > 0
    BY <1>3, <1>4, OneMore, CountedSets, TaskSets
<1>7. d0 \in Directions /\ l0 \in Levels
    BY DirectionType
<1> HIDE DEF d0, l0
<1>8. \A d \in Directions, l \in Levels :
         /\ Cardinality(Waiters(d, l)) \in Nat
         /\ Cardinality(Waiters(d, l)') =
               IF d = d0 /\ l = l0 THEN Cardinality(Waiters(d, l)) - 1 ELSE Cardinality(Waiters(d, l))
         /\ (d = d0 /\ l = l0) => Cardinality(Waiters(d, l)) > 0
  <2> SUFFICES ASSUME NEW d \in Directions, NEW l \in Levels
               PROVE  /\ Cardinality(Waiters(d, l)) \in Nat
                      /\ Cardinality(Waiters(d, l)') =
                            IF d = d0 /\ l = l0 THEN Cardinality(Waiters(d, l)) - 1 ELSE Cardinality(Waiters(d, l))
                      /\ (d = d0 /\ l = l0) => Cardinality(Waiters(d, l)) > 0
      OBVIOUS
  <2>1. Waiters(d, l) \in SUBSET Tasks
      BY CountedSets
  <2>2. Cardinality(Waiters(d, l)) \in Nat
      BY <2>1, TaskSets
  <2>3. CASE d = d0 /\ l = l0
      BY <1>3, <1>4, <2>1, <2>2, <2>3, OneMore
  <2>4. CASE ~ (d = d0 /\ l = l0)
    <3>1. Waiters(d, l)' = Waiters(d, l)
        BY <1>3, <1>4, <2>4
    <3> QED
        BY <2>2, <2>4, <3>1
  <2> QED BY <2>3, <2>4
<1>9. waiting' \in Counts /\ WaitersCounted'
  <2>1. \A d \in Directions, l \in Levels : waiting[d][l] = Cardinality(Waiters(d, l))
      BY <1>1, WaitersCountedIs DEF Books
  <2>2. waiting \in Counts
      BY <1>1 DEF CountsType
  <2>3. waiting[d0][l0] - 1 \in Nat
      BY <1>7, <1>8, <2>1
  <2>4. waiting' \in Counts
      BY <1>2, <1>7, <2>2, <2>3 DEF Counts
  <2>5. \A d \in Directions, l \in Levels :
           waiting'[d][l] = IF d = d0 /\ l = l0 THEN waiting[d][l] - 1 ELSE waiting[d][l]
      BY <1>2, <1>7, <2>2 DEF Counts
  <2>6. \A d \in Directions, l \in Levels : waiting'[d][l] = Cardinality(Waiters(d, l)')
      BY <1>8, <2>1, <2>5
  <2> QED
      BY <2>4, <2>6 DEF WaitersCounted, Waiters
<1>10. Sent(wakeups) \in Nat
    BY <1>1 DEF CountsType, Counts, Sent, Directions, Levels
<1>11. WakeupsReserved' /\ waitingTask' \in Nat
  <2>1. waitingTask = Sent(wakeups) + Cardinality(Woken)
      BY <1>1, ReservedIs DEF Books
  <2>2. waitingTask' = Sent(wakeups) + Cardinality(Woken') /\ waitingTask' \in Nat
      BY <1>2, <1>6, <1>10, <2>1
  <2> QED
      BY <1>2, <2>2 DEF WakeupsReserved, Sent, Woken
<1>12. SlotsAccounted'
    BY <1>1, <1>2, <1>5 DEF Books, SlotsAccounted
<1>13. CountsType'
    BY <1>1, <1>2, <1>9, <1>11 DEF CountsType
<1>14. Together => NotOverbooked'
    BY <1>1, <1>2, TaskAssumption DEF NotOverbooked, CountsType, MutexType
<1>15. Together => NoneReserved'
  <2>1. Together /\ (\E u \in Tasks : pc[u] = "created") => waitingTask' = -1
      BY <1>1, <1>2 DEF NoneReserved
  <2>2. (\E u \in Tasks : pc'[u] = "created") => \E u \in Tasks : pc[u] = "created"
      BY <1>1, <1>2 DEF MutexType
  <2> QED
      BY <1>11, <2>1, <2>2 DEF NoneReserved
<1> QED
    BY <1>9, <1>11, <1>12, <1>13, <1>14, <1>15 DEF Books

\* The slot of the task that boards was the mutex holder's.
LEMMA BoardKeeps ==
    ASSUME BusInv, NEW t \in Tasks, Board(t)
    PROVE  CountsType' /\ Books' /\ (Together => NotOverbooked' /\ NoneReserved')
<1>1. TypeOK /\ CountsType /\ MutexType /\ Books /\ (Together => NotOverbooked /\ NoneReserved)
    BY TypeParts DEF BusInv
<1>2. /\ pc[t] = "boarding" /\ busSlots > 0 /\ mutex = t
      /\ busSlots' = busSlots - 1 /\ taskOnBus' = taskOnBus + 1
      /\ busDirection' = Direction(t) /\ mutex' = Nobody
      /\ pc' = [pc EXCEPT ![t] = "aboard"]
      /\ UNCHANGED <<wakeups, waitingTask, waiting>>
    BY <1>1 DEF Board, MutexType
<1>3. t \notin OnBus /\ t \notin Woken /\ \A d, l : t \notin Waiters(d, l)
    BY <1>2 DEF OnBus, Woken, Waiters, Being
<1>4. /\ OnBus' = OnBus \cup {t} /\ Woken' = Woken \ {t}
      /\ \A d, l : Waiters(d, l)' = Waiters(d, l) \ {t}
  <2>1. "aboard" \in Places /\ "aboard" # "woken" /\ "aboard" \notin {"waiting", "woken"}
      BY DEF Places
  <2>2. /\ OnBus' = IF "aboard" = "aboard" THEN OnBus \cup {t} ELSE OnBus \ {t}
        /\ Woken' = IF "aboard" = "woken" THEN Woken \cup {t} ELSE Woken \ {t}
        /\ \A d, l : Waiters(d, l)' =
              IF "aboard" \in {"waiting", "woken"} /\ Direction(t) = d /\ Level(t) = l
              THEN Waiters(d, l) \cup {t} ELSE Waiters(d, l) \ {t}
      BY <1>1, <1>2, <2>1, Moves
  <2> QED
      BY <2>1, <2>2
<1>5. Woken' = Woken /\ \A d, l : Waiters(d, l)' = Waiters(d, l)
    BY <1>3, <1>4
<1>6. Cardinality(OnBus') = Cardinality(OnBus) + 1
    BY <1>3, <1>4, OneMore, CountedSets
<1>7. SlotsAccounted'
    BY <1>1, <1>2, <1>6, TaskAssumption DEF Books, SlotsAccounted, CountsType
<1>8. WaitersCounted' /\ WakeupsReserved'
  <2>1. \A d \in Directions, l \in Levels : waiting'[d][l] = Cardinality(Waiters(d, l)')
      BY <1>1, <1>2, <1>5, WaitersCountedIs DEF Books
  <2>2. waitingTask' = Sent(wakeups') + Cardinality(Woken')
      BY <1>1, <1>2, <1>5, ReservedIs DEF Books
  <2> QED
      BY <2>1, <2>2 DEF WaitersCounted, Waiters, WakeupsReserved, Sent, Woken
<1>9. CountsType'
    BY <1>1, <1>2, DirectionType DEF CountsType
<1>10. Together => NotOverbooked'
    BY <1>1, <1>2, TaskAssumption DEF NotOverbooked, CountsType
<1>11. Together => NoneReserved'
    BY <1>1, <1>2 DEF NoneReserved, MutexType
<1> QED
    BY <1>7, <1>8, <1>9, <1>10, <1>11 DEF Books

\* Leaving frees one slot, and reserves at most what is then free.
LEMMA ReleaseKeeps ==
    ASSUME BusInv, NEW t \in Tasks, Release(t)
    PROVE  CountsType' /\ Books' /\ (Together => NotOverbooked' /\ NoneReserved')
<1>1. TypeOK /\ CountsType /\ MutexType /\ Books /\ (Together => NotOverbooked /\ NoneReserved)
    BY TypeParts DEF BusInv
<1>2. /\ pc[t] = "aboard" /\ mutex = Nobody
      /\ Together => \A u \in Tasks : pc[u] # "created"
      /\ busSlots' = busSlots + 1 /\ taskOnBus' = taskOnBus - 1
      /\ pc' = [pc EXCEPT ![t] = "done"]
      /\ UNCHANGED <<mutex, waiting>>
    BY DEF Release
<1>3. /\ busDirection' = After(t).direction /\ waitingTask' = After(t).reserved
      /\ wakeups' = After(t).wakeups
    BY DEF Release, After
<1>4. t \in OnBus /\ t \notin Woken /\ \A d, l : t \notin Waiters(d, l)
    BY <1>2 DEF OnBus, Woken, Waiters, Being
<1>5. /\ OnBus' = OnBus \ {t} /\ Woken' = Woken \ {t}
      /\ \A d, l : Waiters(d, l)' = Waiters(d, l) \ {t}
  <2>1. "done" \in Places /\ "done" # "aboard" /\ "done" # "woken" /\ "done" \notin {"waiting", "woken"}
      BY DEF Places
  <2>2. /\ OnBus' = IF "done" = "aboard" THEN OnBus \cup {t} ELSE OnBus \ {t}
        /\ Woken' = IF "done" = "woken" THEN Woken \cup {t} ELSE Woken \ {t}
        /\ \A d, l : Waiters(d, l)' =
              IF "done" \in {"waiting", "woken"} /\ Direction(t) = d /\ Level(t) = l
              THEN Waiters(d, l) \cup {t} ELSE Waiters(d, l) \ {t}
      BY <1>1, <1>2, <2>1, Moves
  <2> QED
      BY <2>1, <2>2
<1>6. Woken' = Woken /\ \A d, l : Waiters(d, l)' = Waiters(d, l)
    BY <1>4, <1>5
<1>7. /\ Cardinality(OnBus') = Cardinality(OnBus) - 1 /\ Cardinality(OnBus) > 0
      /\ Cardinality(Woken) \in Nat
    BY <1>4, <1>5, OneMore, CountedSets, TaskSets
<1>8. taskOnBus > 0 /\ SlotsAccounted'
    BY <1>1, <1>2, <1>7, TaskAssumption DEF Books, SlotsAccounted, CountsType
<1>9. /\ After(t) \in BusType
      /\ taskOnBus - 1 + waitingTask <= Capacity => taskOnBus - 1 + After(t).reserved <= Capacity
      /\ After(t).reserved - waitingTask = Sent(After(t).wakeups) - Sent(wakeups)
    BY <1>1, <1>8, ReleaseLeaves
<1>10. waitingTask' \in Nat /\ wakeups' \in Counts /\ busDirection' \in Directions \cup {"none"}
    BY <1>3, <1>9 DEF BusType
<1>11. \A w \in Counts : Sent(w) \in Nat
    BY DEF Counts, Sent, Directions, Levels
<1>12. WakeupsReserved'
  <2>1. waitingTask = Sent(wakeups) + Cardinality(Woken)
      BY <1>1, ReservedIs DEF Books
  <2>2. Sent(wakeups) \in Nat /\ Sent(wakeups') \in Nat /\ waitingTask \in Nat
      BY <1>1, <1>10, <1>11 DEF CountsType
  <2>3. waitingTask' = Sent(wakeups') + Cardinality(Woken')
      BY <1>3, <1>6, <1>7, <1>9, <1>10, <2>1, <2>2
  <2> QED
      BY <2>3 DEF WakeupsReserved, Sent, Woken
<1>13. WaitersCounted'
  <2>1. \A d \in Directions, l \in Levels : waiting'[d][l] = Cardinality(Waiters(d, l)')
      BY <1>1, <1>2, <1>6, WaitersCountedIs DEF Books
  <2> QED
      BY <2>1 DEF WaitersCounted, Waiters
<1>14. CountsType'
    BY <1>1, <1>2, <1>8, <1>10 DEF CountsType
<1>15. Together => NotOverbooked'
    BY <1>1, <1>2, <1>3, <1>8, <1>9, <1>10, TaskAssumption DEF NotOverbooked, CountsType
<1>16. Together => NoneReserved'
    BY <1>1, <1>2 DEF NoneReserved, MutexType
<1> QED
    BY <1>8, <1>12, <1>13, <1>14, <1>15, <1>16 DEF Books

LEMMA BusStep == BusInv /\ [Next]_vars => BusInv'
<1> SUFFICES ASSUME BusInv, [Next]_vars PROVE BusInv'
    OBVIOUS
<1>1. CASE UNCHANGED vars
    BY <1>1 DEF vars, BusInv, Books, TypeOK, SlotsAccounted, WaitersCounted, WakeupsReserved,
                NotOverbooked, NoneReserved, OnBus, Being
<1>2. CASE Next
  <2>1. PICK t \in Tasks : run_task(t)
      BY <1>2 DEF Next
  <2>2. MutexType'
      BY <2>1, MutexKept, TypeParts DEF BusInv
  <2>3. CountsType' /\ Books' /\ (Together => NotOverbooked' /\ NoneReserved')
      BY <2>1, ArriveKeeps, WakeUpKeeps, ResumeKeeps, BoardKeeps, ReleaseKeeps DEF run_task
  <2>4. TypeOK'
      BY <2>2, <2>3 DEF TypeOK, CountsType, MutexType, Counts, Places
  <2> QED
      BY <2>3, <2>4 DEF BusInv
<1> QED
    BY <1>1, <1>2

LEMMA BusInvariant == Spec => []BusInv
BY BusStart, BusStep, PTL DEF Spec

----------------------------------------------------------------------------
(* The results *)

\* Types, and mutual exclusion: get_slot's critical section has one task, the one
\* that holds the mutex.
THEOREM BusTypeCorrect == Spec => []TypeOK
<1>1. BusInv => TypeOK
    BY DEF BusInv
<1> QED
    BY <1>1, BusInvariant, PTL

\* task_on_bus and bus_slots account for the tasks on the bus, so there are never
\* more than BUS_CAPACITY of them.
THEOREM SlotsAreAccounted == Spec => []SlotsAccounted
<1>1. BusInv => SlotsAccounted
    BY DEF BusInv, Books
<1> QED
    BY <1>1, BusInvariant, PTL

\* The counts release_slot decides by are those of the tasks that wait.
THEOREM WaitersAreCounted == Spec => []WaitersCounted
<1>1. BusInv => WaitersCounted
    BY DEF BusInv, Books
<1> QED
    BY <1>1, BusInvariant, PTL

\* waiting_task is the number of wake-ups not yet used: none is lost or sent twice.
THEOREM WakeupsAreReserved == Spec => []WakeupsReserved
<1>1. BusInv => WakeupsReserved
    BY DEF BusInv, Books
<1> QED
    BY <1>1, BusInvariant, PTL

\* If every task comes before the first leaves, no task blocks on bus_slots with
\* the mutex held: release_slot never promises more than get_slot can give.
THEOREM TogetherFits == ASSUME Together PROVE Spec => []NotOverbooked
<1>1. BusInv => NotOverbooked
    BY DEF BusInv
<1> QED
    BY <1>1, BusInvariant, PTL

----------------------------------------------------------------------------
(* The timer, and the bus over it *)

TimerInv == TimerTypeOK /\ SleepersInOrder

\* The list that Block makes.
Inserted(s, k, e) == SubSeq(s, 1, k - 1) \o <<e>> \o SubSeq(s, k, Len(s))

\* What an insertion before position k does to a list.
LEMMA Insertion ==
    ASSUME NEW S, NEW s \in Seq(S), NEW e \in S, NEW k \in 1 .. Len(s) + 1
    PROVE  /\ Inserted(s, k, e) \in Seq(S) /\ Len(Inserted(s, k, e)) = Len(s) + 1
           /\ \A j \in 1 .. Len(s) + 1 :
                  Inserted(s, k, e)[j] =
                      IF j < k THEN s[j] ELSE IF j = k THEN e ELSE s[j - 1]
<1> DEFINE r == Inserted(s, k, e)
<1> DEFINE a == SubSeq(s, 1, k - 1)  b == SubSeq(s, k, Len(s))
<1>0. Len(s) \in Nat BY LenProperties
<1>1. a \in Seq(S) /\ Len(a) = k - 1 /\ \A i \in 1 .. k - 1 : a[i] = s[i]
  <2>1. \A i \in 1 .. k - 1 : s[i] \in S BY <1>0, ElementOfSeq
  <2> QED BY <1>0, <2>1, SubSeqProperties
<1>2. b \in Seq(S) /\ Len(b) = Len(s) - k + 1 /\ \A i \in 1 .. Len(s) - k + 1 : b[i] = s[k + i - 1]
  <2>1. \A i \in k .. Len(s) : s[i] \in S BY <1>0, ElementOfSeq
  <2> QED BY <1>0, <2>1, SubSeqProperties
<1> HIDE DEF a, b
<1> DEFINE c == a \o <<e>>
<1>3. c \in Seq(S) /\ Len(c) = k /\ \A i \in 1 .. k : c[i] = IF i < k THEN s[i] ELSE e
  <2>1. <<e>> \in Seq(S) /\ Len(<<e>>) = 1 /\ <<e>>[1] = e OBVIOUS
  <2> QED BY <1>0, <1>1, <2>1, ConcatProperties
<1>4. r = c \o b BY DEF a, b, c, Inserted
<1> HIDE DEF c, r
<1>d. c \in Seq(S) /\ b \in Seq(S) /\ Len(c) = k /\ Len(b) = Len(s) - k + 1
  BY <1>2, <1>3
<1>e. /\ c \o b \in Seq(S) /\ Len(c \o b) = Len(c) + Len(b)
      /\ \A j \in 1 .. Len(c) + Len(b) :
             (c \o b)[j] = IF j <= Len(c) THEN c[j] ELSE b[j - Len(c)]
  BY <1>d, ConcatProperties
<1>5. r \in Seq(S) /\ Len(r) = Len(s) + 1
  <2>1. k + (Len(s) - k + 1) = Len(s) + 1 BY <1>0
  <2> QED BY <1>4, <1>d, <1>e, <2>1
<1>6. ASSUME NEW j \in 1 .. Len(s) + 1
      PROVE  r[j] = IF j < k THEN s[j] ELSE IF j = k THEN e ELSE s[j - 1]
  <2>1. r[j] = IF j <= k THEN c[j] ELSE b[j - k]
    <3>1. j \in 1 .. Len(c) + Len(b) BY <1>0, <1>d
    <3> QED BY <1>4, <1>d, <1>e, <3>1
  <2>2. CASE j <= k
    <3>1. j \in 1 .. k BY <1>0, <2>2
    <3> QED BY <1>3, <2>1, <2>2, <3>1
  <2>3. CASE j > k
    <3>1. j - k \in 1 .. Len(s) - k + 1 /\ k + (j - k) - 1 = j - 1 BY <1>0, <2>3
    <3> QED BY <1>2, <2>1, <2>3, <3>1
  <2> QED BY <1>0, <2>2, <2>3
<1> QED BY <1>5, <1>6 DEF r

\* What is left of a list without its first k members.
LEMMA Removal ==
    ASSUME NEW S, NEW s \in Seq(S), NEW k \in 0 .. Len(s),
           NEW r, r = SubSeq(s, k + 1, Len(s))
    PROVE  /\ r \in Seq(S) /\ Len(r) = Len(s) - k
           /\ \A j \in 1 .. Len(s) - k : r[j] = s[j + k]
<1>0. Len(s) \in Nat BY LenProperties
<1>1. \A i \in k + 1 .. Len(s) : s[i] \in S BY <1>0, ElementOfSeq
<1> QED BY <1>0, <1>1, SubSeqProperties

\* A thread that blocks gets its place in the order.
LEMMA BlockKeeps ==
    ASSUME TimerInv, NEW t \in Threads, Block(t)
    PROVE  TimerInv' /\ OnTime
<1> USE DEF TimerInv, TimerTypeOK
<1>1. PICK k \in 1 .. Len(threadList) + 1 :
          /\ InsertAt(k, t)
          /\ threadList' = SubSeq(threadList, 1, k - 1) \o <<t>>
                               \o SubSeq(threadList, k, Len(threadList))
  BY DEF Block
<1>2. /\ threadList' \in Seq(Threads) /\ Len(threadList') = Len(threadList) + 1
      /\ \A j \in 1 .. Len(threadList) + 1 :
             threadList'[j] = IF j < k THEN threadList[j]
                              ELSE IF j = k THEN t ELSE threadList[j - 1]
  <2> DEFINE l == threadList'
  <2>1. threadList \in Seq(Threads) /\ t \in Threads /\ k \in 1 .. Len(threadList) + 1
    OBVIOUS
  <2>2. l = Inserted(threadList, k, t) BY <1>1 DEF Inserted
  <2> HIDE DEF TimerInv, TimerTypeOK, l
  <2>3. /\ l \in Seq(Threads) /\ Len(l) = Len(threadList) + 1
        /\ \A j \in 1 .. Len(threadList) + 1 :
               l[j] = IF j < k THEN threadList[j] ELSE IF j = k THEN t ELSE threadList[j - 1]
    BY ONLY <2>1, <2>2, Insertion, SMTT(30)
  <2> QED BY <2>3 DEF l
<1>3. /\ Len(threadList) \in Nat
      /\ DOMAIN threadList = 1 .. Len(threadList)
      /\ DOMAIN threadList' = 1 .. Len(threadList) + 1
      /\ \A j \in 1 .. Len(threadList) : threadList[j] \in Threads
  BY <1>2, LenProperties, ElementOfSeq
<1>n. Len(threadList) \in Nat BY LenProperties
<1>o. \A i, j \in 1 .. Len(threadList) :
          i < j => /\ threadList[i] # threadList[j]
                   /\ remaining[threadList[i]] <= remaining[threadList[j]]
  BY <1>3 DEF SleepersInOrder
<1>4. /\ phase[t] = "setting" /\ remaining' = remaining
      /\ phase' = [phase EXCEPT ![t] = "asleep"]
  BY DEF Block
<1>5. \A j \in 1 .. Len(threadList) : threadList[j] # t
  BY <1>3, <1>4 DEF SleepersInOrder
<1>6. \A j \in 1 .. Len(threadList) :
          IF j < k THEN remaining[threadList[j]] <= remaining[t]
                   ELSE remaining[t] <= remaining[threadList[j]]
  <2> SUFFICES ASSUME NEW j \in 1 .. Len(threadList)
               PROVE  IF j < k THEN remaining[threadList[j]] <= remaining[t]
                               ELSE remaining[t] <= remaining[threadList[j]]
      OBVIOUS
  <2>1. remaining[threadList[j]] \in Int /\ remaining[t] \in Int
    BY <1>3
  <2>2. CASE j < k
    BY <1>1, <2>1, <2>2 DEF InsertAt, thread_comparison
  <2>3. CASE j >= k
    <3>1. k \in 1 .. Len(threadList) /\ remaining[threadList[k]] \in Int
      BY <1>3, <2>3
    <3>2. remaining[t] < remaining[threadList[k]]
      BY <1>1, <3>1 DEF InsertAt, thread_comparison
    <3>3. remaining[threadList[k]] <= remaining[threadList[j]]
      BY <1>o, <2>1, <2>3, <3>1
    <3> QED BY <2>1, <2>3, <3>1, <3>2, <3>3
  <2> QED BY <1>3, <2>2, <2>3
<1>7. SleepersInOrder'
  <2>1. ASSUME NEW i \in 1 .. Len(threadList) + 1, NEW j \in 1 .. Len(threadList) + 1, i < j
        PROVE  /\ threadList'[i] # threadList'[j]
               /\ remaining[threadList'[i]] <= remaining[threadList'[j]]
    <3>0. threadList'[i] = (IF i < k THEN threadList[i] ELSE IF i = k THEN t ELSE threadList[i - 1])
          /\ threadList'[j] = (IF j < k THEN threadList[j] ELSE IF j = k THEN t ELSE threadList[j - 1])
      BY <1>2
    <3>1. CASE j < k BY <1>o, <1>3, <1>4, <2>1, <3>0, <3>1
    <3>2. CASE j = k BY <1>3, <1>4, <1>5, <1>6, <2>1, <3>0, <3>2
    <3>3. CASE j > k /\ i < k
      <4>1. i \in 1 .. Len(threadList) /\ j - 1 \in 1 .. Len(threadList) /\ i < j - 1
        BY <1>3, <2>1, <3>3
      <4>2. threadList'[i] = threadList[i] /\ threadList'[j] = threadList[j - 1]
        BY <1>3, <3>0, <3>3
      <4> QED BY <1>o, <4>1, <4>2
    <3>4. CASE j > k /\ i = k
      <4>1. j - 1 \in 1 .. Len(threadList) /\ ~ (j - 1 < k)
        BY <1>3, <2>1, <3>4
      <4> QED BY <1>4, <1>5, <1>6, <3>0, <3>4, <4>1
    <3>5. CASE j > k /\ i > k
      <4>1. i - 1 \in 1 .. Len(threadList) /\ j - 1 \in 1 .. Len(threadList) /\ i - 1 < j - 1
        BY <1>3, <2>1, <3>5
      <4>2. threadList'[i] = threadList[i - 1] /\ threadList'[j] = threadList[j - 1]
        BY <1>3, <3>0, <3>5
      <4> QED BY <1>o, <4>1, <4>2
    <3> QED BY <1>3, <3>1, <3>2, <3>3, <3>4, <3>5
  <2>2. ASSUME NEW u \in Threads
        PROVE  phase'[u] = "asleep" <=> \E j \in 1 .. Len(threadList) + 1 : threadList'[j] = u
    <3>1. CASE u = t BY <1>2, <1>3, <1>4, <3>1
    <3>2. CASE u # t
      <4>1. phase'[u] = phase[u] BY <1>4, <3>2
      <4>2. ASSUME NEW j \in 1 .. Len(threadList), threadList[j] = u
            PROVE  \E i \in 1 .. Len(threadList) + 1 : threadList'[i] = u
        <5>1. CASE j < k
          <6>1. j \in 1 .. Len(threadList) + 1 /\ threadList'[j] = u
            BY <1>2, <1>3, <4>2, <5>1
          <6> QED BY <6>1
        <5>2. CASE j >= k
          <6>1. j + 1 \in 1 .. Len(threadList) + 1 /\ ~ (j + 1 < k) /\ j + 1 # k /\ j + 1 - 1 = j
            BY <1>n, <5>2
          <6>2. threadList'[j + 1] = threadList[j + 1 - 1] BY <1>2, <6>1, SMTT(30)
          <6>3. threadList'[j + 1] = u BY <4>2, <6>1, <6>2
          <6> QED BY <6>1, <6>3
        <5>3. j < k \/ j >= k BY <1>n
        <5> QED BY <5>1, <5>2, <5>3
      <4>3. ASSUME NEW j \in 1 .. Len(threadList) + 1, threadList'[j] = u
            PROVE  \E i \in 1 .. Len(threadList) : threadList[i] = u
        <5>1. CASE j < k BY <1>2, <1>3, <4>3, <5>1
        <5>2. CASE j > k
          <6>1. j - 1 \in 1 .. Len(threadList) /\ threadList[j - 1] = u
            BY <1>2, <1>3, <4>3, <5>2
          <6> QED BY <6>1
        <5>3. j # k BY <1>2, <3>2, <4>3
        <5>4. j < k \/ j > k BY <1>n, <5>3
        <5> QED BY <5>1, <5>2, <5>4
      <4> QED BY <1>3, <4>1, <4>2, <4>3 DEF SleepersInOrder
    <3> QED BY <3>1, <3>2
  <2>3. \A i, j \in DOMAIN threadList' :
            i < j => /\ threadList'[i] # threadList'[j]
                     /\ remaining'[threadList'[i]] <= remaining'[threadList'[j]]
    BY <1>3, <1>4, <2>1
  <2>4. \A u \in Threads :
            phase'[u] = "asleep" <=> \E j \in DOMAIN threadList' : threadList'[j] = u
    BY <1>3, <2>2
  <2> QED BY <2>3, <2>4 DEF SleepersInOrder
<1>8. OnTime BY <1>4 DEF OnTime
<1> QED BY <1>2, <1>4, <1>7, <1>8

\* A tick takes the front of the list, and with it all who are due.
LEMMA TickKeeps ==
    ASSUME TimerInv, timer_interrupt
    PROVE  TimerInv' /\ OnTime
<1> USE DEF TimerInv, TimerTypeOK
<1>1. PICK k \in 0 .. Len(threadList) :
          /\ \A j \in 1 .. k : Due(threadList[j])
          /\ k < Len(threadList) => ~ Due(threadList[k + 1])
          /\ threadList' = SubSeq(threadList, k + 1, Len(threadList))
          /\ phase' = [t \in Threads |->
                 IF \E j \in 1 .. k : threadList[j] = t THEN "woken" ELSE phase[t]]
  BY DEF timer_interrupt
<1>2. remaining' = [t \in Threads |->
                       IF Sleeping(t) THEN remaining[t] - 1 ELSE remaining[t]]
  BY DEF timer_interrupt
<1>3. /\ threadList' \in Seq(Threads) /\ Len(threadList') = Len(threadList) - k
      /\ \A j \in 1 .. Len(threadList) - k : threadList'[j] = threadList[j + k]
  BY <1>1, Removal
<1>4. /\ Len(threadList) \in Nat
      /\ DOMAIN threadList = 1 .. Len(threadList)
      /\ DOMAIN threadList' = 1 .. Len(threadList) - k
      /\ \A j \in 1 .. Len(threadList) :
             threadList[j] \in Threads /\ phase[threadList[j]] = "asleep"
  <2>1. /\ Len(threadList) \in Nat
        /\ DOMAIN threadList = 1 .. Len(threadList)
        /\ DOMAIN threadList' = 1 .. Len(threadList) - k
    BY <1>3, LenProperties
  <2>2. \A j \in 1 .. Len(threadList) : threadList[j] \in Threads
    BY <2>1, ElementOfSeq
  <2> QED BY <2>1, <2>2 DEF SleepersInOrder
<1>n. Len(threadList) \in Nat BY LenProperties
<1>o. \A i, j \in 1 .. Len(threadList) :
          i < j => /\ threadList[i] # threadList[j]
                   /\ remaining[threadList[i]] <= remaining[threadList[j]]
  BY <1>4 DEF SleepersInOrder
<1>5. TimerTypeOK'
  BY <1>1, <1>2, <1>3
<1>6. \A j \in 1 .. Len(threadList) :
          remaining'[threadList[j]] = remaining[threadList[j]] - 1
  BY <1>2, <1>4 DEF Sleeping
<1>7. \A i, j \in 1 .. Len(threadList) : threadList[i] = threadList[j] => i = j
  <2>1. \A i, j \in 1 .. Len(threadList) : i = j \/ i < j \/ j < i BY <1>n
  <2> QED BY <1>o, <2>1
<1>8. SleepersInOrder'
  <2>1. ASSUME NEW i \in 1 .. Len(threadList) - k, NEW j \in 1 .. Len(threadList) - k, i < j
        PROVE  /\ threadList'[i] # threadList'[j]
               /\ remaining'[threadList'[i]] <= remaining'[threadList'[j]]
    <3>1. i + k \in 1 .. Len(threadList) /\ j + k \in 1 .. Len(threadList) /\ i + k < j + k
      BY <1>4, <2>1
    <3>2. /\ threadList[i + k] # threadList[j + k]
          /\ remaining[threadList[i + k]] <= remaining[threadList[j + k]]
      BY <1>o, <3>1
    <3>3. remaining[threadList[i + k]] \in Int /\ remaining[threadList[j + k]] \in Int
      BY <1>4, <3>1
    <3>4. threadList'[i] = threadList[i + k] /\ threadList'[j] = threadList[j + k]
      BY <1>3
    <3> QED BY <1>6, <3>1, <3>2, <3>3, <3>4
  <2>2. ASSUME NEW u \in Threads
        PROVE  phase'[u] = "asleep" <=> \E j \in 1 .. Len(threadList) - k : threadList'[j] = u
    <3>1. ASSUME NEW j \in 1 .. Len(threadList), threadList[j] = u
          PROVE  phase'[u] = "asleep" <=> j > k
      BY <1>1, <1>4, <1>7, <3>1
    <3>2. ASSUME phase'[u] = "asleep"
          PROVE  \E j \in 1 .. Len(threadList) - k : threadList'[j] = u
      <4>1. phase[u] = "asleep" BY <1>1, <3>2
      <4>2. PICK j \in 1 .. Len(threadList) : threadList[j] = u
        BY <1>4, <4>1 DEF SleepersInOrder
      <4>3. j > k BY <3>1, <3>2, <4>2
      <4>4. j - k \in 1 .. Len(threadList) - k /\ threadList'[j - k] = u
        BY <1>3, <1>4, <4>2, <4>3
      <4> QED BY <4>4
    <3>3. ASSUME NEW j \in 1 .. Len(threadList) - k, threadList'[j] = u
          PROVE  phase'[u] = "asleep"
      <4>1. j + k \in 1 .. Len(threadList) /\ threadList[j + k] = u /\ j + k > k
        BY <1>3, <1>4, <3>3
      <4> QED BY <3>1, <4>1
    <3> QED BY <3>2, <3>3
  <2> QED BY <1>4, <2>1, <2>2 DEF SleepersInOrder
<1>9. OnTime
  <2> SUFFICES ASSUME NEW u \in Threads, phase[u] = "asleep"
               PROVE  phase'[u] # "asleep" <=>
                          remaining'[u] < remaining[u] /\ remaining'[u] <= 0
      BY DEF OnTime
  <2>1. PICK j \in 1 .. Len(threadList) : threadList[j] = u
    BY <1>4 DEF SleepersInOrder
  <2>2. remaining[u] \in Int /\ remaining'[u] = remaining[u] - 1
    BY <1>6, <2>1
  <2>3. CASE j <= k
    <3>1. Due(u) BY <1>1, <1>4, <2>1, <2>3
    <3>2. phase'[u] = "woken" BY <1>1, <1>4, <2>1, <2>3
    <3> QED BY <2>2, <3>1, <3>2 DEF Due
  <2>4. CASE j > k
    <3>1. phase'[u] = "asleep" BY <1>1, <1>4, <1>7, <2>1, <2>4
    <3>2. k + 1 \in 1 .. Len(threadList) /\ ~ Due(threadList[k + 1])
      BY <1>1, <1>4, <2>4
    <3>3. remaining[threadList[k + 1]] \in Int BY <1>4, <3>2
    <3>4. remaining[threadList[k + 1]] <= remaining[u]
      BY <1>4, <1>o, <2>1, <2>2, <2>4, <3>2
    <3> QED BY <2>2, <3>1, <3>2, <3>3, <3>4 DEF Due
  <2> QED BY <1>4, <2>3, <2>4
<1> QED BY <1>5, <1>8, <1>9

\* Setting the time and returning concern only threads that are not in the list.
LEMMA OthersKeep ==
    ASSUME TimerInv, NEW t \in Threads,
           Return(t) \/ \E n \in Nat : timer_sleep(t, n)
    PROVE  TimerInv' /\ OnTime
<1> USE DEF TimerInv, TimerTypeOK
<1>1. /\ threadList' = threadList /\ phase[t] # "asleep"
      /\ phase' \in [Threads -> {"awake", "setting", "asleep", "woken"}]
      /\ remaining' \in [Threads -> Int] /\ phase'[t] # "asleep"
      /\ \A u \in Threads : u # t => phase'[u] = phase[u] /\ remaining'[u] = remaining[u]
  <2>1. CASE Return(t) BY <2>1 DEF Return
  <2>2. ASSUME NEW n \in Nat, timer_sleep(t, n)
        PROVE  /\ threadList' = threadList /\ phase[t] # "asleep"
               /\ phase' = [phase EXCEPT ![t] = "setting"]
               /\ remaining' = [remaining EXCEPT ![t] = n] /\ n \in Int
    BY <2>2 DEF timer_sleep
  <2> QED BY <2>1, <2>2
<1>2. /\ DOMAIN threadList = 1 .. Len(threadList)
      /\ \A j \in 1 .. Len(threadList) : threadList[j] \in Threads
  BY LenProperties, ElementOfSeq
<1>3. \A j \in 1 .. Len(threadList) : threadList[j] # t
  BY <1>1, <1>2 DEF SleepersInOrder
<1>4. \A u \in Threads : phase'[u] = "asleep" <=> phase[u] = "asleep"
  BY <1>1
<1>5. SleepersInOrder' BY <1>1, <1>2, <1>3, <1>4 DEF SleepersInOrder
<1>6. OnTime
  <2> SUFFICES ASSUME NEW u \in Threads, phase[u] = "asleep"
               PROVE  phase'[u] = "asleep" /\ ~ (remaining'[u] < remaining[u])
      BY DEF OnTime
  <2>1. u # t /\ phase'[u] = "asleep" BY <1>1
  <2>2. remaining'[u] = remaining[u] /\ remaining[u] \in Int BY <1>1, <2>1
  <2> QED BY <2>1, <2>2
<1> QED BY <1>1, <1>5, <1>6

LEMMA TimerStep ==
    ASSUME TimerInv, [BusNext]_busVars
    PROVE  TimerInv' /\ (OnTime \/ UNCHANGED timerVars)
<1>1. CASE UNCHANGED timerVars
  BY <1>1 DEF TimerInv, TimerTypeOK, SleepersInOrder, timerVars
<1>2. ASSUME NEW t \in Tasks, TransferData(t) PROVE TimerInv' /\ OnTime
  <2>1. t \in Threads BY DurationAssumption
  <2>2. CASE Block(t) BY <2>1, <2>2, BlockKeeps
  <2>3. CASE timer_sleep(t, TransferDuration[t])
    <3>1. TransferDuration[t] \in Nat BY <2>1, DurationAssumption
    <3> QED BY <2>1, <2>3, <3>1, OthersKeep
  <2> QED BY <1>2, <2>2, <2>3 DEF TransferData
<1>3. ASSUME NEW t \in Tasks, ReleaseSlot(t) PROVE TimerInv' /\ OnTime
  <2>1. t \in Threads /\ Return(t) BY <1>3, DurationAssumption DEF ReleaseSlot
  <2> QED BY <2>1, OthersKeep
<1>4. CASE Tick BY <1>4, TickKeeps DEF Tick
<1>5. ASSUME NEW t \in Tasks, GetSlot(t) PROVE UNCHANGED timerVars
  BY <1>5 DEF GetSlot
<1> QED BY <1>1, <1>2, <1>3, <1>4, <1>5 DEF BusNext, busVars

LEMMA TimerStart == BusInit => TimerInv
BY DEF BusInit, TimerInit, TimerInv, TimerTypeOK, SleepersInOrder

\* The list of sleeping threads is complete, without doubles and in order.
THEOREM SleepersAreInOrder == BusSpec => []SleepersInOrder
<1>1. TimerInv => SleepersInOrder BY DEF TimerInv
<1> QED BY TimerStart, TimerStep, <1>1, PTL DEF BusSpec

\* No thread sleeps past the first tick at which it is due, and none is woken before.
THEOREM SleepersAreWokenOnTime == BusSpec => WokenOnTime
<1>1. TimerInv /\ [BusNext]_busVars => TimerInv' /\ [OnTime]_timerVars
  BY TimerStep
<1> QED BY TimerStart, <1>1, PTL DEF BusSpec, WokenOnTime

----------------------------------------------------------------------------
\* For the bus, a step of the timer is none.
LEMMA BusSteps == [BusNext]_busVars => [Next]_vars
<1> SUFFICES ASSUME BusNext PROVE [Next]_vars
    BY DEF busVars, vars
<1>1. ASSUME NEW t \in Tasks, GetSlot(t) PROVE Next
    BY <1>1 DEF GetSlot, Next, run_task
<1>2. ASSUME NEW t \in Tasks, ReleaseSlot(t) PROVE Next
    BY <1>2 DEF ReleaseSlot, Next, run_task
<1>3. ASSUME NEW t \in Tasks, TransferData(t) PROVE UNCHANGED vars
    BY <1>3 DEF TransferData
<1> QED
    BY <1>1, <1>2, <1>3 DEF BusNext, Tick

\* Transfers that sleep keep the bus in its steps: all of TransfersEnd but the fairness.
THEOREM TimedBusIsTheBus == BusSpec => Init /\ [][Next]_vars
<1>1. BusInit => Init
    BY DEF BusInit
<1> QED
    BY <1>1, BusSteps, PTL DEF BusSpec

\* So release_slot's counts and wake-ups are right however long the transfers take and
\* whenever the tasks come.
THEOREM TimedBooks == BusSpec => [](SlotsAccounted /\ WaitersCounted /\ WakeupsReserved)
<1>1. BusInv => SlotsAccounted /\ WaitersCounted /\ WakeupsReserved
    BY DEF BusInv, Books
<1> QED
    BY <1>1, TimedBusIsTheBus, BusStart, BusStep, PTL

\* If no task leaves before all have come, get_slot is never blocked on a slot with the
\* mutex held, however long the transfers take; a task that comes later can be.
THEOREM TimedBusFits ==
    ASSUME Together
    PROVE  BusSpec => []NotOverbooked
<1>1. BusInv => NotOverbooked
    BY DEF BusInv
<1> QED
    BY <1>1, TimedBusIsTheBus, BusStart, BusStep, PTL

=============================================================================
