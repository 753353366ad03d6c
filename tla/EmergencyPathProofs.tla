-------------------------- MODULE EmergencyPathProofs --------------------------
(***************************************************************************)
(* Proofs about the way from the sensors to the doors, for all doors,        *)
(* sensors, limits and faults: no connection of a door is closed by anybody  *)
(* but the one thread that owns it, and the fire alarm unit behaves as it   *)
(* does alone, whatever the sensors send it.                                *)
(***************************************************************************)
EXTENDS EmergencyPath, TLAPS, FiniteSetTheorems, SequenceTheorems, WellFoundedInduction

\* What is proved of the fire alarm unit alone.
FAProofs == INSTANCE FireAlarmProofs

-----------------------------------------------------------------------------
(* Sequences and sets.                                                      *)

\* What is left of a sequence without its element i.
LEMMA WithoutFacts ==
  ASSUME NEW T, NEW s \in Seq(T), NEW i \in 1..Len(s)
  PROVE  /\ D!Without(s, i) \in Seq(T)
         /\ Len(D!Without(s, i)) = Len(s) - 1
         /\ \A k \in 1..(Len(s) - 1) :
              D!Without(s, i)[k] = IF k < i THEN s[k] ELSE s[k + 1]
<1> DEFINE a == SubSeq(s, 1, i - 1)
           b == SubSeq(s, i + 1, Len(s))
<1>1. Len(s) \in Nat
  OBVIOUS
<1>2. /\ a \in Seq(T) /\ Len(a) = i - 1
      /\ \A k \in 1..(i - 1) : a[k] = s[k]
  OBVIOUS
<1>3. /\ b \in Seq(T) /\ Len(b) = Len(s) - i
      /\ \A k \in 1..(Len(s) - i) : b[k] = s[i + k]
  OBVIOUS
<1>4. D!Without(s, i) = a \o b
  BY DEF D!Without
<1> HIDE DEF a, b
<1>5. /\ a \o b \in Seq(T) /\ Len(a \o b) = Len(a) + Len(b)
      /\ \A k \in 1..(Len(a) + Len(b)) :
           (a \o b)[k] = IF k <= Len(a) THEN a[k] ELSE b[k - Len(a)]
  BY <1>2, <1>3, ConcatProperties
<1>6. Len(a) + Len(b) = Len(s) - 1
  BY <1>1, <1>2, <1>3
<1>7. ASSUME NEW k \in 1..(Len(s) - 1)
      PROVE  (a \o b)[k] = IF k < i THEN s[k] ELSE s[k + 1]
  <2>1. CASE k < i
    BY <1>1, <1>2, <1>5, <1>6, <2>1
  <2>2. CASE ~(k < i)
    <3>1. k - Len(a) \in 1..(Len(s) - i) /\ i + (k - Len(a)) = k + 1 /\ ~(k <= Len(a))
      BY <1>1, <1>2, <2>2
    <3>2. (a \o b)[k] = b[k - Len(a)]
      BY <1>5, <1>6, <3>1
    <3>3. b[k - Len(a)] = s[i + (k - Len(a))]
      BY <1>3, <3>1
    <3> QED
      BY <2>2, <3>1, <3>2, <3>3
  <2> QED
    BY <2>1, <2>2
<1> QED
  BY <1>4, <1>5, <1>6, <1>7

\* The numbers up to n can be counted.
LEMMA UpTo ==
  ASSUME NEW n \in Nat
  PROVE  IsFiniteSet(1..n) /\ Cardinality(1..n) = n
  BY FS_Interval

\* The kernel's choice is one of the free descriptors.
LEMMA LowestIsFree ==
  ASSUME NEW F \in SUBSET Nat, F # {}
  PROVE  D!Lowest(F) \in F
<1>1. \E x \in F : \A y \in F : ~(<<y, x>> \in OpToRel(<, Nat))
  BY WFMin, NatLessThanWellFounded
<1>2. \A x, y \in Nat : <<y, x>> \in OpToRel(<, Nat) <=> y < x
  BY DEF OpToRel
<1>3. \E x \in F : \A y \in F : ~(y < x)
  BY <1>1, <1>2, Zenon
<1>4. \E x \in F : \A y \in F : x <= y
  BY <1>3
<1> QED
  BY <1>4 DEF D!Lowest

-----------------------------------------------------------------------------
(* The connections of a door.                                               *)

\* The descriptors op are open; the threads were given th, no two the same; nobody
\* closes lk; main() holds those in hand.
Owned(op, th, lk, hand) ==
  /\ \A i, j \in 1..Len(th) : th[i] = th[j] => i = j
  /\ \A i \in 1..Len(th) : th[i] \in op /\ th[i] \notin hand \cup lk
  /\ hand \cap lk = {}
  /\ hand \cup lk \subseteq op
  /\ \A fd \in op : fd \in hand \cup lk \/ \E i \in 1..Len(th) : th[i] = fd

\* A descriptor that was free has no owner yet.
LEMMA AcceptOwned ==
  ASSUME NEW op, NEW th, NEW lk, Owned(op, th, lk, {}), NEW fd, fd \notin op
  PROVE  Owned(op \cup {fd}, th, lk, {fd})
  BY DEF Owned

\* The new thread takes over what main() holds.
LEMMA SpawnOwned ==
  ASSUME NEW op, NEW T, NEW th \in Seq(T), NEW lk, NEW fd \in T,
         Owned(op, th, lk, {fd})
  PROVE  Owned(op, Append(th, fd), lk, {})
<1> DEFINE new == Append(th, fd)
<1>1. /\ Len(th) \in Nat /\ Len(new) = Len(th) + 1 /\ new[Len(th) + 1] = fd
      /\ \A i \in 1..Len(th) : new[i] = th[i]
  OBVIOUS
<1> HIDE DEF new
<1>2. \A i \in 1..Len(new) : i \in 1..Len(th) \/ i = Len(th) + 1
  BY <1>1
<1>3. \A i \in 1..Len(th) : i \in 1..Len(new) /\ th[i] # fd
  BY <1>1 DEF Owned
<1>4. Len(th) + 1 \in 1..Len(new)
  BY <1>1
<1>5. \A i, j \in 1..Len(new) : new[i] = new[j] => i = j
  BY <1>1, <1>2, <1>3 DEF Owned
<1>6. \A i \in 1..Len(new) : new[i] \in op /\ new[i] \notin lk
  BY <1>1, <1>2 DEF Owned
<1>7. \A x \in op : x \in lk \/ \E i \in 1..Len(new) : new[i] = x
  BY <1>1, <1>3, <1>4 DEF Owned
<1>8. Owned(op, new, lk, {})
  BY <1>5, <1>6, <1>7 DEF Owned
<1> QED
  BY <1>8 DEF new

\* If there is no thread, nobody closes what main() held.
LEMMA LeakOwned ==
  ASSUME NEW op, NEW th, NEW lk, NEW fd, Owned(op, th, lk, {fd})
  PROVE  Owned(op, th, lk \cup {fd}, {})
  BY DEF Owned

\* A thread closes what it was given, which is nobody else's.
LEMMA CloseOwned ==
  ASSUME NEW op, NEW T, NEW th \in Seq(T), NEW lk, NEW hand, Owned(op, th, lk, hand),
         NEW i \in 1..Len(th)
  PROVE  Owned(op \ {th[i]}, D!Without(th, i), lk, hand)
<1> DEFINE rest == D!Without(th, i)
           At(k) == IF k < i THEN k ELSE k + 1
<1>1. /\ Len(th) \in Nat /\ Len(rest) = Len(th) - 1
      /\ \A k \in 1..(Len(th) - 1) : rest[k] = IF k < i THEN th[k] ELSE th[k + 1]
  BY WithoutFacts
<1> HIDE DEF rest
<1>2. \A k \in 1..Len(rest) : At(k) \in 1..Len(th) /\ At(k) # i /\ rest[k] = th[At(k)]
  BY <1>1
<1>3. \A k, m \in 1..Len(rest) : At(k) = At(m) => k = m
  BY <1>1
<1>4. \A m \in 1..Len(th) : m # i => \E k \in 1..Len(rest) : At(k) = m
  <2> SUFFICES ASSUME NEW m \in 1..Len(th), m # i
               PROVE  \E k \in 1..Len(rest) : At(k) = m
    OBVIOUS
  <2>1. CASE m < i
    BY <1>1, <2>1
  <2>2. CASE m > i
    <3>1. m - 1 \in 1..Len(rest) /\ At(m - 1) = m
      BY <1>1, <2>2
    <3> QED
      BY <3>1
  <2> QED
    BY <1>1, <2>1, <2>2
<1> HIDE DEF At
<1>5. \A k, m \in 1..Len(rest) : rest[k] = rest[m] => k = m
  BY <1>2, <1>3 DEF Owned
<1>6. \A k \in 1..Len(rest) : rest[k] \in op \ {th[i]} /\ rest[k] \notin hand \cup lk
  BY <1>2 DEF Owned
<1>7. \A x \in op \ {th[i]} : x \in hand \cup lk \/ \E k \in 1..Len(rest) : rest[k] = x
  BY <1>2, <1>4 DEF Owned
<1>8. Owned(op \ {th[i]}, rest, lk, hand)
  BY <1>5, <1>6, <1>7 DEF Owned
<1> QED
  BY <1>8 DEF rest

\* Owned connections can be counted: the threads, what main() holds, what is lost.
LEMMA CountOwned ==
  ASSUME NEW n \in Nat, NEW op \in SUBSET (1..n), NEW th \in Seq(1..n),
         NEW lk \in SUBSET (1..n), NEW hand \in SUBSET (1..n),
         Owned(op, th, lk, hand)
  PROVE  /\ op = {th[i] : i \in DOMAIN th} \cup hand \cup lk
         /\ Cardinality(op) = Len(th) + Cardinality(hand) + Cardinality(lk)
<1> DEFINE given == {th[i] : i \in DOMAIN th}
<1>1. /\ Len(th) \in Nat /\ DOMAIN th = 1..Len(th)
      /\ th \in [1..Len(th) -> 1..n]
  OBVIOUS
<1>2. given = {th[i] : i \in 1..Len(th)}
  BY <1>1
<1> HIDE DEF given
<1>3. op = given \cup hand \cup lk
  <2>1. \A x \in op : x \in given \cup hand \cup lk
    BY <1>2 DEF Owned
  <2>2. \A x \in given : x \in op
    BY <1>2 DEF Owned
  <2>3. \A x \in hand \cup lk : x \in op
    BY DEF Owned
  <2> QED
    BY <2>1, <2>2, <2>3
<1>4. given \cap (hand \cup lk) = {} /\ hand \cap lk = {}
  BY <1>2 DEF Owned
<1>5. IsFiniteSet(given) /\ Cardinality(given) = Len(th)
  <2>1. IsFiniteSet(1..Len(th)) /\ Cardinality(1..Len(th)) = Len(th)
    BY <1>1, UpTo
  <2>2. th \in Bijection(1..Len(th), given)
    BY <1>1, <1>2 DEF Owned, Bijection, Injection, Surjection, IsInjective
  <2> QED
    BY <2>1, <2>2, FS_Bijection DEF ExistsBijection
<1>6. IsFiniteSet(hand) /\ IsFiniteSet(lk)
  <2>1. IsFiniteSet(1..n)
    BY UpTo
  <2> QED
    BY <2>1, FS_Subset
<1>7. /\ IsFiniteSet(hand \cup lk)
      /\ Cardinality(hand \cup lk) = Cardinality(hand) + Cardinality(lk)
  <2>1. Cardinality(hand \cap lk) = 0
    BY <1>4, FS_EmptySet
  <2>2. /\ IsFiniteSet(hand \cup lk)
        /\ Cardinality(hand \cup lk) =
             Cardinality(hand) + Cardinality(lk) - Cardinality(hand \cap lk)
    BY <1>6, FS_Union
  <2>3. Cardinality(hand) \in Nat /\ Cardinality(lk) \in Nat
    BY <1>6, FS_CardinalityType
  <2> QED
    BY <2>1, <2>2, <2>3
<1>8. Cardinality(op) = Len(th) + Cardinality(hand) + Cardinality(lk)
  <2>1. Cardinality(given \cap (hand \cup lk)) = 0
    BY <1>4, FS_EmptySet
  <2>2. Cardinality(given \cup (hand \cup lk)) =
          Cardinality(given) + Cardinality(hand \cup lk)
            - Cardinality(given \cap (hand \cup lk))
    BY <1>5, <1>7, FS_Union
  <2>3. op = given \cup (hand \cup lk)
    BY <1>3
  <2>4. Cardinality(hand) \in Nat /\ Cardinality(lk) \in Nat
    BY <1>6, FS_CardinalityType
  <2> QED
    BY <1>1, <1>5, <1>7, <2>1, <2>2, <2>3, <2>4
<1> QED
  BY <1>3, <1>8 DEF given

\* main() holds a descriptor between accept() and pthread_create().
Hand(d) == IF door[d] = "spawn" THEN {newSocket[d]} ELSE {}

OwnerInv == \A d \in Doors : Owned(open[d], threads[d], leaked[d], Hand(d))

\* What happens to a door: its own steps, and a connection made to it.
DoorStep(d) ==
  \/ D!Start(d) \/ D!Accept(d) \/ D!Return(d) \/ D!Spawn(d) \/ D!Connected(d)
  \/ \E i \in DOMAIN threads[d] : D!HandleConnection(d, i)

\* The unit and the sensors do nothing to a door but connect to it.
LEMMA DoorProjection ==
  ASSUME [Next]_vars
  PROVE  (\E d \in Doors : DoorStep(d)) \/ UNCHANGED doorVars
<1>1. ASSUME NEW s \in Sensors, SensorStep(s) \/ ThermometerStep(s)
      PROVE  UNCHANGED doorVars
  BY <1>1 DEF SensorStep, Send, ThermometerStep, ThermometerEnds
<1>2. ASSUME NEW dg \in net, Hear(dg) \/ Lose(dg) PROVE UNCHANGED doorVars
  BY <1>2 DEF Hear, Lose
<1>3. Fire => UNCHANGED doorVars
  BY DEF Fire
<1>4. ASSUME NEW d \in Doors, Enrol(d) \/ NoSocket(d) PROVE UNCHANGED doorVars
  BY <1>4 DEF Enrol, NoSocket
<1>5. ASSUME UnitStep PROVE (\E d \in Doors : DoorStep(d)) \/ UNCHANGED doorVars
  BY <1>5 DEF UnitStep, Dial, DoorStep
<1>6. ASSUME NEW d \in Doors,
             \/ MainStep(d) \/ AcceptAborts(d)
             \/ \E fd \in 1..DoorFds : ThreadStep(d, fd)
      PROVE  DoorStep(d)
  BY <1>6 DEF MainStep, D!Main, D!AcceptFails, AcceptAborts, D!AcceptAborts, ThreadStep,
     DoorStep
<1>7. UNCHANGED vars => UNCHANGED doorVars
  BY DEF vars
<1>8. Around => UNCHANGED doorVars
  BY DEF Around
<1> QED
  BY <1>1, <1>2, <1>3, <1>4, <1>5, <1>6, <1>7, <1>8 DEF Next

\* A step at one door leaves the others as they are.
LEMMA OthersKept ==
  ASSUME D!TypeOK, NEW d \in Doors, DoorStep(d), NEW e \in Doors, e # d
  PROVE  /\ open'[e] = open[e] /\ threads'[e] = threads[e] /\ leaked'[e] = leaked[e]
         /\ Hand(e)' = Hand(e)
<1> USE DEF D!TypeOK, Hand
<1>1. CASE D!Start(d)
  BY <1>1 DEF D!Start, D!Goto, D!connectionVars
<1>2. CASE D!Accept(d)
  BY <1>2 DEF D!Accept, D!Goto
<1>3. CASE D!Return(d)
  BY <1>3 DEF D!Return, D!Goto
<1>4. CASE D!Spawn(d)
  BY <1>4 DEF D!Spawn, D!Goto
<1>5. CASE D!Connected(d)
  BY <1>5 DEF D!Connected, D!connectionVars
<1>6. ASSUME NEW i \in DOMAIN threads[d], D!HandleConnection(d, i)
      PROVE  /\ open'[e] = open[e] /\ threads'[e] = threads[e] /\ leaked'[e] = leaked[e]
             /\ Hand(e)' = Hand(e)
  BY <1>6 DEF D!HandleConnection
<1> QED
  BY <1>1, <1>2, <1>3, <1>4, <1>5, <1>6 DEF DoorStep

\* What a door takes over is a free descriptor.
LEMMA AcceptTakesFree ==
  ASSUME D!TypeOK, NEW d \in Doors, D!Accept(d)
  PROVE  LET fd == D!Lowest(D!Free(d))
         IN  fd \in 1..DoorFds /\ fd \notin open[d]
<1>1. D!Free(d) \in SUBSET Nat /\ D!Free(d) # {}
  BY DEF D!Accept, D!Free
<1> QED
  BY <1>1, LowestIsFree DEF D!Free

\* Every step keeps the connections of the door it is taken at owned.
LEMMA OwnedStep ==
  ASSUME D!TypeOK, NEW d \in Doors, DoorStep(d),
         Owned(open[d], threads[d], leaked[d], Hand(d))
  PROVE  Owned(open'[d], threads'[d], leaked'[d], Hand(d)')
<1>1. CASE D!Start(d)
  <2>1. UNCHANGED <<open, threads, leaked>> /\ Hand(d) = {} /\ Hand(d)' = {}
    BY <1>1 DEF D!Start, D!Goto, D!connectionVars, D!TypeOK, Hand
  <2> QED
    BY <2>1
<1>2. CASE D!Accept(d)
  <2> DEFINE fd == D!Lowest(D!Free(d))
  <2>1. fd \notin open[d]
    BY <1>2, AcceptTakesFree
  <2>2. /\ Hand(d) = {} /\ Hand(d)' = {fd}
        /\ open'[d] = open[d] \cup {fd} /\ UNCHANGED <<threads, leaked>>
    BY <1>2 DEF D!Accept, D!Goto, D!TypeOK, Hand
  <2> HIDE DEF fd
  <2> QED
    BY <2>1, <2>2, AcceptOwned
<1>3. CASE D!Return(d)
  <2>1. /\ Hand(d)' = {} /\ open'[d] = {} /\ threads'[d] = <<>> /\ leaked'[d] = {}
    BY <1>3 DEF D!Return, D!Goto, D!TypeOK, Hand
  <2> QED
    BY <2>1 DEF Owned
<1>4. CASE D!Spawn(d)
  <2> DEFINE fd == newSocket[d]
  <2>1. Hand(d) = {fd} /\ Hand(d)' = {} /\ open'[d] = open[d]
    BY <1>4 DEF D!Spawn, D!Goto, D!TypeOK, Hand
  <2>2. \/ threads'[d] = Append(threads[d], fd) /\ leaked'[d] = leaked[d]
        \/ threads'[d] = threads[d] /\ leaked'[d] = leaked[d] \cup {fd}
    BY <1>4 DEF D!Spawn, D!TypeOK
  <2>3. threads[d] \in Seq(1..DoorFds) /\ open[d] \subseteq 1..DoorFds
    BY DEF D!TypeOK
  <2> HIDE DEF fd
  <2>4. fd \in 1..DoorFds
    BY <2>1, <2>3 DEF Owned
  <2>5. CASE threads'[d] = Append(threads[d], fd) /\ leaked'[d] = leaked[d]
    <3>1. Owned(open[d], Append(threads[d], fd), leaked[d], {})
      BY <2>1, <2>3, <2>4, SpawnOwned
    <3> QED
      BY <2>1, <2>5, <3>1
  <2>6. CASE threads'[d] = threads[d] /\ leaked'[d] = leaked[d] \cup {fd}
    <3>1. Owned(open[d], threads[d], leaked[d] \cup {fd}, {})
      BY <2>1, LeakOwned
    <3> QED
      BY <2>1, <2>6, <3>1
  <2> QED
    BY <2>5, <2>6, <2>2
<1>5. CASE D!Connected(d)
  <2>1. UNCHANGED <<open, threads, leaked, door, newSocket>>
    BY <1>5 DEF D!Connected, D!connectionVars
  <2> QED
    BY <2>1 DEF Hand
<1>6. ASSUME NEW i \in DOMAIN threads[d], D!HandleConnection(d, i)
      PROVE  Owned(open'[d], threads'[d], leaked'[d], Hand(d)')
  <2>1. /\ open'[d] = open[d] \ {threads[d][i]}
        /\ threads'[d] = D!Without(threads[d], i)
        /\ UNCHANGED <<door, newSocket, leaked>>
    BY <1>6 DEF D!HandleConnection, D!TypeOK
  <2>2. threads[d] \in Seq(1..DoorFds)
    BY DEF D!TypeOK
  <2>3. i \in 1..Len(threads[d])
    BY <2>2
  <2> QED
    BY <2>1, <2>2, <2>3, CloseOwned DEF Hand
<1> QED
  BY <1>1, <1>2, <1>3, <1>4, <1>5, <1>6 DEF DoorStep

\* Every step at a door keeps the types.
LEMMA DoorTypeStep ==
  ASSUME D!TypeOK, NEW d \in Doors, DoorStep(d),
         Owned(open[d], threads[d], leaked[d], Hand(d))
  PROVE  D!TypeOK'
<1>1. CASE D!Start(d)
  BY <1>1 DEF D!Start, D!Goto, D!connectionVars, D!TypeOK
<1>2. CASE D!Accept(d)
  <2> DEFINE fd == D!Lowest(D!Free(d))
  <2>1. fd \in 1..DoorFds
    BY <1>2, AcceptTakesFree
  <2>2. /\ newSocket' = [newSocket EXCEPT ![d] = fd]
        /\ open' = [open EXCEPT ![d] = open[d] \cup {fd}]
        /\ pending[d] > 0 /\ pending' = [pending EXCEPT ![d] = pending[d] - 1]
        /\ door' = [door EXCEPT ![d] = "spawn"]
        /\ UNCHANGED <<form, doorPort, threads, leaked>>
    BY <1>2 DEF D!Accept, D!Goto
  <2> HIDE DEF fd
  <2>3. fd \in 0..DoorFds
    BY <2>1
  <2>4. pending[d] - 1 \in 0..(DoorBacklog + 1)
    <3>1. pending[d] \in 0..(DoorBacklog + 1) /\ DoorBacklog \in Nat
      BY DoorAssumption DEF D!TypeOK
    <3> QED
      BY <2>2, <3>1
  <2> QED
    BY <2>1, <2>2, <2>3, <2>4 DEF D!TypeOK
<1>3. CASE D!Return(d)
  <2>1. 0 \in 0..(DoorBacklog + 1)
    BY DoorAssumption
  <2>2. <<>> \in Seq(1..DoorFds)
    OBVIOUS
  <2> QED
    BY <1>3, <2>1, <2>2 DEF D!Return, D!Goto, D!TypeOK
<1>4. CASE D!Spawn(d)
  <2>1. newSocket[d] \in 1..DoorFds
    BY <1>4 DEF D!Spawn, D!TypeOK, Hand, Owned
  <2>2. Append(threads[d], newSocket[d]) \in Seq(1..DoorFds)
    BY <2>1 DEF D!TypeOK
  <2>3. threads' = [threads EXCEPT ![d] = Append(threads[d], newSocket[d])]
          \/ threads' = threads
    BY <1>4 DEF D!Spawn
  <2>4. threads' \in [Doors -> Seq(1..DoorFds)]
    BY <2>2, <2>3 DEF D!TypeOK
  <2>5. leaked' = [leaked EXCEPT ![d] = leaked[d] \cup {newSocket[d]}]
          \/ leaked' = leaked
    BY <1>4 DEF D!Spawn
  <2>6. leaked' \in [Doors -> SUBSET (1..DoorFds)]
    <3>1. leaked[d] \cup {newSocket[d]} \in SUBSET (1..DoorFds)
      BY <2>1 DEF D!TypeOK
    <3>2. leaked \in [Doors -> SUBSET (1..DoorFds)]
      BY DEF D!TypeOK
    <3> QED
      BY <2>5, <3>1, <3>2
  <2>7. /\ door' = [door EXCEPT ![d] = "accept"]
        /\ UNCHANGED <<form, doorPort, pending, newSocket, open>>
    BY <1>4 DEF D!Spawn, D!Goto
  <2> QED
    BY <2>4, <2>6, <2>7 DEF D!TypeOK
<1>5. CASE D!Connected(d)
  <2>1. pending[d] + 1 \in 0..(DoorBacklog + 1)
    <3>1. pending[d] \in 0..(DoorBacklog + 1) /\ DoorBacklog \in Nat
      BY DoorAssumption DEF D!TypeOK
    <3> QED
      BY <1>5, <3>1 DEF D!Connected
  <2> QED
    BY <1>5, <2>1 DEF D!Connected, D!connectionVars, D!TypeOK
<1>6. ASSUME NEW i \in DOMAIN threads[d], D!HandleConnection(d, i) PROVE D!TypeOK'
  <2>1. threads[d] \in Seq(1..DoorFds)
    BY DEF D!TypeOK
  <2>2. i \in 1..Len(threads[d])
    BY <2>1
  <2>3. D!Without(threads[d], i) \in Seq(1..DoorFds)
    BY <2>1, <2>2, WithoutFacts
  <2> QED
    BY <1>6, <2>3 DEF D!HandleConnection, D!TypeOK
<1> QED
  BY <1>1, <1>2, <1>3, <1>4, <1>5, <1>6 DEF DoorStep

\* What is true of the doors at the start, and kept by every step.
LEMMA DoorsCorrect == SafeSpec => [](D!TypeOK /\ OwnerInv)
<1>1. Init => D!TypeOK /\ OwnerInv
  <2> SUFFICES ASSUME Init PROVE D!TypeOK /\ OwnerInv
    OBVIOUS
  <2>1. 0 \in 0..(DoorBacklog + 1) /\ 0 \in 0..DoorFds
    BY DoorAssumption
  <2>2. D!TypeOK
    BY <2>1 DEF Init, D!Init, D!TypeOK
  <2>3. OwnerInv
    BY DEF Init, D!Init, OwnerInv, Owned, Hand
  <2> QED
    BY <2>2, <2>3
<1>2. D!TypeOK /\ OwnerInv /\ [Next]_vars => (D!TypeOK /\ OwnerInv)'
  <2> SUFFICES ASSUME D!TypeOK, OwnerInv, [Next]_vars PROVE (D!TypeOK /\ OwnerInv)'
    OBVIOUS
  <2>1. ASSUME NEW d \in Doors, DoorStep(d) PROVE (D!TypeOK /\ OwnerInv)'
    <3>1. Owned(open[d], threads[d], leaked[d], Hand(d))
      BY DEF OwnerInv
    <3>2. D!TypeOK'
      BY <2>1, <3>1, DoorTypeStep
    <3>3. ASSUME NEW e \in Doors PROVE Owned(open'[e], threads'[e], leaked'[e], Hand(e)')
      <4>1. CASE e = d
        BY <2>1, <3>1, <4>1, OwnedStep
      <4>2. CASE e # d
        BY <2>1, <4>2, OthersKept DEF OwnerInv
      <4> QED
        BY <4>1, <4>2
    <3> QED
      BY <3>2, <3>3 DEF OwnerInv
  <2>2. CASE UNCHANGED doorVars
    BY <2>2 DEF doorVars, D!TypeOK, OwnerInv, Hand
  <2> QED
    BY <2>1, <2>2, DoorProjection
<1> QED
  BY <1>1, <1>2, PTL DEF SafeSpec

\* Every open connection of a door has exactly one to close it, so no thread closes
\* one whose descriptor was reused (door.c:27-33, 85-89).
THEOREM OwnersCorrect == SafeSpec => []OneOwner
<1>1. D!TypeOK /\ OwnerInv => OneOwner
  <2> SUFFICES ASSUME D!TypeOK, OwnerInv PROVE D!OneOwner
    BY DEF OneOwner
  <2> SUFFICES ASSUME NEW d \in Doors
               PROVE  /\ open[d] = D!ToClose(d) \cup Hand(d) \cup leaked[d]
                      /\ D!Cardinality(open[d]) =
                           Len(threads[d]) + D!Cardinality(Hand(d))
                             + D!Cardinality(leaked[d])
    BY DEF D!OneOwner, Hand
  <2> DEFINE op == open[d]
             th == threads[d]
             lk == leaked[d]
             hand == Hand(d)
  <2>1. /\ DoorFds \in Nat /\ op \in SUBSET (1..DoorFds)
        /\ th \in Seq(1..DoorFds) /\ lk \in SUBSET (1..DoorFds)
    BY DoorAssumption DEF D!TypeOK
  <2>2. Owned(op, th, lk, hand)
    BY DEF OwnerInv
  <2>3. hand \in SUBSET (1..DoorFds)
    BY <2>1, <2>2 DEF Owned
  <2>4. D!ToClose(d) = {th[i] : i \in DOMAIN th}
    BY DEF D!ToClose
  <2> HIDE DEF op, th, lk, hand
  <2>5. /\ op = {th[i] : i \in DOMAIN th} \cup hand \cup lk
        /\ Cardinality(op) = Len(th) + Cardinality(hand) + Cardinality(lk)
    BY <2>1, <2>2, <2>3, CountOwned
  <2>6. \A set : D!Cardinality(set) = Cardinality(set)
    BY DEF D!Cardinality, Cardinality
  <2>7. /\ op = D!ToClose(d) \cup hand \cup lk
        /\ D!Cardinality(op) = Len(th) + D!Cardinality(hand) + D!Cardinality(lk)
    BY <2>4, <2>5, <2>6
  <2> QED
    BY <2>7 DEF op, th, lk, hand
<1> QED
  BY <1>1, DoorsCorrect, PTL

-----------------------------------------------------------------------------
(* The sensors and the unit.                                                *)

\* What is on its way to the unit is a datagram.
NetInv == net \subseteq S!Datagrams

\* Only a sensor sends, and the rest can only take a datagram away.
LEMMA NetStep ==
  ASSUME NetInv, [Next]_vars
  PROVE  NetInv'
<1>1. ASSUME NEW s \in Sensors, Send(s) PROVE NetInv'
  <2>1. (\E dg \in S!Datagrams : net' = net \cup {dg}) \/ net' = net
    BY <1>1 DEF Send
  <2> QED
    BY <2>1 DEF NetInv
<1>2. ASSUME NEW s \in Sensors, SensorStep(s), ~Send(s) PROVE net' = net
  BY <1>2 DEF SensorStep
<1>3. ASSUME NEW s \in Sensors, ThermometerStep(s) PROVE net' = net
  BY <1>3 DEF ThermometerStep, ThermometerEnds
<1>4. ASSUME NEW dg \in net, Hear(dg) \/ Lose(dg) PROVE net' \subseteq net
  BY <1>4 DEF Hear, Lose
<1>5. Fire \/ UnitStep \/ Around => net' = net
  BY DEF Fire, UnitStep, Dial, Around
<1>6. ASSUME NEW d \in Doors,
             \/ Enrol(d) \/ NoSocket(d) \/ MainStep(d) \/ AcceptAborts(d)
             \/ \E fd \in 1..DoorFds : ThreadStep(d, fd)
      PROVE  net' = net
  BY <1>6 DEF Enrol, NoSocket, MainStep, AcceptAborts, ThreadStep
<1>7. UNCHANGED vars => net' = net
  BY DEF vars
<1> QED
  BY <1>1, <1>2, <1>3, <1>4, <1>5, <1>6, <1>7 DEF Next, NetInv

\* Every step of the system is a step of the unit or leaves it alone.
LEMMA UnitProjection ==
  ASSUME [Next]_vars
  PROVE  FA!Next \/ UNCHANGED unitVars
<1>1. ASSUME NEW s \in Sensors, SensorStep(s) \/ ThermometerStep(s)
      PROVE  UNCHANGED unitVars
  BY <1>1 DEF SensorStep, Send, ThermometerStep, ThermometerEnds
<1>2. ASSUME NEW dg \in net, Hear(dg) PROVE FA!Next \/ UNCHANGED unitVars
  BY <1>2 DEF Hear, FA!Next
<1>3. ASSUME NEW dg \in net, Lose(dg) PROVE UNCHANGED unitVars
  BY <1>3 DEF Lose
<1>4. Fire => FA!Next
  BY DEF Fire, FA!Next
<1>5. UnitStep \/ Around => FA!Next
  BY DEF UnitStep, Dial, Around, FA!Next, FA!React
<1>6. ASSUME NEW d \in Doors, Enrol(d) \/ NoSocket(d) PROVE FA!Next
  BY <1>6 DEF Enrol, NoSocket, FA!Next, FA!React
<1>7. ASSUME NEW d \in Doors,
             \/ MainStep(d) \/ AcceptAborts(d)
             \/ \E fd \in 1..DoorFds : ThreadStep(d, fd)
      PROVE  UNCHANGED unitVars
  BY <1>7 DEF MainStep, AcceptAborts, ThreadStep
<1>8. UNCHANGED vars => UNCHANGED unitVars
  BY DEF vars
<1> QED
  BY <1>1, <1>2, <1>3, <1>4, <1>5, <1>6, <1>7, <1>8 DEF Next

\* The fire alarm unit behaves here as it does alone, though its connections are now
\* taken by the doors, and the sensors may send it anything.
THEOREM UnitRuns == SafeSpec => FA!Spec
<1>1. Init => FA!Init
  BY DEF Init
<1>2. [Next]_vars => [FA!Next]_(FA!vars)
  <2>1. UNCHANGED unitVars => UNCHANGED FA!vars
    BY DEF unitVars, FA!vars, FA!sweepVars, FA!detectionVars, FA!registryVars
  <2> QED
    BY <2>1, UnitProjection
<1> QED
  BY <1>1, <1>2, PTL DEF SafeSpec, FA!Spec

\* The system grants the unit what it assumes of its constants.
LEMMA UnitAssumes ==
  /\ FAProofs!IsFiniteSet(Doors) /\ DoorCapacity \in Nat
  /\ FAProofs!Cardinality(Doors) <= DoorCapacity
  /\ MinDetections \in Nat /\ DetectionPeriod \in Nat
  /\ MaxTime \in Nat /\ MaxReadings \in Nat
  /\ Faults \subseteq FAProofs!FaultKinds
<1>1. IsFiniteSet(Doors) <=> FAProofs!IsFiniteSet(Doors)
  BY DEF IsFiniteSet, FAProofs!IsFiniteSet
<1>2. Cardinality(Doors) = FAProofs!Cardinality(Doors)
  BY DEF Cardinality, FAProofs!Cardinality
<1> QED
  BY <1>1, <1>2, UnitAssumption DEF FA!FaultKinds, FAProofs!FaultKinds

\* The system and the proofs about the unit speak of the same unit.
LEMMA SameUnit == FA!Spec => FAProofs!Spec
<1>1. FA!Init => FAProofs!Init
  BY DEF FA!Init, FAProofs!Init
<1>2. FA!Next => FAProofs!Next
  BY DEF FA!Next, FA!React, FA!ReceiveFire, FA!ReceiveHot, FA!CurrentCount,
     FA!ReceiveDoor, FA!SendConfirmation, FA!Registered, FA!RaiseAlarm, FA!EndSweep,
     FA!AtDoor, FA!OpenDoor, FA!SkipDoor, FA!SocketFails, FA!Tick, FA!OverseerEnds,
     FA!sweepVars, FA!detectionVars, FA!registryVars,
     FAProofs!Next, FAProofs!React, FAProofs!ReceiveFire, FAProofs!ReceiveHot,
     FAProofs!CurrentCount, FAProofs!ReceiveDoor, FAProofs!SendConfirmation,
     FAProofs!Registered, FAProofs!RaiseAlarm, FAProofs!EndSweep, FAProofs!AtDoor,
     FAProofs!OpenDoor, FAProofs!SkipDoor, FAProofs!SocketFails, FAProofs!Tick,
     FAProofs!OverseerEnds, FAProofs!sweepVars, FAProofs!detectionVars,
     FAProofs!registryVars
<1>3. UNCHANGED FA!vars => UNCHANGED FAProofs!vars
  BY DEF FA!vars, FA!sweepVars, FA!detectionVars, FA!registryVars, FAProofs!vars,
     FAProofs!sweepVars, FAProofs!detectionVars, FAProofs!registryVars
<1> QED
  BY <1>1, <1>2, <1>3, PTL DEF FA!Spec, FAProofs!Spec

\* So what is proved of the unit alone holds between sensors and doors: its registry
\* stays inside its arrays, the overseer hears of every door once, no door is dialled
\* before the alarm, and a sweep that ends has tried every door, whether it listens,
\* keeps the unit waiting or is gone (firealarm.c:69-73, 179-241).
THEOREM UnitPromises ==
  SafeSpec => /\ [](/\ FA!RegistryInBounds /\ FA!ConfirmedOnce
                   /\ FA!OpenedUnderAlarm /\ FA!TempAlarmIffBurst)
              /\ FA!SweepTriesAll
<1>1. FAProofs!Spec => /\ []FAProofs!RegistryInBounds /\ []FAProofs!ConfirmedOnce
                       /\ []FAProofs!OpenedUnderAlarm /\ []FAProofs!TempAlarmIffBurst
                       /\ FAProofs!SweepTriesAll
  BY UnitAssumes, FAProofs!RegistryBounded, FAProofs!ConfirmationsExact,
     FAProofs!OpenedLate, FAProofs!TempAlarmExact, FAProofs!SweepComplete
<1>2. /\ FAProofs!RegistryInBounds => FA!RegistryInBounds
      /\ FAProofs!ConfirmedOnce => FA!ConfirmedOnce
      /\ FAProofs!OpenedUnderAlarm => FA!OpenedUnderAlarm
  BY DEF FAProofs!RegistryInBounds, FA!RegistryInBounds, FAProofs!ConfirmedOnce,
     FA!ConfirmedOnce, FAProofs!OpenedUnderAlarm, FA!OpenedUnderAlarm,
     FAProofs!Registered, FA!Registered
<1>3. FAProofs!TempAlarmIffBurst => FA!TempAlarmIffBurst
  BY DEF FAProofs!TempAlarmIffBurst, FA!TempAlarmIffBurst, FAProofs!HasBurst,
     FA!HasBurst
<1>4. FAProofs!SweepTriesAll => FA!SweepTriesAll
  <2>1. [unit = "sweep" /\ unit' = "recv" =>
           FAProofs!Registered \subseteq attempted']_(FAProofs!vars)
        => [unit = "sweep" /\ unit' = "recv" =>
              FA!Registered \subseteq attempted']_(FA!vars)
    BY DEF FAProofs!Registered, FA!Registered, FAProofs!vars, FA!vars,
       FAProofs!sweepVars, FA!sweepVars, FAProofs!detectionVars, FA!detectionVars,
       FAProofs!registryVars, FA!registryVars
  <2> QED
    BY <2>1, PTL DEF FAProofs!SweepTriesAll, FA!SweepTriesAll
<1> QED
  BY <1>1, <1>2, <1>3, <1>4, UnitRuns, SameUnit, PTL

-----------------------------------------------------------------------------
(* Types.                                                                   *)

\* Every step keeps the types of the sensors.
LEMMA SensorTypeStep ==
  ASSUME S!TypeOK, [Next]_vars
  PROVE  S!TypeOK'
<1>1. ASSUME NEW s \in Sensors, S!Start(s) PROVE S!TypeOK'
  BY <1>1 DEF S!Start, S!Goto, S!SensorPlaces, S!TypeOK
<1>2. ASSUME NEW s \in Sensors, S!Lock(s) PROVE S!TypeOK'
  BY <1>2 DEF S!Lock, S!Goto, S!Hold, S!SensorPlaces, S!TypeOK
<1>3. ASSUME NEW s \in Sensors, S!Unlock(s) PROVE S!TypeOK'
  BY <1>3 DEF S!Unlock, S!Goto, S!Hold, S!SensorPlaces, S!TypeOK
<1>4. ASSUME NEW s \in Sensors, S!Break(s) PROVE S!TypeOK'
  BY <1>4 DEF S!Break, S!Goto, S!SensorPlaces, S!TypeOK
<1>5. ASSUME NEW s \in Sensors, S!Send(s) PROVE S!TypeOK'
  <2> DEFINE list == S!Addresses(Given[s])
             rest == S!Remaining(s)
  <2>1. list \in Seq(S!ReceiverPorts)
    BY GivenAssumption
  <2>2. sent[s] \in Seq(S!ReceiverPorts)
    BY DEF S!TypeOK
  <2>3. rest = SubSeq(list, Len(sent[s]) + 1, Len(list)) /\ rest # <<>>
    BY <1>5 DEF S!Send, S!Remaining
  <2>4. sent' = [sent EXCEPT ![s] = Append(sent[s], Head(rest))]
        /\ UNCHANGED <<sensor, tempMutex>>
    BY <1>5 DEF S!Send
  <2> HIDE DEF list, rest
  <2>5. rest \in Seq(S!ReceiverPorts)
    BY <2>1, <2>2, <2>3
  <2>6. Head(rest) \in S!ReceiverPorts
    <3>1. rest # <<>>
      BY <2>3
    <3> QED
      BY <2>5, <3>1, HeadTailProperties
  <2>7. Append(sent[s], Head(rest)) \in Seq(S!ReceiverPorts)
    BY <2>2, <2>6
  <2> QED
    BY <2>4, <2>7 DEF S!TypeOK
<1>6. ASSUME NEW s \in Sensors, S!ThermometerLocks(s) PROVE S!TypeOK'
  BY <1>6 DEF S!ThermometerLocks, S!Hold, S!TypeOK
<1>7. ASSUME NEW s \in Sensors, S!ThermometerUnlocks(s) PROVE S!TypeOK'
  BY <1>7 DEF S!ThermometerUnlocks, S!Hold, S!TypeOK
<1>8. ASSUME UNCHANGED sensorVars PROVE S!TypeOK'
  BY <1>8 DEF sensorVars, S!TypeOK
<1>9. ASSUME NEW s \in Sensors, SensorStep(s) \/ ThermometerStep(s) PROVE S!TypeOK'
  BY <1>1, <1>2, <1>3, <1>4, <1>5, <1>6, <1>7, <1>9
  DEF SensorStep, Send, ThermometerStep, ThermometerEnds
<1>10. ASSUME NEW dg \in net, Hear(dg) \/ Lose(dg) PROVE UNCHANGED sensorVars
  BY <1>10 DEF Hear, Lose
<1>11. Fire \/ UnitStep \/ Around => UNCHANGED sensorVars
  BY DEF Fire, UnitStep, Dial, Around
<1>12. ASSUME NEW d \in Doors,
              \/ Enrol(d) \/ NoSocket(d) \/ MainStep(d) \/ AcceptAborts(d)
              \/ \E fd \in 1..DoorFds : ThreadStep(d, fd)
       PROVE  UNCHANGED sensorVars
  BY <1>12 DEF Enrol, NoSocket, MainStep, AcceptAborts, ThreadStep
<1>13. UNCHANGED vars => UNCHANGED sensorVars
  BY DEF vars
<1> QED
  BY <1>8, <1>9, <1>10, <1>11, <1>12, <1>13 DEF Next

\* Every variable of every component has its type.
THEOREM PathTypes == SafeSpec => []TypeOK
<1>1. SafeSpec => []FA!TypeOK
  <2>1. FAProofs!TypeOK => FA!TypeOK
    BY DEF FA!TypeOK, FAProofs!TypeOK
  <2>2. FAProofs!Spec => []FAProofs!TypeOK
    BY UnitAssumes, FAProofs!TypeCorrect
  <2> QED
    BY <2>1, <2>2, UnitRuns, SameUnit, PTL
<1>2. SafeSpec => []D!TypeOK
  BY DoorsCorrect, PTL
<1>3. SafeSpec => []S!TypeOK
  <2>1. Init => S!TypeOK
    BY DEF Init, S!Init, S!TypeOK, S!SensorPlaces
  <2> QED
    BY <2>1, SensorTypeStep, PTL DEF SafeSpec
<1>4. SafeSpec => []NetInv
  <2>1. Init => NetInv
    BY DEF Init, NetInv
  <2> QED
    BY <2>1, NetStep, PTL DEF SafeSpec
<1> QED
  BY <1>1, <1>2, <1>3, <1>4, PTL DEF TypeOK, NetInv
=============================================================================
