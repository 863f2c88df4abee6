------------------------ MODULE UploadChannelProofs ------------------------
(***************************************************************************)
(* What follows from the upload channel alone, for every value of the      *)
(* constants.                                                              *)
(***************************************************************************)
EXTENDS UploadChannel, SequenceTheorems, WellFoundedInduction, TLAPS

\* The k events that continue epoch e after its event m.
Block(e, m, k) == [i \in 1..k |-> [epoch |-> e, n |-> m + i]]

\* What the table looks like after a batch.
LEMMA AppendedBlock ==
  ASSUME ChannelAssumption, TypeOK,
         NEW e \in Epochs, NEW m \in Nat, NEW k \in Nat, m + k <= MaxEvents
  PROVE  LET after == stored \o Block(e, m, k)
         IN  /\ after \in Seq(Event)
             /\ Len(after) = Len(stored) + k
             /\ \A i \in 1..Len(stored) : after[i] = stored[i]
             /\ \A i \in Len(stored) + 1 .. Len(stored) + k :
                  after[i] = [epoch |-> e, n |-> m + (i - Len(stored))]
<1> DEFINE block == Block(e, m, k)
<1>1. stored \in Seq(Event) /\ Len(stored) \in Nat
  BY LenProperties DEF TypeOK
<1>2. \A i \in 1..k : [epoch |-> e, n |-> m + i] \in Event
  BY DEF ChannelAssumption, Event
<1>3. block \in Seq(Event)
  BY <1>2, IsASeq DEF Block
<1>4. Len(block) = k
  BY DEF Block
<1>5. \A i \in 1..k : block[i] = [epoch |-> e, n |-> m + i]
  BY DEF Block
<1> HIDE DEF block
<1>6. /\ stored \o block \in Seq(Event)
      /\ Len(stored \o block) = Len(stored) + k
      /\ \A i \in 1 .. Len(stored) + k :
           (stored \o block)[i] = IF i <= Len(stored) THEN stored[i]
                                                      ELSE block[i - Len(stored)]
  BY <1>1, <1>3, <1>4, ConcatProperties
<1>7. \A i \in 1..Len(stored) : (stored \o block)[i] = stored[i]
  BY <1>1, <1>6
<1>8. ASSUME NEW i \in Len(stored) + 1 .. Len(stored) + k
      PROVE  (stored \o block)[i] = [epoch |-> e, n |-> m + (i - Len(stored))]
  <2>1. i \in 1 .. Len(stored) + k /\ ~(i <= Len(stored)) /\ i - Len(stored) \in 1..k
    BY <1>1
  <2>2. QED
    BY <2>1, <1>5, <1>6
<1>9. QED
  BY <1>6, <1>7, <1>8 DEF block

\* The types of a stored event.
LEMMA StoredFields ==
  ASSUME ChannelAssumption, TypeOK
  PROVE  \A i \in DOMAIN stored : stored[i].epoch \in Epochs /\ stored[i].n \in Nat
<1>1. stored \in Seq(Event)
  BY DEF TypeOK
<1>2. \A i \in DOMAIN stored : stored[i] \in Event
  BY <1>1, LenProperties, ElementOfSeq
<1>3. QED
  BY <1>2 DEF ChannelAssumption, Event

\* A batch that continues its epoch keeps every epoch a prefix.
LEMMA DeliverStep ==
  ASSUME ChannelAssumption, TypeOK, PrefixStored, NEW e \in Epochs, NEW m \in 0..MaxEvents,
         NEW k \in 1..MaxBatch, Deliver(e, m, k)
  PROVE  TypeOK' /\ PrefixStored'
<1> DEFINE L == Len(stored)
<1>1. L \in Nat /\ DOMAIN stored = 1..L
  BY LenProperties DEF TypeOK
<1>2. m \in Nat /\ k \in Nat \ {0} /\ m + k <= MaxEvents /\ m + k <= produced[e]
  BY DEF ChannelAssumption, Deliver, TypeOK
<1>3. stored' = stored \o Block(e, m, k) /\ produced' = produced
  BY DEF Deliver, Block
<1>4. /\ stored' \in Seq(Event)
      /\ Len(stored') = L + k
      /\ \A i \in 1..L : stored'[i] = stored[i]
      /\ \A i \in L + 1 .. L + k :
           stored'[i] = [epoch |-> e, n |-> m + (i - L)]
  <2>1. m \in Nat /\ k \in Nat /\ m + k <= MaxEvents
    BY <1>2
  <2>2. QED
    BY <2>1, <1>3, AppendedBlock
<1>5. DOMAIN stored' = 1 .. L + k
  BY <1>4, LenProperties
<1>6. \A i \in 1..L : stored[i].epoch = e => stored[i].n <= m
  BY <1>1 DEF Deliver, LastStored
<1>7. \A i \in 1..L : stored[i].epoch \in Epochs /\ stored[i].n \in Nat
  BY <1>1, StoredFields
<1> HIDE DEF L
<1>8. InOrder'
  <2> SUFFICES ASSUME NEW i \in 1 .. L + k, NEW j \in 1 .. L + k,
                      i < j, stored'[i].epoch = stored'[j].epoch
               PROVE  stored'[i].n < stored'[j].n
    BY <1>5 DEF InOrder
  <2>1. CASE j <= L
    <3>1. i \in 1..L /\ j \in 1..L
      BY <1>1, <2>1
    <3>2. QED
      BY <3>1, <1>1, <1>4 DEF PrefixStored, InOrder
  <2>2. CASE i <= L /\ j > L
    <3>1. i \in 1..L /\ j \in L + 1 .. L + k
      BY <1>1, <2>2
    <3>2. stored'[j].epoch = e /\ stored'[j].n = m + (j - L)
      <4>1. stored'[j] = [epoch |-> e, n |-> m + (j - L)]
        BY <3>1, <1>4
      <4>2. QED
        BY <4>1
    <3>3. stored'[i].n <= m /\ stored'[i].n \in Nat
      BY <3>1, <3>2, <1>4, <1>6, <1>7
    <3>4. QED
      BY <3>1, <3>2, <3>3, <1>1, <1>2
  <2>3. CASE i > L
    <3>1. i \in L + 1 .. L + k /\ j \in L + 1 .. L + k
      BY <1>1, <2>3
    <3>2. stored'[i].n = m + (i - L) /\ stored'[j].n = m + (j - L)
      <4>1. /\ stored'[i] = [epoch |-> e, n |-> m + (i - L)]
            /\ stored'[j] = [epoch |-> e, n |-> m + (j - L)]
        BY <3>1, <1>4
      <4>2. QED
        BY <4>1
    <3>3. QED
      BY <3>1, <3>2, <1>1, <1>2
  <2>4. QED
    BY <1>1, <2>1, <2>2, <2>3
<1>9. NoGap'
  <2> SUFFICES ASSUME NEW i \in 1 .. L + k, stored'[i].n > 1
               PROVE  \E j \in 1 .. L + k :
                        j < i /\ stored'[j] = [epoch |-> stored'[i].epoch,
                                               n |-> stored'[i].n - 1]
    BY <1>5 DEF NoGap
  <2>1. CASE i <= L
    <3>1. i \in 1..L /\ stored'[i] = stored[i]
      BY <1>1, <1>4, <2>1
    <3>2. PICK j \in 1..L : j < i /\ stored[j] = [epoch |-> stored[i].epoch,
                                                  n |-> stored[i].n - 1]
      BY <3>1, <1>1 DEF PrefixStored, NoGap
    <3>3. j \in 1 .. L + k /\ stored'[j] = stored[j]
      BY <1>1, <1>2, <1>4
    <3>4. QED
      BY <3>1, <3>2, <3>3
  <2>2. CASE i = L + 1
    <3>1. stored'[i] = [epoch |-> e, n |-> m + 1]
      <4>1. i \in L + 1 .. L + k /\ i - L = 1
        BY <2>2, <1>1, <1>2
      <4>2. QED
        BY <4>1, <1>4
    <3>2. m # 0
      BY <3>1, <1>2
    <3>3. PICK j \in 1..L : stored[j] = [epoch |-> e, n |-> m]
      BY <3>2, <1>1 DEF Deliver, LastStored
    <3>4. j \in 1 .. L + k /\ j < i /\ stored'[j] = stored[j]
      BY <2>2, <1>1, <1>2, <1>4
    <3>5. stored'[i].n - 1 = m /\ stored'[i].epoch = e
      BY <3>1, <1>2
    <3>6. QED
      BY <3>3, <3>4, <3>5
  <2>3. CASE i > L + 1
    <3>1. i \in L + 1 .. L + k /\ i - 1 \in L + 1 .. L + k /\ i - 1 \in 1 .. L + k
      BY <2>3, <1>1, <1>2
    <3>2. stored'[i] = [epoch |-> e, n |-> m + (i - L)]
      BY <3>1, <1>4
    <3>3. stored'[i - 1] = [epoch |-> e, n |-> m + (i - 1 - L)]
      BY <3>1, <1>4
    <3>4. stored'[i].epoch = e /\ stored'[i].n - 1 = m + (i - 1 - L) /\ i - 1 < i
      BY <3>2, <1>1, <1>2
    <3>5. QED
      BY <3>1, <3>3, <3>4
  <2>4. QED
    BY <1>1, <2>1, <2>2, <2>3
<1>10. OnlyOffered'
  <2> SUFFICES ASSUME NEW i \in 1 .. L + k
               PROVE  stored'[i].n <= produced[stored'[i].epoch]
    BY <1>3, <1>5 DEF OnlyOffered
  <2>1. CASE i <= L
    <3>1. i \in 1..L
      BY <1>1, <2>1
    <3>2. QED
      BY <3>1, <1>1, <1>4 DEF PrefixStored, OnlyOffered
  <2>2. CASE i > L
    <3>1. i \in L + 1 .. L + k
      BY <1>1, <2>2
    <3>2. stored'[i].epoch = e /\ stored'[i].n = m + (i - L)
      <4>1. stored'[i] = [epoch |-> e, n |-> m + (i - L)]
        BY <3>1, <1>4
      <4>2. QED
        BY <4>1
    <3>3. produced[e] \in Nat
      BY DEF TypeOK
    <3>4. QED
      BY <3>1, <3>2, <3>3, <1>1, <1>2
  <2>3. QED
    BY <1>1, <2>1, <2>2
<1>11. QED
  BY <1>3, <1>4, <1>8, <1>9, <1>10 DEF TypeOK, PrefixStored

\* An event that is offered disturbs nothing that is stored.
LEMMA OfferStep ==
  ASSUME ChannelAssumption, TypeOK, PrefixStored, NEW e \in Epochs, Offer(e)
  PROVE  TypeOK' /\ PrefixStored'
<1>1. TypeOK'
  BY DEF ChannelAssumption, Offer, TypeOK
<1>2. InOrder' /\ NoGap'
  BY DEF Offer, PrefixStored, InOrder, NoGap
<1>3. \A x \in Epochs : produced[x] \in Nat /\ produced'[x] >= produced[x]
  BY DEF Offer, TypeOK
<1>4. \A i \in DOMAIN stored : stored[i].epoch \in Epochs /\ stored[i].n \in Nat
  BY StoredFields
<1>5. OnlyOffered'
  <2> SUFFICES ASSUME NEW i \in DOMAIN stored
               PROVE  stored[i].n <= produced'[stored[i].epoch]
    BY DEF Offer, OnlyOffered
  <2>1. stored[i].n <= produced[stored[i].epoch]
    BY DEF PrefixStored, OnlyOffered
  <2>2. QED
    BY <2>1, <1>1, <1>3, <1>4 DEF TypeOK
<1>6. QED
  BY <1>1, <1>2, <1>5 DEF PrefixStored

(***************************************************************************)
(* Whatever implements the channel stores every event at most once, and    *)
(* stores of every epoch a prefix of its events, in order.                 *)
(***************************************************************************)
THEOREM ChannelStoresPrefixes ==
  ASSUME ChannelAssumption
  PROVE  Spec => []PrefixStored
<1>1. Init => TypeOK /\ PrefixStored
  BY DEF ChannelAssumption, Init, TypeOK, PrefixStored, InOrder, NoGap, OnlyOffered
<1>2. TypeOK /\ PrefixStored /\ [Next]_vars => TypeOK' /\ PrefixStored'
  <2> SUFFICES ASSUME TypeOK, PrefixStored, [Next]_vars
               PROVE  TypeOK' /\ PrefixStored'
    OBVIOUS
  <2>1. CASE UNCHANGED vars
    BY <2>1 DEF vars, TypeOK, PrefixStored, InOrder, NoGap, OnlyOffered
  <2>2. CASE Next
    BY <2>2, OfferStep, DeliverStep DEF Next
  <2>3. QED
    BY <2>1, <2>2
<1>3. QED
  BY <1>1, <1>2, PTL DEF Spec

-----------------------------------------------------------------------------
(* What the last stored event of an epoch says of the others *)

\* A set of numbers has a largest one below a bound.
LEMMA LargestBelow ==
  ASSUME NEW m \in Nat, NEW T \in SUBSET (1..m), T # {}
  PROVE  \E n \in T : \A k \in T : k <= n
<1> DEFINE U == {d \in Nat : m - d \in T}
<1>1. U \in SUBSET Nat /\ U # {}
  <2>1. PICK n \in T : TRUE
    OBVIOUS
  <2>2. m - n \in Nat /\ m - (m - n) = n
    OBVIOUS
  <2>3. QED
    BY <2>1, <2>2
<1>2. \A d \in U : d \in Nat /\ m - d \in T
  OBVIOUS
<1>3. \A n \in T : m - n \in U
  <2> SUFFICES ASSUME NEW n \in T PROVE m - n \in U
    OBVIOUS
  <2>1. m - n \in Nat /\ m - (m - n) = n
    OBVIOUS
  <2>2. QED
    BY <2>1
<1> HIDE DEF U
<1>4. \E x \in U : \A y \in U : ~ (<<y, x>> \in OpToRel(<, Nat))
  BY <1>1, WFMin, NatLessThanWellFounded, Zenon
<1>5. \A x, y \in Nat : <<y, x>> \in OpToRel(<, Nat) <=> y < x
  BY DEF OpToRel
<1>6. PICK x \in U : \A y \in U : ~ (y < x)
  BY <1>2, <1>4, <1>5, Zenon
<1>7. ASSUME NEW k \in T PROVE k <= m - x
  <2>1. ~ (m - k < x)
    BY <1>3, <1>6
  <2>2. QED
    BY <1>2, <2>1
<1>8. QED
  BY <1>2, <1>7

\* All events of an epoch up to the last one stored are stored: were one
\* missing, the next one would be stored without it.
LEMMA StoredUpTo ==
  ASSUME TypeOK, NoGap, NEW e, NEW m \in Nat, LastStored(e, m)
  PROVE  \A n \in 1..m : \E i \in DOMAIN stored : stored[i] = [epoch |-> e, n |-> n]
<1> DEFINE There(n) == \E i \in DOMAIN stored : stored[i] = [epoch |-> e, n |-> n]
           Missing == {n \in 1..m : ~There(n)}
<1>1. m = 0 \/ There(m)
  BY DEF LastStored
<1>2. ASSUME NEW n \in Nat, n >= 1, There(n + 1) PROVE There(n)
  <2>1. PICK i \in DOMAIN stored : stored[i] = [epoch |-> e, n |-> n + 1]
    BY <1>2
  <2>2. stored[i].n > 1 /\ stored[i].epoch = e /\ stored[i].n - 1 = n
    BY <1>2, <2>1
  <2>3. PICK j \in DOMAIN stored :
          stored[j] = [epoch |-> stored[i].epoch, n |-> stored[i].n - 1]
    BY <2>2 DEF NoGap
  <2>4. QED
    BY <2>2, <2>3
<1> HIDE DEF There
<1>3. ASSUME Missing # {} PROVE FALSE
  <2>1. Missing \in SUBSET (1..m)
    OBVIOUS
  <2>2. PICK n \in Missing : \A k \in Missing : k <= n
    BY <1>3, <2>1, LargestBelow
  <2>3. n \in 1..m /\ ~There(n) /\ n # m
    BY <1>1, <2>2
  <2>4. n + 1 \in 1..m /\ ~(n + 1 <= n)
    BY <2>3
  <2>5. There(n + 1)
    BY <2>2, <2>4
  <2>6. QED
    BY <1>2, <2>3, <2>5
<1>4. \A n \in 1..m : There(n)
  BY <1>3
<1>5. QED
  BY <1>4 DEF There
=============================================================================
