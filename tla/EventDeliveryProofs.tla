------------------------ MODULE EventDeliveryProofs ------------------------
(***************************************************************************)
(* EventDelivery for any capacities.  An event is in one store at a time   *)
(* and moves forward only, so the bounds, the gauges and the order of the  *)
(* two fronts survive every interleaving of a publisher with the port; and *)
(* what the two do together is what EventStream allows.                    *)
(***************************************************************************)
EXTENDS EventDelivery, TLAPS, FiniteSetTheorems, SequenceTheorems, WellFoundedInduction

Stores == {"sending", "overflow", "primary", "held", "mailbox"}
Envelopes == [finality : Finalities, store : Stores]

\* The positions whose event is in one of these stores.
Places(q, stores) == {i \in DOMAIN q : q[i].store \in stores}

\* What happens to a sequence of events: one moves to a store, one leaves.
Restored(q, i, store) == [q EXCEPT ![i].store = store]

-----------------------------------------------------------------------------
(* Positions.                                                              *)

LEMMA PlacesAreFinite ==
  ASSUME NEW q \in Seq(Envelopes), NEW stores
  PROVE  /\ Places(q, stores) \subseteq 1 .. Len(q) /\ DOMAIN q = 1 .. Len(q) /\ Len(q) \in Nat
         /\ IsFiniteSet(Places(q, stores)) /\ Cardinality(Places(q, stores)) \in Nat
<1>1. DOMAIN q = 1 .. Len(q) /\ Len(q) \in Nat
  BY LenProperties
<1>2. IsFiniteSet(1 .. Len(q))
  BY <1>1, FS_Interval
<1>3. Places(q, stores) \in SUBSET (1 .. Len(q))
  BY <1>1 DEF Places
<1> QED
  BY <1>1, <1>2, <1>3, FS_Subset, FS_CardinalityType

LEMMA MinExists ==
  ASSUME NEW T, T \subseteq Nat, T # {}
  PROVE  Min(T) \in T /\ \A y \in T : Min(T) <= y
<1> DEFINE R == OpToRel(<, Nat)
<1>1. \A y, z \in Nat : <<y, z>> \in R <=> y < z
  BY DEF OpToRel
<1>2. IsWellFoundedOn(R, Nat)
  BY NatLessThanWellFounded
<1> HIDE DEF R
<1>3. PICK x \in T : \A y \in T : ~ (<<y, x>> \in R)
  BY <1>2, WFMin
<1>4. ASSUME NEW y \in T PROVE x <= y
  <2>1. x \in Nat /\ y \in Nat
    OBVIOUS
  <2>2. ~ (y < x)
    BY <1>1, <1>3, <2>1
  <2> QED
    BY <2>1, <2>2
<1> QED
  BY <1>4 DEF Min

LEMMA AppendPlaces ==
  ASSUME NEW q \in Seq(Envelopes), NEW e \in Envelopes, NEW stores
  PROVE  /\ Append(q, e) \in Seq(Envelopes) /\ Len(Append(q, e)) = Len(q) + 1
         /\ \A i \in 1 .. Len(q) : Append(q, e)[i] = q[i]
         /\ Append(q, e)[Len(q) + 1] = e
         /\ Places(Append(q, e), stores) =
              IF e.store \in stores THEN Places(q, stores) \cup {Len(q) + 1} ELSE Places(q, stores)
         /\ Len(q) + 1 \notin Places(q, stores)
<1>1. /\ Append(q, e) \in Seq(Envelopes) /\ Len(Append(q, e)) = Len(q) + 1
      /\ \A i \in 1 .. Len(q) : Append(q, e)[i] = q[i]
      /\ Append(q, e)[Len(q) + 1] = e
  BY AppendProperties
<1>2. /\ DOMAIN Append(q, e) = 1 .. Len(q) + 1 /\ DOMAIN q = 1 .. Len(q) /\ Len(q) \in Nat
  BY <1>1, LenProperties
<1> QED
  BY <1>1, <1>2 DEF Places

LEMMA RestorePlaces ==
  ASSUME NEW q \in Seq(Envelopes), NEW i \in 1 .. Len(q), NEW store \in Stores, NEW stores
  PROVE  /\ Restored(q, i, store) \in Seq(Envelopes) /\ Len(Restored(q, i, store)) = Len(q)
         /\ \A j \in 1 .. Len(q) :
              /\ Restored(q, i, store)[j].finality = q[j].finality
              /\ Restored(q, i, store)[j].store = IF j = i THEN store ELSE q[j].store
         /\ Places(Restored(q, i, store), stores) =
              (Places(q, stores) \ {i}) \cup (IF store \in stores THEN {i} ELSE {})
<1>1. DOMAIN q = 1 .. Len(q) /\ Len(q) \in Nat /\ q \in [1 .. Len(q) -> Envelopes]
  BY LenProperties
<1> DEFINE e == [q[i] EXCEPT !.store = store]
<1>2. e \in Envelopes /\ e.finality = q[i].finality /\ e.store = store
  BY <1>1 DEF Envelopes
<1>3. Restored(q, i, store) = [q EXCEPT ![i] = e]
  BY DEF Restored
<1> HIDE DEF e
<1>4. /\ Restored(q, i, store) \in Seq(Envelopes) /\ Len(Restored(q, i, store)) = Len(q)
      /\ \A j \in 1 .. Len(q) : Restored(q, i, store)[j] = IF j = i THEN e ELSE q[j]
  BY <1>2, <1>3, ExceptSeq
<1>5. DOMAIN Restored(q, i, store) = 1 .. Len(q)
  BY <1>4, LenProperties
<1>6. Places(Restored(q, i, store), stores) =
        (Places(q, stores) \ {i}) \cup (IF store \in stores THEN {i} ELSE {})
  BY <1>1, <1>2, <1>4, <1>5 DEF Places
<1> QED
  BY <1>2, <1>4, <1>6

LEMMA RemoveProperties ==
  ASSUME NEW S, NEW q \in Seq(S), NEW i \in 1 .. Len(q)
  PROVE  /\ RemoveAt(q, i) \in Seq(S) /\ Len(RemoveAt(q, i)) = Len(q) - 1
         /\ \A j \in 1 .. Len(q) - 1 : RemoveAt(q, i)[j] = IF j < i THEN q[j] ELSE q[j + 1]
<1>1. Len(q) \in Nat /\ i \in Nat /\ \A j \in 1 .. Len(q) : q[j] \in S
  BY LenProperties, ElementOfSeq
<1> DEFINE a == SubSeq(q, 1, i - 1)
           b == SubSeq(q, i + 1, Len(q))
<1>2. /\ a \in Seq(S) /\ Len(a) = i - 1
      /\ \A j \in 1 .. i - 1 : a[j] = q[j]
  BY <1>1, SubSeqProperties
<1>3. /\ b \in Seq(S) /\ Len(b) = Len(q) - i
      /\ \A j \in 1 .. Len(q) - i : b[j] = q[i + j]
  BY <1>1, SubSeqProperties
<1>4. RemoveAt(q, i) = a \o b
  BY DEF RemoveAt
<1> HIDE DEF a, b
<1>5. /\ a \o b \in Seq(S) /\ Len(a \o b) = (i - 1) + (Len(q) - i)
      /\ \A j \in 1 .. (i - 1) + (Len(q) - i) :
           (a \o b)[j] = IF j <= i - 1 THEN a[j] ELSE b[j - (i - 1)]
  BY <1>2, <1>3, ConcatProperties
<1>6. ASSUME NEW j \in 1 .. Len(q) - 1
      PROVE  (a \o b)[j] = IF j < i THEN q[j] ELSE q[j + 1]
  <2>1. CASE j < i
    BY <1>1, <1>2, <1>5, <2>1
  <2>2. CASE ~(j < i)
    <3>1. (a \o b)[j] = b[j - (i - 1)] /\ j - (i - 1) \in 1 .. Len(q) - i
      BY <1>1, <1>5, <2>2
    <3>2. b[j - (i - 1)] = q[i + (j - (i - 1))]
      BY <1>3, <3>1
    <3>3. i + (j - (i - 1)) = j + 1
      BY <1>1
    <3> QED
      BY <2>2, <3>1, <3>2, <3>3
  <2> QED
    BY <2>1, <2>2
<1> QED
  BY <1>1, <1>4, <1>5, <1>6

\* Taking one event out takes one place away and keeps the order of the rest.
LEMMA RemovePlaces ==
  ASSUME NEW q \in Seq(Envelopes), NEW i \in 1 .. Len(q), NEW stores
  PROVE  Cardinality(Places(RemoveAt(q, i), stores)) =
           Cardinality(Places(q, stores)) - (IF q[i].store \in stores THEN 1 ELSE 0)
<1> DEFINE old == Places(q, stores) \ {i}
           new == Places(RemoveAt(q, i), stores)
           f == [j \in old |-> IF j < i THEN j ELSE j - 1]
<1>1. /\ RemoveAt(q, i) \in Seq(Envelopes) /\ Len(RemoveAt(q, i)) = Len(q) - 1
      /\ \A j \in 1 .. Len(q) - 1 : RemoveAt(q, i)[j] = IF j < i THEN q[j] ELSE q[j + 1]
  BY RemoveProperties
<1>2. /\ DOMAIN q = 1 .. Len(q) /\ Len(q) \in Nat /\ i \in Nat
      /\ DOMAIN RemoveAt(q, i) = 1 .. Len(q) - 1
  BY <1>1, LenProperties
<1>3. /\ IsFiniteSet(Places(q, stores)) /\ Cardinality(Places(q, stores)) \in Nat
      /\ IsFiniteSet(new)
  BY <1>1, PlacesAreFinite
<1>4. IsFiniteSet(old) /\ Cardinality(old) =
        Cardinality(Places(q, stores)) - (IF q[i].store \in stores THEN 1 ELSE 0)
  <2>1. i \in Places(q, stores) <=> q[i].store \in stores
    BY <1>2 DEF Places
  <2> QED
    BY <1>3, <2>1, FS_RemoveElement
<1>5. f \in Bijection(old, new)
  <2>1. \A j \in old : j \in 1 .. Len(q) /\ j # i /\ q[j].store \in stores
    BY <1>2 DEF Places
  <2>2. \A j \in 1 .. Len(q) - 1 : j \in new <=> (IF j < i THEN j \in old ELSE j + 1 \in old)
    BY <1>1, <1>2 DEF Places
  <2>3. new \subseteq 1 .. Len(q) - 1
    BY <1>2 DEF Places
  <2> HIDE DEF old, new
  <2>4. f \in [old -> new]
    <3>1. ASSUME NEW j \in old PROVE (IF j < i THEN j ELSE j - 1) \in new
      <4>1. CASE j < i
        BY <1>2, <2>1, <2>2, <4>1
      <4>2. CASE ~(j < i)
        <5>1. j - 1 \in 1 .. Len(q) - 1 /\ ~(j - 1 < i) /\ (j - 1) + 1 = j
          BY <1>2, <2>1, <4>2
        <5> QED
          BY <2>2, <4>2, <5>1
      <4> QED
        BY <4>1, <4>2
    <3> QED
      BY <3>1
  <2>5. \A a, b \in old : f[a] = f[b] => a = b
    BY <1>2, <2>1
  <2>6. ASSUME NEW t \in new PROVE \E s \in old : f[s] = t
    <3>1. CASE t < i
      <4>1. t \in old /\ f[t] = t
        BY <2>2, <2>3, <3>1
      <4> QED
        BY <4>1
    <3>2. CASE ~(t < i)
      <4>1. t + 1 \in old /\ ~(t + 1 < i) /\ (t + 1) - 1 = t
        BY <1>2, <2>2, <2>3, <3>2
      <4> QED
        BY <4>1
    <3> QED
      BY <3>1, <3>2
  <2> QED
    BY <2>4, <2>5, <2>6 DEF Bijection, Injection, Surjection, IsInjective
<1>6. Cardinality(new) = Cardinality(old)
  BY <1>4, <1>5, FS_Bijection DEF ExistsBijection
<1> QED
  BY <1>4, <1>6

-----------------------------------------------------------------------------
(* What an action does to the events of a class.                           *)

EventsTyped == events \in [Classes -> Seq(Envelopes)]
Count(k, stores) == Cardinality(Places(events[k], stores))

Appends(k, e) == events' = [events EXCEPT ![k] = Append(@, e)]
Restores(k, i, store) == events' = [events EXCEPT ![k] = Restored(@, i, store)]
Removes(k, i) == events' = [events EXCEPT ![k] = RemoveAt(@, i)]

LEMMA CountsAreNat ==
  ASSUME EventsTyped, NEW k \in Classes
  PROVE  /\ \A stores : Count(k, stores) \in Nat
         /\ Len(events[k]) \in Nat /\ DOMAIN events[k] = 1 .. Len(events[k])
         /\ \A i \in 1 .. Len(events[k]) : events[k][i] \in Envelopes
         /\ \A store : At(k, store) = Places(events[k], {store})
<1>1. events[k] \in Seq(Envelopes)
  BY DEF EventsTyped
<1>2. Len(events[k]) \in Nat /\ DOMAIN events[k] = 1 .. Len(events[k])
  BY <1>1, LenProperties
<1>3. \A stores : Count(k, stores) \in Nat
  BY <1>1, PlacesAreFinite DEF Count
<1>4. \A i \in 1 .. Len(events[k]) : events[k][i] \in Envelopes
  BY <1>1, ElementOfSeq
<1>5. \A store : At(k, store) = Places(events[k], {store})
  BY DEF At, Places
<1> QED
  BY <1>2, <1>3, <1>4, <1>5

LEMMA AppendEffect ==
  ASSUME EventsTyped, NEW k \in Classes, NEW e \in Envelopes, Appends(k, e)
  PROVE  /\ EventsTyped'
         /\ Len(events'[k]) = Len(events[k]) + 1
         /\ \A i \in 1 .. Len(events[k]) : events'[k][i] = events[k][i]
         /\ events'[k][Len(events[k]) + 1] = e
         /\ \A j \in Classes : j # k => events'[j] = events[j]
         /\ \A j \in Classes : \A stores : Count(j, stores)' =
              Count(j, stores) + (IF j = k /\ e.store \in stores THEN 1 ELSE 0)
<1> DEFINE q == events[k]
<1>1. q \in Seq(Envelopes)
  BY DEF EventsTyped
<1>2. events'[k] = Append(q, e) /\ \A j \in Classes : j # k => events'[j] = events[j]
  BY DEF Appends, EventsTyped
<1>3. /\ Append(q, e) \in Seq(Envelopes) /\ Len(Append(q, e)) = Len(q) + 1
      /\ \A i \in 1 .. Len(q) : Append(q, e)[i] = q[i]
      /\ Append(q, e)[Len(q) + 1] = e
  BY <1>1, AppendPlaces
<1>4. ASSUME NEW stores
      PROVE  Cardinality(Places(Append(q, e), stores)) =
               Cardinality(Places(q, stores)) + (IF e.store \in stores THEN 1 ELSE 0)
  <2>1. /\ Places(Append(q, e), stores) =
             IF e.store \in stores THEN Places(q, stores) \cup {Len(q) + 1} ELSE Places(q, stores)
        /\ Len(q) + 1 \notin Places(q, stores)
    BY <1>1, AppendPlaces
  <2>2. IsFiniteSet(Places(q, stores)) /\ Cardinality(Places(q, stores)) \in Nat
    BY <1>1, PlacesAreFinite
  <2>3. Cardinality(Places(q, stores) \cup {Len(q) + 1}) = Cardinality(Places(q, stores)) + 1
    BY <2>1, <2>2, FS_AddElement
  <2> QED
    BY <2>1, <2>2, <2>3
<1>5. EventsTyped'
  BY <1>3 DEF Appends, EventsTyped
<1>6. ASSUME NEW j \in Classes, NEW stores
      PROVE  Count(j, stores)' = Count(j, stores) + (IF j = k /\ e.store \in stores THEN 1 ELSE 0)
  <2>1. CASE j = k
    BY <1>2, <1>4, <2>1 DEF Count
  <2>2. CASE j # k
    <3>1. Count(j, stores)' = Count(j, stores) /\ Count(j, stores) \in Nat
      BY <1>2, <2>2, CountsAreNat DEF Count
    <3> QED
      BY <2>2, <3>1
  <2> QED
    BY <2>1, <2>2
<1> QED
  BY <1>2, <1>3, <1>5, <1>6

LEMMA RestoreEffect ==
  ASSUME EventsTyped, NEW k \in Classes, NEW i \in 1 .. Len(events[k]), NEW store \in Stores,
         Restores(k, i, store)
  PROVE  /\ EventsTyped'
         /\ Len(events'[k]) = Len(events[k])
         /\ \A j \in 1 .. Len(events[k]) :
              /\ events'[k][j].finality = events[k][j].finality
              /\ events'[k][j].store = IF j = i THEN store ELSE events[k][j].store
         /\ \A j \in Classes : j # k => events'[j] = events[j]
         /\ \A j \in Classes : \A stores : Count(j, stores)' =
              Count(j, stores) - (IF j = k /\ events[k][i].store \in stores THEN 1 ELSE 0)
                               + (IF j = k /\ store \in stores THEN 1 ELSE 0)
<1> DEFINE q == events[k]
<1>1. q \in Seq(Envelopes)
  BY DEF EventsTyped
<1>2. events'[k] = Restored(q, i, store) /\ \A j \in Classes : j # k => events'[j] = events[j]
  BY DEF Restores, EventsTyped
<1>3. /\ Restored(q, i, store) \in Seq(Envelopes) /\ Len(Restored(q, i, store)) = Len(q)
      /\ \A j \in 1 .. Len(q) :
           /\ Restored(q, i, store)[j].finality = q[j].finality
           /\ Restored(q, i, store)[j].store = IF j = i THEN store ELSE q[j].store
  BY <1>1, RestorePlaces
<1>4. ASSUME NEW stores
      PROVE  Cardinality(Places(Restored(q, i, store), stores)) =
               Cardinality(Places(q, stores)) - (IF q[i].store \in stores THEN 1 ELSE 0)
                 + (IF store \in stores THEN 1 ELSE 0)
  <2>1. Places(Restored(q, i, store), stores) =
          (Places(q, stores) \ {i}) \cup (IF store \in stores THEN {i} ELSE {})
    BY <1>1, RestorePlaces
  <2>2. IsFiniteSet(Places(q, stores)) /\ Cardinality(Places(q, stores)) \in Nat
    BY <1>1, PlacesAreFinite
  <2>3. i \in Places(q, stores) <=> q[i].store \in stores
    BY <1>1, PlacesAreFinite DEF Places
  <2>4. /\ IsFiniteSet(Places(q, stores) \ {i})
        /\ Cardinality(Places(q, stores) \ {i}) =
             IF q[i].store \in stores THEN Cardinality(Places(q, stores)) - 1
                                      ELSE Cardinality(Places(q, stores))
    BY <2>2, <2>3, FS_RemoveElement
  <2>5. Cardinality((Places(q, stores) \ {i}) \cup {i}) = Cardinality(Places(q, stores) \ {i}) + 1
    BY <2>4, FS_AddElement
  <2>6. CASE store \in stores
    BY <2>1, <2>2, <2>4, <2>5, <2>6
  <2>7. CASE store \notin stores
    <3>1. Places(Restored(q, i, store), stores) = Places(q, stores) \ {i}
      BY <2>1, <2>7
    <3> QED
      BY <2>2, <2>4, <2>7, <3>1
  <2> QED
    BY <2>6, <2>7
<1>5. EventsTyped'
  BY <1>3 DEF Restores, EventsTyped
<1>6. ASSUME NEW j \in Classes, NEW stores
      PROVE  Count(j, stores)' =
               Count(j, stores) - (IF j = k /\ events[k][i].store \in stores THEN 1 ELSE 0)
                                + (IF j = k /\ store \in stores THEN 1 ELSE 0)
  <2>1. CASE j = k
    BY <1>2, <1>4, <2>1 DEF Count
  <2>2. CASE j # k
    <3>1. Count(j, stores)' = Count(j, stores) /\ Count(j, stores) \in Nat
      BY <1>2, <2>2, CountsAreNat DEF Count
    <3> QED
      BY <2>2, <3>1
  <2> QED
    BY <2>1, <2>2
<1> QED
  BY <1>2, <1>3, <1>5, <1>6

LEMMA RemoveEffect ==
  ASSUME EventsTyped, NEW k \in Classes, NEW i \in 1 .. Len(events[k]), Removes(k, i)
  PROVE  /\ EventsTyped'
         /\ Len(events'[k]) = Len(events[k]) - 1
         /\ \A j \in 1 .. Len(events[k]) - 1 :
              events'[k][j] = IF j < i THEN events[k][j] ELSE events[k][j + 1]
         /\ \A j \in Classes : j # k => events'[j] = events[j]
         /\ \A j \in Classes : \A stores : Count(j, stores)' =
              Count(j, stores) - (IF j = k /\ events[k][i].store \in stores THEN 1 ELSE 0)
<1>1. events[k] \in Seq(Envelopes)
  BY DEF EventsTyped
<1>2. events'[k] = RemoveAt(events[k], i) /\ \A j \in Classes : j # k => events'[j] = events[j]
  BY DEF Removes, EventsTyped
<1>3. /\ RemoveAt(events[k], i) \in Seq(Envelopes)
      /\ Len(RemoveAt(events[k], i)) = Len(events[k]) - 1
      /\ \A j \in 1 .. Len(events[k]) - 1 :
           RemoveAt(events[k], i)[j] = IF j < i THEN events[k][j] ELSE events[k][j + 1]
  BY <1>1, RemoveProperties
<1>4. EventsTyped'
  BY <1>3 DEF Removes, EventsTyped
<1>5. ASSUME NEW j \in Classes, NEW stores
      PROVE  Count(j, stores)' =
               Count(j, stores) - (IF j = k /\ events[k][i].store \in stores THEN 1 ELSE 0)
  <2>1. CASE j = k
    BY <1>1, <1>2, <2>1, RemovePlaces DEF Count
  <2>2. CASE j # k
    <3>1. Count(j, stores)' = Count(j, stores) /\ Count(j, stores) \in Nat
      BY <1>2, <2>2, CountsAreNat DEF Count
    <3> QED
      BY <2>2, <3>1
  <2> QED
    BY <2>1, <2>2
<1> QED
  BY <1>2, <1>3, <1>4, <1>5

-----------------------------------------------------------------------------
(* The state of both sides.                                                *)

Steps == {"idle", "stopped", "fetch", "compare", "slot", "mailbox", "slotTaken", "mailTaken"}
Ports == [step : Steps, class : Classes, first : Classes, known : Nat, gone : SUBSET Classes]

\* Only the newest event of the class under commit is with its publisher, and
\* the port decides for the slot only while it is taken.
BothSidesTyped ==
  /\ EventsTyped
  /\ commit \in Classes \cup {Nobody} /\ turn \in Classes /\ closed \in BOOLEAN
  /\ port \in Ports
  /\ pending \in [Classes -> Nat] /\ mailPending \in Nat
  /\ \A k \in Classes :
       /\ commit = k => Len(events[k]) > 0
       /\ \A i \in 1 .. Len(events[k]) :
            events[k][i].store \in {"sending", "overflow"} <=> commit = k /\ i = Len(events[k])
  /\ port.step = "slot" => At(port.class, "held") # {}

LEMMA EventValues ==
  \A f \in Finalities, s \in Stores :
    /\ Event(f, s) \in Envelopes
    /\ Event(f, s).store = s /\ Event(f, s).finality = f
  BY DEF Event, Envelopes

LEMMA PortValues ==
  \A step \in Steps, k \in Classes, f \in Classes, n \in Nat, g \in SUBSET Classes :
    /\ Port(step, k, f, n, g) \in Ports
    /\ Port(step, k, f, n, g).step = step /\ Port(step, k, f, n, g).class = k
    /\ Port(step, k, f, n, g).first = f /\ Port(step, k, f, n, g).known = n
    /\ Port(step, k, f, n, g).gone = g
  BY DEF Port, Ports

LEMMA RestingPorts ==
  /\ Resting \in Ports /\ Stopped \in Ports
  /\ Resting.step = "idle" /\ Stopped.step = "stopped"
  /\ Resting.known = 0 /\ Stopped.known = 0 /\ Resting.gone = {} /\ Stopped.gone = {}
  BY DEF Resting, Stopped, Port, Ports, Classes, Steps

LEMMA OldestIsThere ==
  ASSUME EventsTyped, NEW k \in Classes, NEW store, At(k, store) # {}
  PROVE  /\ Oldest(k, store) \in At(k, store)
         /\ Oldest(k, store) \in 1 .. Len(events[k])
         /\ events[k][Oldest(k, store)].store = store
         /\ \A i \in At(k, store) : Oldest(k, store) <= i
<1>1. At(k, store) \subseteq 1 .. Len(events[k]) /\ Len(events[k]) \in Nat
  BY CountsAreNat DEF At
<1>2. At(k, store) \subseteq Nat
  BY <1>1
<1> QED
  BY <1>1, <1>2, MinExists DEF Oldest, At

LEMMA StagedIsLast ==
  ASSUME BothSidesTyped, commit # Nobody
  PROVE  /\ commit \in Classes /\ Len(events[commit]) \in 1 .. Len(events[commit])
         /\ Staged = events[commit][Len(events[commit])]
         /\ Staged \in Envelopes /\ Staged.store \in {"sending", "overflow"}
<1>1. commit \in Classes
  BY DEF BothSidesTyped
<1>2. Len(events[commit]) \in Nat /\ Len(events[commit]) > 0
  BY <1>1, CountsAreNat DEF BothSidesTyped
<1>3. Len(events[commit]) \in 1 .. Len(events[commit])
  BY <1>2
<1>4. Staged = events[commit][Len(events[commit])]
  BY DEF Staged, Last
<1> QED
  BY <1>1, <1>3, <1>4, CountsAreNat DEF BothSidesTyped

LEMMA PutStagedEffect ==
  ASSUME NEW store, PutStaged(store)
  PROVE  Restores(commit, Len(events[commit]), store)
  BY DEF PutStaged, Restores, Restored

LEMMA DropStagedEffect ==
  ASSUME BothSidesTyped, commit # Nobody, DropStaged
  PROVE  Removes(commit, Len(events[commit]))
<1> DEFINE q == events[commit]
<1>1. q \in Seq(Envelopes) /\ Len(q) \in 1 .. Len(q)
  BY StagedIsLast DEF BothSidesTyped, EventsTyped
<1>2. Front(q) \in Seq(Envelopes)
  <2>1. \A i \in 1 .. Len(q) - 1 : q[i] \in Envelopes
    BY <1>1, ElementOfSeq
  <2> QED
    BY <1>1, <2>1, SubSeqProperties DEF Front
<1>3. SubSeq(q, Len(q) + 1, Len(q)) = <<>>
  BY <1>1, SubSeqEmpty
<1>4. RemoveAt(q, Len(q)) = Front(q) \o <<>>
  BY <1>3 DEF RemoveAt, Front
<1>5. RemoveAt(q, Len(q)) = Front(q)
  BY <1>2, <1>4, ConcatEmptySeq
<1> QED
  BY <1>5 DEF DropStaged, Removes

\* What each action does, by its effect on the events.
LEMMA PublisherEffects ==
  ASSUME BothSidesTyped
  PROVE  /\ SendPrimary \/ PrimaryFull \/ RetainTerminal \/ DropEvent => commit # Nobody
         /\ SendPrimary => Restores(commit, Len(events[commit]), "primary")
         /\ PrimaryFull => Restores(commit, Len(events[commit]), "overflow")
         /\ RetainTerminal => Restores(commit, Len(events[commit]), "mailbox")
         /\ DropEvent => Removes(commit, Len(events[commit]))
  BY PutStagedEffect, DropStagedEffect
     DEF SendPrimary, PrimaryFull, RetainTerminal, DropEvent, Sending, Overflowing

LEMMA ClassesAreTyped ==
  ASSUME BothSidesTyped
  PROVE  port.class \in Classes /\ port.first \in Classes /\ port.known \in Nat
         /\ port.gone \subseteq Classes /\ port.step \in Steps
  BY DEF BothSidesTyped, Ports

LEMMA FetchEffect ==
  ASSUME BothSidesTyped, Fetch
  PROVE  \/ UNCHANGED events /\ (At(port.class, "held") # {} \/ At(port.class, "primary") = {})
         \/ /\ Restores(port.class, Oldest(port.class, "primary"), "held")
            /\ Oldest(port.class, "primary") \in 1 .. Len(events[port.class])
            /\ events[port.class][Oldest(port.class, "primary")].store = "primary"
            /\ At(port.class, "held") = {}
<1>1. CASE At(port.class, "held") = {} /\ At(port.class, "primary") # {}
  BY <1>1, OldestIsThere, ClassesAreTyped DEF Fetch, Restores, Restored, BothSidesTyped
<1>2. CASE ~(At(port.class, "held") = {} /\ At(port.class, "primary") # {})
  BY <1>2 DEF Fetch
<1> QED
  BY <1>1, <1>2

LEMMA TakeEffect ==
  ASSUME BothSidesTyped, Taking
  PROVE  /\ Removes(port.class, Position)
         /\ Position \in 1 .. Len(events[port.class])
         /\ TakeSlot => events[port.class][Position].store = "held" /\ port.step = "slot"
         /\ PopTerminal => events[port.class][Position].store = "mailbox" /\ port.step = "mailbox"
<1>1. CASE TakeSlot
  <2>1. port.step = "slot" /\ At(port.class, "held") # {}
    BY <1>1 DEF TakeSlot, BothSidesTyped
  <2> QED
    BY <1>1, <2>1, OldestIsThere, ClassesAreTyped
       DEF TakeSlot, PopTerminal, TakeOut, Removes, Position, BothSidesTyped
<1>2. CASE PopTerminal
  BY <1>2, OldestIsThere, ClassesAreTyped
     DEF TakeSlot, PopTerminal, TakeOut, Removes, Position, BothSidesTyped
<1> QED
  BY <1>1, <1>2 DEF Taking

\* The steps that leave the events alone.
Quiet == Close \/ BeginReceive \/ Compare \/ Deliver \/ TrySecond \/ GiveUp

LEMMA QuietSteps == Quiet => UNCHANGED events /\ UNCHANGED commit
  BY DEF Quiet, Close, BeginReceive, Compare, Deliver, TrySecond, GiveUp

LEMMA NoPlaces ==
  ASSUME NEW q \in Seq(Envelopes), NEW stores
  PROVE  /\ Cardinality(Places(q, stores)) \in Nat
         /\ Places(q, stores) # {} <=> Cardinality(Places(q, stores)) > 0
<1>1. IsFiniteSet(Places(q, stores)) /\ Cardinality(Places(q, stores)) \in Nat
  BY PlacesAreFinite
<1> QED
  BY <1>1, FS_EmptySet

LEMMA CountOfOne ==
  ASSUME EventsTyped, NEW k \in Classes, NEW store
  PROVE  /\ Count(k, {store}) = Cardinality(At(k, store)) /\ Count(k, {store}) \in Nat
         /\ Count(k, {store}) = 0 <=> At(k, store) = {}
         /\ At(k, store) = {i \in 1 .. Len(events[k]) : events[k][i].store = store}
<1>1. /\ Count(k, {store}) = Cardinality(At(k, store)) /\ Count(k, {store}) \in Nat
      /\ DOMAIN events[k] = 1 .. Len(events[k])
  BY CountsAreNat DEF Count
<1>2. IsFiniteSet(At(k, store))
  <2>1. At(k, store) = Places(events[k], {store}) /\ events[k] \in Seq(Envelopes)
    BY CountsAreNat DEF EventsTyped
  <2>2. IsFiniteSet(Places(events[k], {store}))
    BY <2>1, PlacesAreFinite
  <2> QED
    BY <2>1, <2>2
<1> QED
  BY <1>1, <1>2, FS_EmptySet DEF At

\* How each action moves an event from one store to another.
LEMMA Moves ==
  ASSUME BothSidesTyped, NEW j \in Classes, NEW S
  PROVE  /\ \A k \in Classes, f \in Finalities : Allocate(k, f) =>
              Count(j, S)' = Count(j, S) + (IF j = k /\ "sending" \in S THEN 1 ELSE 0)
         /\ SendPrimary =>
              Count(j, S)' = Count(j, S) - (IF j = commit /\ "sending" \in S THEN 1 ELSE 0)
                                         + (IF j = commit /\ "primary" \in S THEN 1 ELSE 0)
         /\ PrimaryFull =>
              Count(j, S)' = Count(j, S) - (IF j = commit /\ "sending" \in S THEN 1 ELSE 0)
                                         + (IF j = commit /\ "overflow" \in S THEN 1 ELSE 0)
         /\ RetainTerminal =>
              Count(j, S)' = Count(j, S) - (IF j = commit /\ "overflow" \in S THEN 1 ELSE 0)
                                         + (IF j = commit /\ "mailbox" \in S THEN 1 ELSE 0)
         /\ DropEvent =>
              Count(j, S)' = Count(j, S) - (IF j = commit /\ "overflow" \in S THEN 1 ELSE 0)
         /\ Fetch => \/ UNCHANGED events
                     \/ /\ At(port.class, "held") = {}
                        /\ Count(j, S)' = Count(j, S)
                             - (IF j = port.class /\ "primary" \in S THEN 1 ELSE 0)
                             + (IF j = port.class /\ "held" \in S THEN 1 ELSE 0)
         /\ TakeSlot =>
              Count(j, S)' = Count(j, S) - (IF j = port.class /\ "held" \in S THEN 1 ELSE 0)
         /\ PopTerminal =>
              Count(j, S)' = Count(j, S) - (IF j = port.class /\ "mailbox" \in S THEN 1 ELSE 0)
<1>1. EventsTyped /\ Count(j, S) \in Nat
  BY CountsAreNat DEF BothSidesTyped
<1>2. ASSUME NEW k \in Classes, NEW f \in Finalities, Allocate(k, f)
      PROVE  Count(j, S)' = Count(j, S) + (IF j = k /\ "sending" \in S THEN 1 ELSE 0)
  <2>1. Appends(k, Event(f, "sending"))
    BY <1>2 DEF Allocate, Appends
  <2>2. Event(f, "sending") \in Envelopes /\ Event(f, "sending").store = "sending"
    BY EventValues DEF Stores
  <2>3. Count(j, S)' = Count(j, S) + (IF j = k /\ Event(f, "sending").store \in S THEN 1 ELSE 0)
    BY <1>1, <2>1, <2>2, AppendEffect
  <2> QED
    BY <2>2, <2>3
<1>3. ASSUME SendPrimary \/ PrimaryFull \/ RetainTerminal \/ DropEvent
      PROVE  /\ commit \in Classes /\ Len(events[commit]) \in 1 .. Len(events[commit])
             /\ Staged = events[commit][Len(events[commit])]
    BY <1>3, PublisherEffects, StagedIsLast
<1>4. ASSUME SendPrimary
      PROVE  Count(j, S)' = Count(j, S) - (IF j = commit /\ "sending" \in S THEN 1 ELSE 0)
                                         + (IF j = commit /\ "primary" \in S THEN 1 ELSE 0)
  <2>1. Restores(commit, Len(events[commit]), "primary") /\ Staged.store = "sending"
    BY <1>4, PublisherEffects DEF SendPrimary, Sending
  <2> QED
    BY <1>1, <1>3, <1>4, <2>1, RestoreEffect DEF Stores
<1>5. ASSUME PrimaryFull
      PROVE  Count(j, S)' = Count(j, S) - (IF j = commit /\ "sending" \in S THEN 1 ELSE 0)
                                         + (IF j = commit /\ "overflow" \in S THEN 1 ELSE 0)
  <2>1. Restores(commit, Len(events[commit]), "overflow") /\ Staged.store = "sending"
    BY <1>5, PublisherEffects DEF PrimaryFull, Sending
  <2> QED
    BY <1>1, <1>3, <1>5, <2>1, RestoreEffect DEF Stores
<1>6. ASSUME RetainTerminal
      PROVE  Count(j, S)' = Count(j, S) - (IF j = commit /\ "overflow" \in S THEN 1 ELSE 0)
                                         + (IF j = commit /\ "mailbox" \in S THEN 1 ELSE 0)
  <2>1. Restores(commit, Len(events[commit]), "mailbox") /\ Staged.store = "overflow"
    BY <1>6, PublisherEffects DEF RetainTerminal, Overflowing
  <2> QED
    BY <1>1, <1>3, <1>6, <2>1, RestoreEffect DEF Stores
<1>7. ASSUME DropEvent
      PROVE  Count(j, S)' = Count(j, S) - (IF j = commit /\ "overflow" \in S THEN 1 ELSE 0)
  <2>1. Removes(commit, Len(events[commit])) /\ Staged.store = "overflow"
    BY <1>7, PublisherEffects DEF DropEvent, Overflowing
  <2> QED
    BY <1>1, <1>3, <1>7, <2>1, RemoveEffect
<1>8. ASSUME Fetch, ~UNCHANGED events
      PROVE  /\ At(port.class, "held") = {}
             /\ Count(j, S)' = Count(j, S)
                  - (IF j = port.class /\ "primary" \in S THEN 1 ELSE 0)
                  + (IF j = port.class /\ "held" \in S THEN 1 ELSE 0)
  BY <1>1, <1>8, FetchEffect, ClassesAreTyped, RestoreEffect DEF Stores
<1>9. ASSUME TakeSlot
      PROVE  Count(j, S)' = Count(j, S) - (IF j = port.class /\ "held" \in S THEN 1 ELSE 0)
  BY <1>1, <1>9, TakeEffect, ClassesAreTyped, RemoveEffect DEF Taking
<1>10. ASSUME PopTerminal
       PROVE  Count(j, S)' = Count(j, S) - (IF j = port.class /\ "mailbox" \in S THEN 1 ELSE 0)
  BY <1>1, <1>10, TakeEffect, ClassesAreTyped, RemoveEffect DEF Taking
<1> QED
  BY <1>2, <1>4, <1>5, <1>6, <1>7, <1>8, <1>9, <1>10

-----------------------------------------------------------------------------
(* Types, and the bounds of the stores.                                    *)

\* Only the newest event of the class under commit is with its publisher.
StagedAlone ==
  \A k \in Classes :
    /\ commit = k => Len(events[k]) > 0
    /\ \A i \in 1 .. Len(events[k]) :
         events[k][i].store \in {"sending", "overflow"} <=> commit = k /\ i = Len(events[k])

LEMMA StagedAloneStep ==
  ASSUME DeliveryConstants, BothSidesTyped, DeliveryNext
  PROVE  EventsTyped' /\ StagedAlone'
<1>1. EventsTyped /\ StagedAlone /\ commit \in Classes \cup {Nobody} /\ Nobody \notin Classes
  BY DEF BothSidesTyped, StagedAlone, DeliveryConstants, Classes
<1>2. \A k \in Classes : Len(events[k]) \in Nat
  BY <1>1, CountsAreNat
<1>3. ASSUME NEW k \in Classes, NEW f \in Finalities, Allocate(k, f)
      PROVE  EventsTyped' /\ StagedAlone'
  <2> DEFINE e == Event(f, "sending")
  <2>1. Appends(k, e) /\ commit = Nobody /\ commit' = k
    BY <1>3 DEF Allocate, Appends
  <2>2. e \in Envelopes /\ e.store = "sending"
    BY EventValues DEF Stores
  <2> HIDE DEF e
  <2>3. /\ EventsTyped'
        /\ Len(events'[k]) = Len(events[k]) + 1
        /\ \A i \in 1 .. Len(events[k]) : events'[k][i] = events[k][i]
        /\ events'[k][Len(events[k]) + 1] = e
        /\ \A j \in Classes : j # k => events'[j] = events[j]
    BY <1>1, <2>1, <2>2, AppendEffect
  <2> QED
    BY <1>1, <1>2, <2>1, <2>2, <2>3 DEF StagedAlone
<1>4. ASSUME NEW s \in {"primary", "mailbox", "overflow"}, commit # Nobody,
             Restores(commit, Len(events[commit]), s),
             commit' = IF s = "overflow" THEN commit ELSE Nobody
      PROVE  EventsTyped' /\ StagedAlone'
  <2>1. commit \in Classes /\ Len(events[commit]) \in 1 .. Len(events[commit])
    BY <1>4, StagedIsLast
  <2>2. /\ EventsTyped'
        /\ Len(events'[commit]) = Len(events[commit])
        /\ \A j \in 1 .. Len(events[commit]) :
             events'[commit][j].store = IF j = Len(events[commit]) THEN s
                                        ELSE events[commit][j].store
        /\ \A j \in Classes : j # commit => events'[j] = events[j]
    BY <1>1, <1>4, <2>1, RestoreEffect DEF Stores
  <2> QED
    BY <1>1, <1>2, <1>4, <2>1, <2>2 DEF StagedAlone
<1>5. ASSUME DropEvent
      PROVE  EventsTyped' /\ StagedAlone'
  <2>1. /\ commit \in Classes /\ Len(events[commit]) \in 1 .. Len(events[commit])
        /\ Removes(commit, Len(events[commit])) /\ commit' = Nobody
    BY <1>5, StagedIsLast, PublisherEffects DEF DropEvent
  <2>2. /\ EventsTyped'
        /\ Len(events'[commit]) = Len(events[commit]) - 1
        /\ \A j \in 1 .. Len(events[commit]) - 1 : events'[commit][j] =
             IF j < Len(events[commit]) THEN events[commit][j] ELSE events[commit][j + 1]
        /\ \A j \in Classes : j # commit => events'[j] = events[j]
    BY <1>1, <2>1, RemoveEffect
  <2> QED
    BY <1>1, <1>2, <2>1, <2>2 DEF StagedAlone
<1>6. ASSUME Fetch
      PROVE  EventsTyped' /\ StagedAlone'
  <2> DEFINE k == port.class
             i == Oldest(k, "primary")
  <2>1. k \in Classes /\ commit' = commit
    BY <1>6, ClassesAreTyped DEF Fetch
  <2>2. CASE UNCHANGED events
    BY <1>1, <2>1, <2>2 DEF EventsTyped, StagedAlone
  <2>3. CASE ~UNCHANGED events
    <3>1. Restores(k, i, "held") /\ i \in 1 .. Len(events[k]) /\ events[k][i].store = "primary"
      BY <1>6, <2>3, FetchEffect
    <3> HIDE DEF k, i
    <3>2. /\ EventsTyped'
          /\ Len(events'[k]) = Len(events[k])
          /\ \A j \in 1 .. Len(events[k]) :
               events'[k][j].store = IF j = i THEN "held" ELSE events[k][j].store
          /\ \A j \in Classes : j # k => events'[j] = events[j]
      BY <1>1, <2>1, <3>1, RestoreEffect DEF Stores
    <3> QED
      BY <1>1, <1>2, <2>1, <3>1, <3>2 DEF StagedAlone
  <2> QED
    BY <2>2, <2>3
<1>7. ASSUME Taking
      PROVE  EventsTyped' /\ StagedAlone'
  <2> DEFINE k == port.class
             i == Position
  <2>1. /\ k \in Classes /\ commit' = commit
        /\ Removes(k, i) /\ i \in 1 .. Len(events[k])
        /\ events[k][i].store \in {"held", "mailbox"}
    BY <1>7, ClassesAreTyped, TakeEffect DEF Taking, TakeSlot, PopTerminal
  <2> HIDE DEF k, i
  <2>2. /\ EventsTyped'
        /\ Len(events'[k]) = Len(events[k]) - 1
        /\ \A j \in 1 .. Len(events[k]) - 1 :
             events'[k][j] = IF j < i THEN events[k][j] ELSE events[k][j + 1]
        /\ \A j \in Classes : j # k => events'[j] = events[j]
    BY <1>1, <2>1, RemoveEffect
  <2>3. ASSUME NEW c \in Classes
        PROVE  /\ commit' = c => Len(events'[c]) > 0
               /\ \A j \in 1 .. Len(events'[c]) :
                    events'[c][j].store \in {"sending", "overflow"}
                      <=> commit' = c /\ j = Len(events'[c])
    <3>1. CASE c # k
      BY <1>1, <2>1, <2>2, <3>1 DEF StagedAlone
    <3>2. CASE c = k
      <4>1. commit = k => i # Len(events[k]) /\ Len(events[k]) > 1
        BY <1>1, <1>2, <2>1 DEF StagedAlone
      <4>2. \A j \in 1 .. Len(events[k]) - 1 :
              /\ j \in 1 .. Len(events[k]) /\ j + 1 \in 1 .. Len(events[k])
              /\ j < i => j # Len(events[k])
        BY <1>2, <2>1
      <4>3. \A j \in 1 .. Len(events[k]) :
              events[k][j].store \in {"sending", "overflow"} <=> commit = k /\ j = Len(events[k])
        BY <1>1, <2>1 DEF StagedAlone
      <4>4. \A j \in 1 .. Len(events[k]) - 1 :
              /\ events'[k][j] = IF j < i THEN events[k][j] ELSE events[k][j + 1]
              /\ j = Len(events[k]) - 1 <=> j + 1 = Len(events[k])
        BY <1>2, <2>1, <2>2
      <4>5. \A j \in 1 .. Len(events[k]) - 1 :
              events'[k][j].store \in {"sending", "overflow"}
                <=> commit = k /\ j = Len(events[k]) - 1
        <5> SUFFICES ASSUME NEW j \in 1 .. Len(events[k]) - 1
                     PROVE  events'[k][j].store \in {"sending", "overflow"}
                              <=> commit = k /\ j = Len(events[k]) - 1
          OBVIOUS
        <5>1. i \in Nat /\ j \in Nat /\ Len(events[k]) \in Nat
              /\ i <= Len(events[k]) /\ j <= Len(events[k]) - 1
          BY <1>2, <2>1
        <5>2. CASE j < i
          <6>1. j # Len(events[k]) /\ (commit = k => j # Len(events[k]) - 1)
            BY <4>1, <5>1, <5>2
          <6> QED
            BY <4>2, <4>3, <4>4, <5>2, <6>1
        <5>3. CASE ~(j < i)
          BY <4>2, <4>3, <4>4, <5>3
        <5> QED
          BY <5>2, <5>3
      <4>6. /\ events'[c] = events'[k] /\ commit' = commit
            /\ Len(events'[c]) = Len(events[k]) - 1
        BY <2>1, <2>2, <3>2
      <4>7. commit = k => Len(events[k]) - 1 > 0
        BY <1>2, <2>1, <4>1
      <4> QED
        BY <3>2, <4>5, <4>6, <4>7
    <3> QED
      BY <3>1, <3>2
  <2> QED
    BY <2>2, <2>3 DEF StagedAlone
<1>8. ASSUME Quiet
      PROVE  EventsTyped' /\ StagedAlone'
  BY <1>1, <1>8, QuietSteps DEF EventsTyped, StagedAlone
<1>9. ASSUME SendPrimary \/ PrimaryFull \/ RetainTerminal
      PROVE  EventsTyped' /\ StagedAlone'
  BY <1>4, <1>9, PublisherEffects DEF SendPrimary, PrimaryFull, RetainTerminal
<1> QED
  BY <1>3, <1>5, <1>6, <1>7, <1>8, <1>9
     DEF DeliveryNext, PublishStaged, TryRecv, Quiet, Taking

LEMMA StagedAloneTypes ==
  BothSidesTyped <=>
    /\ EventsTyped /\ StagedAlone
    /\ commit \in Classes \cup {Nobody} /\ turn \in Classes /\ closed \in BOOLEAN
    /\ port \in Ports
    /\ pending \in [Classes -> Nat] /\ mailPending \in Nat
    /\ port.step = "slot" => At(port.class, "held") # {}
  BY DEF BothSidesTyped, StagedAlone

\* The gauges and the port.
LEMMA ControlStep ==
  ASSUME BothSidesTyped, DeliveryNext
  PROVE  /\ commit' \in Classes \cup {Nobody} /\ turn' \in Classes /\ closed' \in BOOLEAN
         /\ port' \in Ports
         /\ pending' \in [Classes -> Nat] /\ mailPending' \in Nat
<1>1. /\ commit \in Classes \cup {Nobody} /\ turn \in Classes /\ closed \in BOOLEAN
      /\ port \in Ports /\ pending \in [Classes -> Nat] /\ mailPending \in Nat
  BY DEF BothSidesTyped
<1>2. /\ port.class \in Classes /\ port.first \in Classes /\ port.gone \in SUBSET Classes
      /\ Alternate(port.class) \in Classes
  BY ClassesAreTyped DEF Alternate, Classes
<1>3. \A n \in Nat : Minus1(n) \in Nat
  BY DEF Minus1
<1>4. \A step \in Steps : [port EXCEPT !.step = step] \in Ports
  BY <1>1 DEF Ports
<1>5. CASE \E k \in Classes, f \in Finalities : Allocate(k, f)
  BY <1>1, <1>5 DEF Allocate
<1>6. CASE PublishStaged
  <2>1. pending' \in [Classes -> Nat] /\ mailPending' \in Nat
    BY <1>1, <1>3, <1>6
       DEF PublishStaged, SendPrimary, PrimaryFull, RetainTerminal, DropEvent, gauges
  <2> QED
    BY <1>1, <1>6, <2>1
       DEF PublishStaged, SendPrimary, PrimaryFull, RetainTerminal, DropEvent, gauges
<1>12. CASE Close
  BY <1>1, <1>12 DEF Close, gauges
<1>7. CASE BeginReceive \/ TrySecond \/ GiveUp
  BY <1>1, <1>2, <1>7, PortValues, RestingPorts
     DEF BeginReceive, TrySecond, GiveUp, gauges, Steps
<1>8. CASE Fetch
  <2>1. Cardinality(Published(port.class)) \in Nat
    <3>1. Published(port.class) = Places(events[port.class], {"primary", "held", "mailbox"})
      BY DEF Published, Places
    <3> QED
      BY <1>2, <3>1, CountsAreNat DEF Count, BothSidesTyped
  <2>2. port' \in Ports
    BY <1>1, <1>2, <1>8, <2>1 DEF Fetch, Ports, Steps
  <2> QED
    BY <1>1, <1>8, <2>2 DEF Fetch, gauges
<1>9. CASE Compare
  <2>1. /\ [port EXCEPT !.step = "slot"] \in Ports
        /\ \A g \in SUBSET Classes : [port EXCEPT !.step = "mailbox", !.gone = g] \in Ports
    BY <1>1 DEF Ports, Steps
  <2>2. port' \in Ports
    BY <1>2, <1>9, <2>1 DEF Compare
  <2> QED
    BY <1>1, <1>9, <2>2 DEF Compare, gauges
<1>10. CASE TakeSlot \/ PopTerminal
  BY <1>1, <1>4, <1>10 DEF TakeSlot, PopTerminal, Move, gauges, Steps
<1>11. CASE Deliver
  BY <1>1, <1>2, <1>3, <1>11, RestingPorts DEF Deliver
<1> QED
  BY <1>5, <1>6, <1>7, <1>8, <1>9, <1>10, <1>11, <1>12 DEF DeliveryNext, TryRecv

\* Where the port goes.
LEMMA PortMoves ==
  ASSUME BothSidesTyped
  PROVE  /\ BeginReceive => /\ port \in {Resting, Stopped}
                            /\ port'.step = "fetch" /\ port'.class = turn /\ port'.first = turn
                            /\ port'.known = 0 /\ port'.gone = {}
         /\ Fetch => /\ port.step = "fetch" /\ port'.step = "compare"
                     /\ port'.class = port.class /\ port'.first = port.first
                     /\ port'.known = Cardinality(Published(port.class))
                     /\ port'.gone \subseteq port.gone \cup {port.class}
                     /\ port.class \in port'.gone \ port.gone =>
                          /\ closed
                          /\ At(port.class, "held") = {} /\ At(port.class, "primary") = {}
         /\ Compare => /\ port.step = "compare" /\ port'.step \in {"slot", "mailbox"}
                       /\ port'.class = port.class /\ port'.first = port.first
                       /\ port'.known = port.known /\ port'.gone \subseteq port.gone
                       /\ port'.step = "slot" <=>
                            /\ At(port.class, "held") # {}
                            /\ \/ At(port.class, "mailbox") = {}
                               \/ Oldest(port.class, "held") < Oldest(port.class, "mailbox")
         /\ TakeSlot => port.step = "slot" /\ port'.step = "slotTaken"
         /\ PopTerminal => port.step = "mailbox" /\ port'.step = "mailTaken"
         /\ Taking => /\ port'.class = port.class /\ port'.first = port.first
                      /\ port'.known = port.known /\ port'.gone = port.gone
         /\ Deliver => port.step \in {"slotTaken", "mailTaken"} /\ port' = Resting
         /\ TrySecond => /\ port.step = "mailbox" /\ At(port.class, "mailbox") = {}
                         /\ port'.step = "fetch" /\ port'.class = Alternate(port.class)
                         /\ port'.known = 0 /\ port'.gone = port.gone
         /\ GiveUp => /\ port.step = "mailbox" /\ At(port.class, "mailbox") = {}
                      /\ port' \in {Resting, Stopped}
                      /\ port' = Stopped => port.gone = Classes /\ MailboxSize = 0
<1>1. port \in Ports /\ turn \in Classes /\ Alternate(port.class) \in Classes
  BY DEF BothSidesTyped, Alternate, Classes
<1>2. BeginReceive => /\ port \in {Resting, Stopped}
                      /\ port'.step = "fetch" /\ port'.class = turn /\ port'.first = turn
                      /\ port'.known = 0 /\ port'.gone = {}
  BY <1>1, PortValues DEF BeginReceive, Steps
<1>3. Fetch => /\ port.step = "fetch" /\ port'.step = "compare"
               /\ port'.class = port.class /\ port'.first = port.first
               /\ port'.known = Cardinality(Published(port.class))
               /\ port'.gone \subseteq port.gone \cup {port.class}
               /\ port.class \in port'.gone \ port.gone =>
                    /\ closed
                    /\ At(port.class, "held") = {} /\ At(port.class, "primary") = {}
  BY <1>1 DEF Fetch, Ports
<1>4. Compare => /\ port.step = "compare" /\ port'.step \in {"slot", "mailbox"}
                 /\ port'.class = port.class /\ port'.first = port.first
                 /\ port'.known = port.known /\ port'.gone \subseteq port.gone
                 /\ port'.step = "slot" <=>
                      /\ At(port.class, "held") # {}
                      /\ \/ At(port.class, "mailbox") = {}
                         \/ Oldest(port.class, "held") < Oldest(port.class, "mailbox")
  <2> DEFINE P == [port EXCEPT !.step = "slot"]
             Q(g) == [port EXCEPT !.step = "mailbox", !.gone = g]
  <2>1. /\ P.step = "slot" /\ P.class = port.class /\ P.first = port.first
        /\ P.known = port.known /\ P.gone = port.gone
        /\ \A g : /\ Q(g).step = "mailbox" /\ Q(g).class = port.class /\ Q(g).first = port.first
                  /\ Q(g).known = port.known /\ Q(g).gone = g
    BY <1>1 DEF Ports
  <2>2. Compare => /\ port.step = "compare"
                   /\ IF /\ At(port.class, "held") # {}
                         /\ \/ At(port.class, "mailbox") = {}
                            \/ Oldest(port.class, "held") < Oldest(port.class, "mailbox")
                        THEN port' = P
                        ELSE \E g \in SUBSET port.gone : port' = Q(g)
    BY DEF Compare
  <2> HIDE DEF P, Q
  <2> QED
    BY <2>1, <2>2
<1>5. (TakeSlot => port.step = "slot" /\ port'.step = "slotTaken") /\
      (PopTerminal => port.step = "mailbox" /\ port'.step = "mailTaken") /\
      (Taking => /\ port'.class = port.class /\ port'.first = port.first
                 /\ port'.known = port.known /\ port'.gone = port.gone)
  BY <1>1 DEF Taking, TakeSlot, PopTerminal, Move, Ports
<1>6. TrySecond => /\ port.step = "mailbox" /\ At(port.class, "mailbox") = {}
                   /\ port'.step = "fetch" /\ port'.class = Alternate(port.class)
                   /\ port'.known = 0 /\ port'.gone = port.gone
  BY <1>1, PortValues DEF TrySecond, Nothing, Steps, Ports
<1>7. GiveUp => /\ port.step = "mailbox" /\ At(port.class, "mailbox") = {}
                /\ port' \in {Resting, Stopped}
                /\ port' = Stopped => port.gone = Classes /\ MailboxSize = 0
  BY RestingPorts DEF GiveUp, Nothing
<1>8. Deliver => port.step \in {"slotTaken", "mailTaken"} /\ port' = Resting
  BY DEF Deliver
<1> QED
  BY <1>2, <1>3, <1>4, <1>5, <1>6, <1>7, <1>8

LEMMA SlotStaysTaken ==
  ASSUME BothSidesTyped, EventsTyped', DeliveryNext, port'.step = "slot"
  PROVE  At(port.class, "held")' # {}
<1>1. PICK c \in Classes : c = port.class
  BY ClassesAreTyped
<1>2. /\ At(c, "held") # {} <=> Count(c, {"held"}) > 0
      /\ At(c, "held")' # {} <=> Count(c, {"held"})' > 0
      /\ Count(c, {"held"}) \in Nat
  <2>1. events[c] \in Seq(Envelopes) /\ events'[c] \in Seq(Envelopes)
    BY DEF BothSidesTyped, EventsTyped
  <2>2. /\ At(c, "held") = Places(events[c], {"held"})
        /\ At(c, "held")' = Places(events'[c], {"held"})
    BY DEF At, Places
  <2>3. At(c, "held")' # {} <=> Count(c, {"held"})' > 0
    BY <2>1, <2>2, NoPlaces DEF Count
  <2>4. /\ Count(c, {"held"}) \in Nat
        /\ At(c, "held") # {} <=> Count(c, {"held"}) > 0
    BY <2>1, <2>2, NoPlaces DEF Count
  <2> QED
    BY <2>3, <2>4
<1>3. At(port.class, "held")' = {i \in DOMAIN events'[port'.class] :
                                   events'[port'.class][i].store = "held"}
  BY DEF At
<1>4. At(c, "held")' = {i \in DOMAIN events'[c] : events'[c][i].store = "held"}
  BY DEF At
<1>5. ASSUME UNCHANGED port, Count(c, {"held"})' = Count(c, {"held"})
      PROVE  At(port.class, "held")' # {}
  <2>1. At(c, "held") # {}
    BY <1>1, <1>5 DEF BothSidesTyped
  <2> QED
    BY <1>1, <1>2, <1>3, <1>4, <1>5, <2>1
<1>6. ASSUME NEW k \in Classes, NEW f \in Finalities, Allocate(k, f)
      PROVE  At(port.class, "held")' # {}
  <2>1. Count(c, {"held"})' = Count(c, {"held"})
    BY <1>2, <1>6, Moves
  <2> QED
    BY <1>5, <1>6, <2>1 DEF Allocate
<1>7. CASE PublishStaged
  <2>1. UNCHANGED port
    BY <1>7 DEF PublishStaged, SendPrimary, PrimaryFull, RetainTerminal, DropEvent
  <2>2. Count(c, {"held"})' = Count(c, {"held"})
    BY <1>2, <1>7, Moves DEF PublishStaged
  <2> QED
    BY <1>5, <2>1, <2>2
<1>8. CASE Close
  BY <1>5, <1>8 DEF Close, Count
<1>9. CASE TryRecv
  <2>1. Compare
    BY <1>9, PortMoves, RestingPorts DEF TryRecv, Taking
  <2>2. UNCHANGED events /\ port'.class = c /\ At(c, "held") # {}
    BY <1>1, <2>1, PortMoves, QuietSteps DEF Quiet
  <2> QED
    BY <1>3, <2>2 DEF At
<1> QED
  BY <1>6, <1>7, <1>8, <1>9 DEF DeliveryNext

\* The control state of both sides is typed, and the events are.
LEMMA TypedStep ==
  ASSUME DeliveryConstants, BothSidesTyped, [DeliveryNext]_deliveryVars
  PROVE  BothSidesTyped'
<1>1. CASE DeliveryNext
  <2>1. EventsTyped' /\ StagedAlone'
    BY <1>1, StagedAloneStep
  <2>2. /\ commit' \in Classes \cup {Nobody} /\ turn' \in Classes /\ closed' \in BOOLEAN
        /\ port' \in Ports
        /\ pending' \in [Classes -> Nat] /\ mailPending' \in Nat
    BY <1>1, ControlStep
  <2>3. port'.step = "slot" => At(port.class, "held")' # {}
    BY <1>1, <2>1, SlotStaysTaken
  <2> QED
    BY <2>1, <2>2, <2>3 DEF BothSidesTyped, StagedAlone
<1>2. CASE UNCHANGED deliveryVars
  BY <1>2 DEF deliveryVars, gauges, BothSidesTyped, EventsTyped, At
<1> QED
  BY <1>1, <1>2

LEMMA TypedInit == DeliveryConstants /\ DeliveryInit => BothSidesTyped
<1> SUFFICES ASSUME DeliveryConstants, DeliveryInit PROVE BothSidesTyped
  OBVIOUS
<1>1. \A k \in Classes : events[k] = <<>> /\ Len(events[k]) = 0
  BY EmptySeq DEF DeliveryInit
<1>2. EventsTyped
  BY EmptySeq DEF DeliveryInit, EventsTyped
<1>3. port \in Ports /\ port.step = "idle"
  BY RestingPorts DEF DeliveryInit
<1>4. turn \in Classes /\ pending \in [Classes -> Nat] /\ mailPending \in Nat
  BY DEF DeliveryInit, Classes
<1>5. commit = Nobody /\ closed = FALSE /\ Nobody \notin Classes
  BY DEF DeliveryInit, DeliveryConstants, Classes
<1>6. \A k \in Classes : 1 .. Len(events[k]) = {}
  BY <1>1
<1> QED
  BY <1>1, <1>2, <1>3, <1>4, <1>5, <1>6 DEF BothSidesTyped

\* The same of the events of one store.
Stored(k, store) == Cardinality(At(k, store))

LEMMA StoredCounts ==
  /\ \A k \in Classes : \A s : Stored(k, s) = Count(k, {s}) /\ Stored(k, s)' = Count(k, {s})'
  /\ EventsTyped => \A k \in Classes : \A S : Count(k, S) \in Nat
  /\ EventsTyped' => \A k \in Classes : \A S : Count(k, S)' \in Nat
  /\ EventsTyped => \A k \in Classes : \A s : Stored(k, s) \in Nat
  /\ EventsTyped' => \A k \in Classes : \A s : Stored(k, s)' \in Nat
<1>1. \A k \in Classes : \A s : Stored(k, s) = Count(k, {s}) /\ Stored(k, s)' = Count(k, {s})'
  <2> SUFFICES ASSUME NEW k \in Classes, NEW s
               PROVE  Stored(k, s) = Count(k, {s}) /\ Stored(k, s)' = Count(k, {s})'
    OBVIOUS
  <2>1. At(k, s) = Places(events[k], {s}) /\ At(k, s)' = Places(events'[k], {s})
    BY DEF At, Places
  <2> QED
    BY <2>1 DEF Stored, Count
<1>2. EventsTyped => \A k \in Classes : \A S : Count(k, S) \in Nat
  BY CountsAreNat
<1>3. ASSUME EventsTyped', NEW k \in Classes, NEW S PROVE Count(k, S)' \in Nat
  <2>1. events'[k] \in Seq(Envelopes)
    BY <1>3 DEF EventsTyped
  <2>2. Cardinality(Places(events'[k], S)) \in Nat
    BY <2>1, NoPlaces
  <2> QED
    BY <2>2 DEF Count
<1>4. ASSUME NEW k \in Classes, NEW s
      PROVE  /\ EventsTyped => Stored(k, s) \in Nat
             /\ EventsTyped' => Stored(k, s)' \in Nat
  <2> DEFINE S == {s}
  <2>1. Stored(k, s) = Count(k, S) /\ Stored(k, s)' = Count(k, S)'
    BY <1>1
  <2> HIDE DEF S
  <2> QED
    BY <1>2, <1>3, <2>1
<1> QED
  BY <1>1, <1>2, <1>3, <1>4

LEMMA StoreMoves ==
  ASSUME BothSidesTyped, NEW j \in Classes, NEW s
  PROVE  /\ \A k \in Classes, f \in Finalities : Allocate(k, f) =>
              Stored(j, s)' = Stored(j, s) + (IF j = k /\ s = "sending" THEN 1 ELSE 0)
         /\ SendPrimary =>
              Stored(j, s)' = Stored(j, s) - (IF j = commit /\ s = "sending" THEN 1 ELSE 0)
                                           + (IF j = commit /\ s = "primary" THEN 1 ELSE 0)
         /\ PrimaryFull =>
              Stored(j, s)' = Stored(j, s) - (IF j = commit /\ s = "sending" THEN 1 ELSE 0)
                                           + (IF j = commit /\ s = "overflow" THEN 1 ELSE 0)
         /\ RetainTerminal =>
              Stored(j, s)' = Stored(j, s) - (IF j = commit /\ s = "overflow" THEN 1 ELSE 0)
                                           + (IF j = commit /\ s = "mailbox" THEN 1 ELSE 0)
         /\ DropEvent =>
              Stored(j, s)' = Stored(j, s) - (IF j = commit /\ s = "overflow" THEN 1 ELSE 0)
         /\ Fetch => \/ UNCHANGED events
                     \/ /\ At(port.class, "held") = {}
                        /\ Stored(j, s)' = Stored(j, s)
                             - (IF j = port.class /\ s = "primary" THEN 1 ELSE 0)
                             + (IF j = port.class /\ s = "held" THEN 1 ELSE 0)
         /\ TakeSlot =>
              Stored(j, s)' = Stored(j, s) - (IF j = port.class /\ s = "held" THEN 1 ELSE 0)
         /\ PopTerminal =>
              Stored(j, s)' = Stored(j, s) - (IF j = port.class /\ s = "mailbox" THEN 1 ELSE 0)
         /\ Quiet => Stored(j, s)' = Stored(j, s)
<1> DEFINE S == {s}
<1>1. \A t : t \in S <=> s = t
  OBVIOUS
<1>2. Stored(j, s) = Count(j, S) /\ Stored(j, s)' = Count(j, S)'
  BY StoredCounts
<1>3. Quiet => Stored(j, s)' = Stored(j, s)
  BY QuietSteps DEF Stored, At
<1> HIDE DEF S
<1> QED
  BY <1>1, <1>2, <1>3, Moves

\* The stores keep their bounds.
Retained == Stored("Control", "mailbox") + Stored("Observation", "mailbox")
Bounded ==
  /\ \A k \in Classes : Stored(k, "primary") <= PrimaryCapacity /\ Stored(k, "held") <= 1
  /\ Retained <= TerminalCapacity

LEMMA BoundedStep ==
  ASSUME DeliveryConstants, BothSidesTyped, BothSidesTyped', Bounded, DeliveryNext
  PROVE  Bounded'
<1>1. /\ PrimaryCapacity \in Nat \ {0} /\ TerminalCapacity \in Nat \ {0}
      /\ commit # Nobody => commit \in Classes
      /\ Nobody \notin Classes
      /\ "Control" \in Classes /\ "Observation" \in Classes
      /\ \A k \in Classes : k = "Control" \/ k = "Observation"
  BY DEF DeliveryConstants, BothSidesTyped, Classes
<1>2. /\ \A j \in Classes : \A s : Stored(j, s) \in Nat /\ Stored(j, s)' \in Nat
      /\ \A j \in Classes : \A s : Cardinality(At(j, s)) = Stored(j, s)
      /\ MailboxSize = Retained
  <2>1. \A j \in Classes : \A s : Stored(j, s) \in Nat /\ Stored(j, s)' \in Nat
    BY StoredCounts DEF BothSidesTyped
  <2> QED
    BY <2>1 DEF MailboxSize, Retained, Stored
<1>3. /\ \A j \in Classes : Stored(j, "primary") <= PrimaryCapacity /\ Stored(j, "held") <= 1
      /\ Stored("Control", "mailbox") + Stored("Observation", "mailbox") <= TerminalCapacity
  BY DEF Bounded, Retained
<1>5. ASSUME \A j \in Classes : /\ Stored(j, "primary")' <= Stored(j, "primary")
                                /\ Stored(j, "held")' <= Stored(j, "held")
                                /\ Stored(j, "mailbox")' <= Stored(j, "mailbox")
      PROVE  Bounded'
  BY <1>1, <1>2, <1>3, <1>5 DEF Bounded, Retained
<1>6. ASSUME NEW k \in Classes, NEW f \in Finalities, Allocate(k, f) PROVE Bounded'
  BY <1>2, <1>5, <1>6, StoreMoves
<1>7. ASSUME SendPrimary PROVE Bounded'
  <2>1. Stored(commit, "primary") < PrimaryCapacity
    BY <1>1, <1>2, <1>7 DEF SendPrimary, Sending
  <2>2. \A j \in Classes :
          /\ Stored(j, "primary")' = Stored(j, "primary") + (IF j = commit THEN 1 ELSE 0)
          /\ Stored(j, "held")' = Stored(j, "held") /\ Stored(j, "mailbox")' = Stored(j, "mailbox")
    BY <1>2, <1>7, StoreMoves
  <2> QED
    BY <1>1, <1>2, <1>3, <2>1, <2>2 DEF Bounded, Retained
<1>8. ASSUME RetainTerminal PROVE Bounded'
  <2>1. Retained < TerminalCapacity /\ commit \in Classes
    BY <1>1, <1>2, <1>8 DEF RetainTerminal, CanRetain, Overflowing
  <2>2. \A j \in Classes :
          /\ Stored(j, "mailbox")' = Stored(j, "mailbox") + (IF j = commit THEN 1 ELSE 0)
          /\ Stored(j, "held")' = Stored(j, "held") /\ Stored(j, "primary")' = Stored(j, "primary")
    BY <1>2, <1>8, StoreMoves
  <2>3. Retained' = Retained + 1
    BY <1>1, <1>2, <2>1, <2>2 DEF Retained, Classes
  <2> QED
    BY <1>1, <1>2, <1>3, <2>1, <2>2, <2>3 DEF Bounded, Retained
<1>9. ASSUME Fetch PROVE Bounded'
  <2>1. CASE UNCHANGED events
    <3>1. \A j \in Classes : \A s : Stored(j, s)' = Stored(j, s)
      BY <2>1 DEF Stored, At
    <3> QED
      BY <1>2, <1>5, <3>1
  <2>2. CASE ~UNCHANGED events
    <3>1. At(port.class, "held") = {} /\ port.class \in Classes
      BY <1>1, <1>9, <2>2, StoreMoves, ClassesAreTyped
    <3>2. Stored(port.class, "held") = 0
      BY <3>1, FS_EmptySet DEF Stored
    <3>3. \A j \in Classes :
            /\ Stored(j, "primary")' <= Stored(j, "primary")
            /\ Stored(j, "held")' = Stored(j, "held") + (IF j = port.class THEN 1 ELSE 0)
            /\ Stored(j, "mailbox")' = Stored(j, "mailbox")
      BY <1>2, <1>9, <2>2, StoreMoves
    <3> QED
      BY <1>1, <1>2, <1>3, <3>1, <3>2, <3>3 DEF Bounded, Retained
  <2> QED
    BY <2>1, <2>2
<1>10. ASSUME PrimaryFull \/ DropEvent \/ TakeSlot \/ PopTerminal \/ Quiet PROVE Bounded'
  BY <1>2, <1>5, <1>10, StoreMoves
<1> QED
  BY <1>6, <1>7, <1>8, <1>9, <1>10 DEF DeliveryNext, PublishStaged, TryRecv, Quiet

LEMMA BoundedInit == DeliveryConstants /\ DeliveryInit => Bounded
<1> SUFFICES ASSUME DeliveryConstants, DeliveryInit PROVE Bounded
  OBVIOUS
<1>1. \A k \in Classes : \A s : At(k, s) = {}
  BY EmptySeq DEF DeliveryInit, At
<1>2. \A k \in Classes : \A s : Stored(k, s) = 0
  BY <1>1, FS_EmptySet DEF Stored
<1> QED
  BY <1>2 DEF Bounded, Retained, DeliveryConstants, Classes

LEMMA BoundedStateStep ==
  DeliveryConstants /\ BothSidesTyped /\ Bounded /\ [DeliveryNext]_deliveryVars
    => BothSidesTyped' /\ Bounded'
<1> SUFFICES ASSUME DeliveryConstants, BothSidesTyped, Bounded, [DeliveryNext]_deliveryVars
             PROVE  BothSidesTyped' /\ Bounded'
  OBVIOUS
<1>1. BothSidesTyped'
  BY TypedStep
<1>2. CASE DeliveryNext
  BY <1>1, <1>2, BoundedStep
<1>3. CASE UNCHANGED deliveryVars
  BY <1>1, <1>3 DEF deliveryVars, Bounded, Retained, Stored, At
<1> QED
  BY <1>1, <1>2, <1>3

LEMMA BoundedState ==
  DeliverySpec => [](DeliveryConstants /\ BothSidesTyped /\ Bounded)
<1>1. DeliveryConstants
  BY DeliveryConstants
<1>2. DeliveryConstants /\ DeliveryInit => BothSidesTyped /\ Bounded
  BY TypedInit, BoundedInit
<1> QED
  BY <1>1, <1>2, BoundedStateStep, PTL DEF DeliverySpec

LEMMA BoundsAreTypes == BothSidesTyped /\ Bounded => DeliveryTypeOK
<1> SUFFICES ASSUME BothSidesTyped, Bounded PROVE DeliveryTypeOK
  OBVIOUS
<1>1. MailboxSize <= TerminalCapacity
  BY DEF MailboxSize, Bounded, Retained, Stored
<1>2. ASSUME NEW k \in Classes
      PROVE  /\ events[k] \in Seq([finality : Finalities,
                                   store : {"sending", "overflow", "primary", "held", "mailbox"}])
             /\ Cardinality(At(k, "primary")) <= PrimaryCapacity
             /\ Cardinality(At(k, "held")) <= 1
  BY <1>2 DEF BothSidesTyped, EventsTyped, Envelopes, Stores, Bounded, Stored
<1>3. ASSUME NEW k \in Classes
      PROVE  At(k, "sending") \cup At(k, "overflow") =
               IF commit = k THEN {Len(events[k])} ELSE {}
  <2>1. DOMAIN events[k] = 1 .. Len(events[k]) /\ Len(events[k]) \in Nat
    BY <1>3, CountsAreNat DEF BothSidesTyped
  <2>2. /\ commit = k => Len(events[k]) > 0
        /\ \A i \in 1 .. Len(events[k]) :
             events[k][i].store \in {"sending", "overflow"} <=> commit = k /\ i = Len(events[k])
    BY <1>3 DEF BothSidesTyped
  <2> QED
    BY <2>1, <2>2 DEF At
<1> QED
  BY <1>1, <1>2, <1>3 DEF DeliveryTypeOK, BothSidesTyped

\* The primary channel, the slot and the mailbox of event_queue.rs and
\* event_port.rs never hold more than they are made for, and an event is with
\* its publisher only while that publisher holds the commit lock.
THEOREM StoresKeepTheirBounds == DeliverySpec => []DeliveryTypeOK
  BY BoundsAreTypes, BoundedState, PTL

-----------------------------------------------------------------------------
(* The gauges.                                                             *)

Gauged == {"sending", "primary", "held"}
Gauges ==
  /\ \A k \in Classes :
       pending[k] = Count(k, Gauged)
                      + (IF port.step = "slotTaken" /\ port.class = k THEN 1 ELSE 0)
  /\ mailPending = Retained + (IF port.step = "mailTaken" THEN 1 ELSE 0)

LEMMA GaugesStep ==
  ASSUME DeliveryConstants, BothSidesTyped, BothSidesTyped', Gauges, DeliveryNext
  PROVE  Gauges'
<1>1. /\ \A k \in Classes : Count(k, Gauged) \in Nat /\ Count(k, Gauged)' \in Nat
      /\ \A k \in Classes : Stored(k, "mailbox") \in Nat /\ Stored(k, "mailbox")' \in Nat
      /\ "Control" \in Classes /\ "Observation" \in Classes
      /\ pending \in [Classes -> Nat] /\ mailPending \in Nat
  BY StoredCounts DEF BothSidesTyped, Classes
<1>2. /\ \A k \in Classes : pending[k] = Count(k, Gauged)
           + (IF port.step = "slotTaken" /\ port.class = k THEN 1 ELSE 0)
      /\ mailPending = Retained + (IF port.step = "mailTaken" THEN 1 ELSE 0)
      /\ Retained = Stored("Control", "mailbox") + Stored("Observation", "mailbox")
      /\ Retained' = Stored("Control", "mailbox")' + Stored("Observation", "mailbox")'
      /\ Retained \in Nat
  BY <1>1 DEF Gauges, Retained
<1>3. "sending" \in Gauged /\ "primary" \in Gauged /\ "held" \in Gauged
      /\ "overflow" \notin Gauged /\ "mailbox" \notin Gauged
  BY DEF Gauged
<1>4. \A n \in Nat : n > 0 => Minus1(n) = n - 1
  BY DEF Minus1
<1>5. UNCHANGED events => Retained' = Retained /\ \A k \in Classes : Count(k, Gauged)' = Count(k, Gauged)
  BY DEF Retained, Stored, At, Count, Gauged
<1>6. ASSUME NEW k \in Classes, NEW f \in Finalities, Allocate(k, f) PROVE Gauges'
  <2>1. \A j \in Classes : Count(j, Gauged)' = Count(j, Gauged) + (IF j = k THEN 1 ELSE 0)
    BY <1>1, <1>3, <1>6, Moves
  <2>2. Retained' = Retained
    BY <1>1, <1>2, <1>6, StoreMoves
  <2>3. /\ \A j \in Classes : pending'[j] = pending[j] + (IF j = k THEN 1 ELSE 0)
        /\ UNCHANGED <<port, mailPending>>
    <3>1. pending' = [pending EXCEPT ![k] = @ + 1] /\ UNCHANGED <<port, mailPending>>
      BY <1>6 DEF Allocate
    <3> QED
      BY <1>1, <3>1
  <2> QED
    BY <1>1, <1>2, <2>1, <2>2, <2>3 DEF Gauges
<1>7. ASSUME SendPrimary PROVE Gauges'
  <2>1. \A j \in Classes : Count(j, Gauged)' = Count(j, Gauged)
    BY <1>1, <1>3, <1>7, Moves
  <2>2. Retained' = Retained
    BY <1>1, <1>2, <1>7, StoreMoves
  <2>3. UNCHANGED <<pending, port, mailPending>>
    BY <1>7 DEF SendPrimary, gauges
  <2> QED
    BY <1>1, <1>2, <2>1, <2>2, <2>3 DEF Gauges
<1>8. ASSUME PrimaryFull PROVE Gauges'
  <2>0. commit \in Classes
    BY <1>8, StagedIsLast DEF PrimaryFull, Sending
  <2>1. \A j \in Classes :
          Count(j, Gauged)' = Count(j, Gauged) - (IF j = commit THEN 1 ELSE 0)
    BY <1>1, <1>3, <1>8, Moves
  <2>2. Retained' = Retained
    BY <1>1, <1>2, <1>8, StoreMoves
  <2>3. pending[commit] > 0
    <3>1. PICK c \in Classes : c = commit
      BY <2>0
    <3>2. Count(c, Gauged)' = Count(c, Gauged) - 1
      BY <2>1, <3>1
    <3> QED
      BY <1>1, <1>2, <3>1, <3>2
  <2>4. /\ \A j \in Classes : pending'[j] = pending[j] - (IF j = commit THEN 1 ELSE 0)
        /\ UNCHANGED <<port, mailPending>>
    BY <1>1, <1>4, <1>8, <2>0, <2>3 DEF PrimaryFull
  <2> QED
    BY <1>1, <1>2, <2>1, <2>2, <2>4 DEF Gauges
<1>9. ASSUME RetainTerminal PROVE Gauges'
  <2>1. \A j \in Classes : Count(j, Gauged)' = Count(j, Gauged)
    BY <1>1, <1>3, <1>9, Moves
  <2>2. \A j \in Classes : Stored(j, "mailbox")' =
                             Stored(j, "mailbox") + (IF j = commit THEN 1 ELSE 0)
    BY <1>1, <1>9, StoreMoves
  <2>3. commit = "Control" \/ commit = "Observation"
    BY <1>9, StagedIsLast DEF RetainTerminal, Overflowing, Classes
  <2>4. Retained' = Retained + 1
    BY <1>1, <1>2, <2>2, <2>3
  <2>5. UNCHANGED <<pending, port>> /\ mailPending' = mailPending + 1
    BY <1>9 DEF RetainTerminal
  <2> QED
    BY <1>1, <1>2, <2>1, <2>4, <2>5 DEF Gauges
<1>10. ASSUME DropEvent PROVE Gauges'
  <2>1. \A j \in Classes : Count(j, Gauged)' = Count(j, Gauged)
    BY <1>1, <1>3, <1>10, Moves
  <2>2. Retained' = Retained
    BY <1>1, <1>2, <1>10, StoreMoves
  <2>3. UNCHANGED <<pending, port, mailPending>>
    BY <1>10 DEF DropEvent, gauges
  <2> QED
    BY <1>1, <1>2, <2>1, <2>2, <2>3 DEF Gauges
<1>11. ASSUME Fetch PROVE Gauges'
  <2>1. \A j \in Classes : Count(j, Gauged)' = Count(j, Gauged)
    BY <1>1, <1>3, <1>5, <1>11, Moves
  <2>2. Retained' = Retained
    BY <1>1, <1>2, <1>5, <1>11, StoreMoves
  <2>3. UNCHANGED <<pending, mailPending>> /\ port.step = "fetch" /\ port'.step = "compare"
    BY <1>11, PortMoves DEF Fetch, gauges
  <2> QED
    BY <1>1, <1>2, <2>1, <2>2, <2>3 DEF Gauges
<1>12. ASSUME TakeSlot PROVE Gauges'
  <2>1. \A j \in Classes :
          Count(j, Gauged)' = Count(j, Gauged) - (IF j = port.class THEN 1 ELSE 0)
    BY <1>1, <1>3, <1>12, Moves
  <2>2. Retained' = Retained
    BY <1>1, <1>2, <1>12, StoreMoves
  <2>3. /\ UNCHANGED <<pending, mailPending>> /\ port.step = "slot" /\ port'.step = "slotTaken"
        /\ port'.class = port.class
    BY <1>12, PortMoves DEF TakeSlot, gauges, Taking
  <2> QED
    BY <1>1, <1>2, <2>1, <2>2, <2>3 DEF Gauges
<1>13. ASSUME PopTerminal PROVE Gauges'
  <2>1. \A j \in Classes : Count(j, Gauged)' = Count(j, Gauged)
    BY <1>1, <1>3, <1>13, Moves
  <2>2. \A j \in Classes : Stored(j, "mailbox")' =
                             Stored(j, "mailbox") - (IF j = port.class THEN 1 ELSE 0)
    BY <1>1, <1>13, StoreMoves
  <2>3. port.class = "Control" \/ port.class = "Observation"
    BY ClassesAreTyped DEF Classes
  <2>4. Retained' = Retained - 1
    BY <1>1, <1>2, <2>2, <2>3
  <2>5. /\ UNCHANGED <<pending, mailPending>> /\ port.step = "mailbox" /\ port'.step = "mailTaken"
    BY <1>13, PortMoves DEF PopTerminal, gauges
  <2> QED
    BY <1>1, <1>2, <2>1, <2>4, <2>5 DEF Gauges
<1>14. ASSUME Deliver PROVE Gauges'
  <2>1. /\ UNCHANGED events /\ port' = Resting /\ port'.step = "idle" /\ port.class \in Classes
        /\ Retained' = Retained /\ \A k \in Classes : Count(k, Gauged)' = Count(k, Gauged)
    BY <1>5, <1>14, RestingPorts, ClassesAreTyped DEF Deliver
  <2>2. CASE port.step = "slotTaken"
    <3>1. pending[port.class] > 0
      BY <1>1, <1>2, <2>1, <2>2
    <3>2. /\ \A j \in Classes : pending'[j] = pending[j] - (IF j = port.class THEN 1 ELSE 0)
          /\ UNCHANGED mailPending
      BY <1>1, <1>4, <1>14, <2>1, <2>2, <3>1 DEF Deliver
    <3> QED
      BY <1>1, <1>2, <2>1, <2>2, <3>2 DEF Gauges
  <2>3. CASE port.step = "mailTaken"
    <3>1. mailPending' = mailPending - 1 /\ UNCHANGED pending
      BY <1>1, <1>2, <1>4, <1>14, <2>3 DEF Deliver
    <3> QED
      BY <1>1, <1>2, <2>1, <2>3, <3>1 DEF Gauges
  <2> QED
    BY <1>14, <2>2, <2>3 DEF Deliver
<1>15. ASSUME Close PROVE Gauges'
  <2>1. UNCHANGED <<events, pending, port, mailPending>>
    BY <1>15 DEF Close, gauges
  <2> QED
    BY <1>1, <1>2, <1>5, <2>1 DEF Gauges
<1>16. ASSUME BeginReceive \/ Compare \/ TrySecond \/ GiveUp PROVE Gauges'
  <2>1. UNCHANGED <<events, pending, mailPending>>
    BY <1>16 DEF BeginReceive, Compare, TrySecond, GiveUp, gauges
  <2>2. /\ port.step \in {"idle", "stopped", "compare", "mailbox"}
        /\ port'.step \in {"idle", "stopped", "fetch", "slot", "mailbox"}
    BY <1>16, PortMoves, RestingPorts
  <2> QED
    BY <1>1, <1>2, <1>5, <2>1, <2>2 DEF Gauges
<1> QED
  BY <1>6, <1>7, <1>8, <1>9, <1>10, <1>11, <1>12, <1>13, <1>14, <1>15, <1>16
     DEF DeliveryNext, PublishStaged, TryRecv

\* primary_pushed, primary_popped and the two mailbox counters of
\* event_queue.rs are updated next to the stores, never with them, and still
\* the pressure that is shown is exact whenever neither side is in between.
THEOREM TheGaugesAreExact == DeliverySpec => []PressureIsExact
<1>1. DeliveryConstants /\ BothSidesTyped /\ Bounded => (DeliveryInit => Gauges)
  <2> SUFFICES ASSUME DeliveryConstants, BothSidesTyped, Bounded, DeliveryInit PROVE Gauges
    OBVIOUS
  <2>1. \A k \in Classes : events[k] = <<>> /\ DOMAIN events[k] = {}
    BY EmptySeq DEF DeliveryInit
  <2>2. \A k \in Classes : \A s : At(k, s) = {} /\ Places(events[k], Gauged) = {}
    BY <2>1 DEF At, Places
  <2>3. \A k \in Classes : Count(k, Gauged) = 0 /\ Stored(k, "mailbox") = 0
    BY <2>2, FS_EmptySet DEF Count, Stored
  <2>4. port.step = "idle"
    BY RestingPorts DEF DeliveryInit
  <2> QED
    BY <2>3, <2>4 DEF Gauges, DeliveryInit, Retained, Classes
<1>2. DeliveryConstants /\ BothSidesTyped /\ BothSidesTyped' /\ Gauges
        /\ [DeliveryNext]_deliveryVars => Gauges'
  <2>1. ASSUME Gauges, UNCHANGED deliveryVars
        PROVE  Gauges'
    BY <2>1 DEF deliveryVars, gauges, Gauges, Retained, Stored, At, Count, Gauged
  <2> QED
    BY <2>1, GaugesStep
<1>3. BothSidesTyped /\ Gauges => PressureIsExact
  <2> SUFFICES ASSUME BothSidesTyped, Gauges PROVE PressureIsExact
    OBVIOUS
  <2>1. \A k \in Classes : At(k, "sending") \cup At(k, "primary") \cup At(k, "held")
                             = Places(events[k], Gauged)
    BY DEF At, Places, Gauged
  <2> QED
    BY <2>1 DEF Gauges, PressureIsExact, Count, MailboxSize, Retained, Stored
<1> QED
  BY <1>1, <1>2, <1>3, BoundedState, PTL DEF DeliverySpec

-----------------------------------------------------------------------------
(* The end of the stream.                                                  *)

\* A partition the port has found disconnected stays empty: once the runtime
\* has stopped nobody publishes, and what is left only shrinks.
Disconnected ==
  /\ closed => commit = Nobody
  /\ \A k \in port.gone : /\ closed
                          /\ Stored(k, "held") = 0 /\ Stored(k, "primary") = 0
  /\ port = Stopped => closed /\ \A k \in Classes : events[k] = <<>>

LEMMA NothingLeft ==
  ASSUME DeliveryConstants, BothSidesTyped, commit = Nobody, NEW k \in Classes,
         Stored(k, "held") = 0, Stored(k, "primary") = 0, Stored(k, "mailbox") = 0
  PROVE  events[k] = <<>>
<1>1. /\ events[k] \in Seq(Envelopes) /\ DOMAIN events[k] = 1 .. Len(events[k])
      /\ Len(events[k]) \in Nat /\ Nobody \notin Classes
      /\ \A i \in 1 .. Len(events[k]) : events[k][i] \in Envelopes
  BY CountsAreNat DEF BothSidesTyped, EventsTyped, DeliveryConstants, Classes
<1>2. \A s \in {"held", "primary", "mailbox"} : At(k, s) = {}
  <2>1. \A s : At(k, s) = Places(events[k], {s})
    BY CountsAreNat DEF BothSidesTyped
  <2>2. ASSUME NEW s PROVE IsFiniteSet(At(k, s))
    <3>1. IsFiniteSet(Places(events[k], {s}))
      BY <1>1, PlacesAreFinite
    <3> QED
      BY <2>1, <3>1
  <2> QED
    BY <2>2, FS_EmptySet DEF Stored
<1>3. \A i \in 1 .. Len(events[k]) : events[k][i].store \notin {"held", "primary", "mailbox"}
  BY <1>1, <1>2 DEF At
<1>4. \A i \in 1 .. Len(events[k]) : events[k][i].store \notin {"sending", "overflow"}
  BY <1>1 DEF BothSidesTyped
<1>5. 1 .. Len(events[k]) = {}
  BY <1>1, <1>3, <1>4 DEF Envelopes, Stores
<1>6. Len(events[k]) = 0
  <2>1. \A n \in Nat : 1 .. n = {} => n = 0
    OBVIOUS
  <2> QED
    BY <1>1, <1>5, <2>1
<1> QED
  BY <1>1, <1>6, EmptySeq

LEMMA DisconnectedStep ==
  ASSUME DeliveryConstants, BothSidesTyped, BothSidesTyped', Disconnected, DeliveryNext
  PROVE  Disconnected'
<1>1. /\ \A k \in Classes : \A s : Stored(k, s) \in Nat /\ Stored(k, s)' \in Nat
      /\ port.class \in Classes /\ port.gone \subseteq Classes
      /\ Nobody \notin Classes
  BY StoredCounts, ClassesAreTyped DEF BothSidesTyped, DeliveryConstants, Classes
<1>2. ASSUME NEW k \in Classes, closed, TryRecv
      PROVE  Stored(k, "primary") = 0 /\ Stored(k, "held") = 0 =>
               Stored(k, "primary")' = 0 /\ Stored(k, "held")' = 0
  <2>1. Fetch => \/ UNCHANGED events
                 \/ Stored(k, "primary")' = Stored(k, "primary") - 1
                 \/ Stored(k, "primary")' = Stored(k, "primary") /\ Stored(k, "held")' = Stored(k, "held")
    BY <1>1, <1>2, StoreMoves
  <2>2. UNCHANGED events => /\ Stored(k, "primary")' = Stored(k, "primary")
                            /\ Stored(k, "held")' = Stored(k, "held")
    BY DEF Stored, At
  <2>3. ~Fetch => Stored(k, "primary")' <= Stored(k, "primary")
                  /\ Stored(k, "held")' <= Stored(k, "held")
    BY <1>1, <1>2, StoreMoves DEF TryRecv, Quiet
  <2> QED
    BY <1>1, <1>2, <2>1, <2>2, <2>3
<1>3. ASSUME NEW k \in Classes, NEW f \in Finalities, Allocate(k, f) PROVE Disconnected'
  <2>1. ~closed /\ ~closed' /\ UNCHANGED port
    BY <1>3 DEF Allocate
  <2> QED
    BY <2>1 DEF Disconnected
<1>4. ASSUME PublishStaged PROVE Disconnected'
  <2>1. commit # Nobody /\ UNCHANGED <<port, closed>>
    BY <1>4, PublisherEffects
       DEF PublishStaged, SendPrimary, PrimaryFull, RetainTerminal, DropEvent
  <2>2. ~closed /\ ~closed'
    BY <2>1 DEF Disconnected
  <2> QED
    BY <2>1, <2>2 DEF Disconnected
<1>5. ASSUME Close PROVE Disconnected'
  BY <1>5 DEF Close, Disconnected
<1>6. ASSUME TryRecv PROVE Disconnected'
  <2>1. UNCHANGED <<commit, closed>>
    BY <1>6 DEF TryRecv, BeginReceive, Fetch, Compare, TakeSlot, PopTerminal, Deliver,
                TrySecond, GiveUp
  <2>2. /\ port'.gone \subseteq port.gone \cup {port.class}
        /\ port.class \in port'.gone \ port.gone =>
             closed /\ Stored(port.class, "held") = 0 /\ Stored(port.class, "primary") = 0
    BY <1>6, PortMoves, RestingPorts, FS_EmptySet DEF TryRecv, Taking, Stored
  <2>3. \A k \in port'.gone : /\ k \in Classes /\ closed
                              /\ Stored(k, "held") = 0 /\ Stored(k, "primary") = 0
    BY <1>1, <2>2 DEF Disconnected
  <2>4. \A k \in port'.gone : /\ closed'
                              /\ Stored(k, "held")' = 0 /\ Stored(k, "primary")' = 0
    BY <1>2, <1>6, <2>1, <2>3
  <2>5. ASSUME port' = Stopped
        PROVE  closed' /\ \A k \in Classes : events'[k] = <<>>
    <3>1. GiveUp /\ port.gone = Classes /\ MailboxSize = 0
      BY <1>6, <2>5, PortMoves, RestingPorts DEF TryRecv, Taking
    <3>2. /\ closed /\ commit = Nobody
          /\ \A k \in Classes : Stored(k, "held") = 0 /\ Stored(k, "primary") = 0
      BY <3>1 DEF Disconnected, Classes
    <3>3. \A k \in Classes : Stored(k, "mailbox") = 0
      BY <1>1, <3>1 DEF MailboxSize, Stored, Classes
    <3>4. \A k \in Classes : events[k] = <<>>
      BY <3>2, <3>3, NothingLeft
    <3>5. UNCHANGED events
      BY <3>1 DEF GiveUp
    <3> QED
      BY <2>1, <3>2, <3>4, <3>5
  <2> QED
    BY <2>1, <2>4, <2>5 DEF Disconnected
<1> QED
  BY <1>3, <1>4, <1>5, <1>6 DEF DeliveryNext

\* FairEventPort::try_recv answers RuntimeStopped only when both senders are
\* gone and everything they left behind has been handed out.
THEOREM StopComesLast == DeliverySpec => []StoppedOnlyWhenDrained
<1>1. DeliveryInit => Disconnected
  BY RestingPorts DEF DeliveryInit, Disconnected
<1>2. DeliveryConstants /\ BothSidesTyped /\ BothSidesTyped' /\ Disconnected
        /\ [DeliveryNext]_deliveryVars => Disconnected'
  <2>1. ASSUME Disconnected, UNCHANGED deliveryVars
        PROVE  Disconnected'
    BY <2>1 DEF deliveryVars, gauges, Disconnected, Stored, At
  <2> QED
    BY <2>1, DisconnectedStep
<1>3. Disconnected => StoppedOnlyWhenDrained
  BY DEF Disconnected, StoppedOnlyWhenDrained
<1> QED
  BY <1>1, <1>2, <1>3, BoundedState, PTL DEF DeliverySpec

-----------------------------------------------------------------------------
(* The order of deliveries.                                                *)

Out == {"primary", "held", "mailbox"}   \* the stores of a published event

\* A publisher never touches an event that is already out, and what it adds
\* is newer than all of them.
LEMMA PublisherKeeps ==
  ASSUME DeliveryConstants, BothSidesTyped, NEW k \in Classes,
         (\E c \in Classes, f \in Finalities : Allocate(c, f)) \/ PublishStaged
  PROVE  /\ \A i \in 1 .. Len(events[k]) : events[k][i].store \in Out =>
              i \in 1 .. Len(events'[k]) /\ events'[k][i] = events[k][i]
         /\ \A i \in 1 .. Len(events'[k]) : events'[k][i].store \in Out =>
              \/ i \in 1 .. Len(events[k]) /\ events'[k][i] = events[k][i]
              \/ /\ events'[k][i].store # "held"
                 /\ \A j \in 1 .. Len(events[k]) : events[k][j].store \in Out => j < i
<1>1. /\ EventsTyped /\ Len(events[k]) \in Nat /\ Nobody \notin Classes
      /\ \A i \in 1 .. Len(events[k]) : events[k][i] \in Envelopes
      /\ \A i \in 1 .. Len(events[k]) :
           events[k][i].store \in Out => ~(commit = k /\ i = Len(events[k]))
  BY CountsAreNat DEF BothSidesTyped, DeliveryConstants, Classes, Out
<1>2. ASSUME NEW c \in Classes, NEW f \in Finalities, Allocate(c, f)
      PROVE  /\ \A i \in 1 .. Len(events[k]) :
                  i \in 1 .. Len(events'[k]) /\ events'[k][i] = events[k][i]
             /\ \A i \in 1 .. Len(events'[k]) : events'[k][i].store \in Out =>
                  i \in 1 .. Len(events[k])
  <2> DEFINE e == Event(f, "sending")
  <2>1. Appends(c, e) /\ e \in Envelopes /\ e.store \notin Out
    BY <1>2, EventValues DEF Allocate, Appends, Stores, Out
  <2> HIDE DEF e
  <2>2. /\ Len(events'[c]) = Len(events[c]) + 1
        /\ \A i \in 1 .. Len(events[c]) : events'[c][i] = events[c][i]
        /\ events'[c][Len(events[c]) + 1] = e
        /\ \A j \in Classes : j # c => events'[j] = events[j]
    BY <1>1, <2>1, AppendEffect
  <2>3. CASE k = c
    BY <1>1, <2>1, <2>2, <2>3
  <2>4. CASE k # c
    BY <2>2, <2>4
  <2> QED
    BY <2>3, <2>4
<1>3. ASSUME NEW s \in Stores \ {"held"}, commit # Nobody,
             Restores(commit, Len(events[commit]), s)
      PROVE  /\ \A i \in 1 .. Len(events[k]) : ~(commit = k /\ i = Len(events[k])) =>
                  i \in 1 .. Len(events'[k]) /\ events'[k][i] = events[k][i]
             /\ \A i \in 1 .. Len(events'[k]) :
                  \/ i \in 1 .. Len(events[k]) /\ events'[k][i] = events[k][i]
                  \/ /\ events'[k][i].store # "held"
                     /\ commit = k /\ i = Len(events[k])
  <2>1. commit \in Classes /\ Len(events[commit]) \in 1 .. Len(events[commit])
    BY <1>3, StagedIsLast
  <2>2. /\ EventsTyped'
        /\ Len(events'[commit]) = Len(events[commit])
        /\ \A j \in 1 .. Len(events[commit]) :
             /\ events'[commit][j].finality = events[commit][j].finality
             /\ events'[commit][j].store = IF j = Len(events[commit]) THEN s
                                           ELSE events[commit][j].store
        /\ \A j \in Classes : j # commit => events'[j] = events[j]
    BY <1>1, <1>3, <2>1, RestoreEffect
  <2>3. CASE k = commit
    <3>1. \A i \in 1 .. Len(events[k]) : events'[k][i] \in Envelopes
      <4>1. events'[k] \in Seq(Envelopes)
        BY <2>2 DEF EventsTyped
      <4> QED
        BY <2>2, <2>3, <4>1, ElementOfSeq
    <3>2. \A i \in 1 .. Len(events[k]) : i # Len(events[k]) => events'[k][i] = events[k][i]
      BY <1>1, <2>2, <2>3, <3>1 DEF Envelopes
    <3> QED
      BY <1>1, <2>1, <2>2, <2>3, <3>2
  <2>4. CASE k # commit
    BY <2>1, <2>2, <2>4
  <2> QED
    BY <2>3, <2>4
<1>4. ASSUME SendPrimary \/ PrimaryFull \/ RetainTerminal
      PROVE  \E s \in Stores \ {"held"} : commit # Nobody /\ Restores(commit, Len(events[commit]), s)
  <2>1. "primary" \in Stores \ {"held"} /\ "overflow" \in Stores \ {"held"}
        /\ "mailbox" \in Stores \ {"held"}
    BY DEF Stores
  <2> QED
    BY <1>4, <2>1, PublisherEffects
<1>5. ASSUME DropEvent
      PROVE  /\ \A i \in 1 .. Len(events[k]) : ~(commit = k /\ i = Len(events[k])) =>
                  i \in 1 .. Len(events'[k]) /\ events'[k][i] = events[k][i]
             /\ \A i \in 1 .. Len(events'[k]) :
                  i \in 1 .. Len(events[k]) /\ events'[k][i] = events[k][i]
  <2>1. /\ commit \in Classes /\ Len(events[commit]) \in 1 .. Len(events[commit])
        /\ Removes(commit, Len(events[commit]))
    BY <1>5, StagedIsLast, PublisherEffects
  <2>2. /\ Len(events'[commit]) = Len(events[commit]) - 1
        /\ \A j \in 1 .. Len(events[commit]) - 1 : events'[commit][j] =
             IF j < Len(events[commit]) THEN events[commit][j] ELSE events[commit][j + 1]
        /\ \A j \in Classes : j # commit => events'[j] = events[j]
    BY <1>1, <2>1, RemoveEffect
  <2>3. CASE k = commit
    <3>1. \A i \in 1 .. Len(events[k]) - 1 : i \in 1 .. Len(events[k]) /\ i < Len(events[k])
      BY <1>1
    <3>2. \A i \in 1 .. Len(events[k]) : i # Len(events[k]) => i \in 1 .. Len(events[k]) - 1
      BY <1>1
    <3> QED
      BY <2>2, <2>3, <3>1, <3>2
  <2>4. CASE k # commit
    BY <2>1, <2>2, <2>4
  <2> QED
    BY <2>3, <2>4
<1>6. \A i \in 1 .. Len(events[k]) : i = Len(events[k]) /\ commit = k =>
        \A j \in 1 .. Len(events[k]) : events[k][j].store \in Out => j < i
  BY <1>1
<1>7. CASE \E c \in Classes, f \in Finalities : Allocate(c, f)
  BY <1>2, <1>7
<1>8. CASE SendPrimary \/ PrimaryFull \/ RetainTerminal
  <2>1. PICK s \in Stores \ {"held"} : commit # Nobody /\ Restores(commit, Len(events[commit]), s)
    BY <1>4, <1>8
  <2>2. /\ \A i \in 1 .. Len(events[k]) : ~(commit = k /\ i = Len(events[k])) =>
             i \in 1 .. Len(events'[k]) /\ events'[k][i] = events[k][i]
        /\ \A i \in 1 .. Len(events'[k]) :
             \/ i \in 1 .. Len(events[k]) /\ events'[k][i] = events[k][i]
             \/ events'[k][i].store # "held" /\ commit = k /\ i = Len(events[k])
    BY <1>3, <2>1
  <2> QED
    BY <1>1, <1>6, <2>2
<1>9. CASE DropEvent
  BY <1>1, <1>5, <1>9
<1> QED
  BY <1>7, <1>8, <1>9 DEF PublishStaged

\* An event that is received goes to the slot before any other leaves the
\* channel, and the port knows in which store the oldest event it has seen is.
SlotIsOldest ==
  \A k \in Classes : \A i, j \in 1 .. Len(events[k]) :
    events[k][i].store = "held" /\ events[k][j].store = "primary" => i < j
FrontIs(k, stores) == Len(events[k]) > 0 /\ events[k][1].store \in stores
FrontIsKnown ==
  port.known > 0 =>
    /\ port.step = "compare" => FrontIs(port.class, {"held", "mailbox"})
    /\ port.step = "slot" => FrontIs(port.class, {"held"})
    /\ port.step = "mailbox" => FrontIs(port.class, {"mailbox"})

LEMMA SlotIsOldestStep ==
  ASSUME DeliveryConstants, BothSidesTyped, BothSidesTyped', SlotIsOldest, DeliveryNext
  PROVE  SlotIsOldest'
<1>1. EventsTyped /\ \A k \in Classes : Len(events[k]) \in Nat /\ DOMAIN events[k] = 1 .. Len(events[k])
  BY CountsAreNat DEF BothSidesTyped
<1> SUFFICES ASSUME NEW k \in Classes,
                    NEW i \in 1 .. Len(events'[k]), NEW j \in 1 .. Len(events'[k]),
                    events'[k][i].store = "held", events'[k][j].store = "primary"
             PROVE  i < j
  BY DEF SlotIsOldest
<1>2. i \in Nat /\ j \in Nat
  <2>1. Len(events'[k]) \in Nat
    BY LenProperties DEF BothSidesTyped, EventsTyped
  <2> QED
    BY <2>1
<1>3. CASE (\E c \in Classes, f \in Finalities : Allocate(c, f)) \/ PublishStaged
  <2>1. i \in 1 .. Len(events[k]) /\ events'[k][i] = events[k][i]
    BY <1>3, PublisherKeeps DEF Out
  <2>2. \/ j \in 1 .. Len(events[k]) /\ events'[k][j] = events[k][j]
        \/ \A m \in 1 .. Len(events[k]) : events[k][m].store \in Out => m < j
    BY <1>3, PublisherKeeps DEF Out
  <2> QED
    BY <2>1, <2>2 DEF SlotIsOldest, Out
<1>4. CASE Fetch /\ ~UNCHANGED events
  <2> DEFINE c == port.class
             o == Oldest(c, "primary")
  <2>1. /\ Restores(c, o, "held") /\ o \in 1 .. Len(events[c]) /\ c \in Classes
        /\ events[c][o].store = "primary" /\ At(c, "held") = {}
    BY <1>4, FetchEffect, ClassesAreTyped
  <2>2. \A m \in At(c, "primary") : o <= m
    BY <1>1, <2>1, OldestIsThere DEF At
  <2> HIDE DEF c, o
  <2>3. /\ Len(events'[c]) = Len(events[c])
        /\ \A m \in 1 .. Len(events[c]) :
             events'[c][m].store = IF m = o THEN "held" ELSE events[c][m].store
        /\ \A m \in Classes : m # c => events'[m] = events[m]
    BY <1>1, <2>1, RestoreEffect DEF Stores
  <2>4. CASE k = c
    <3>1. i = o
      BY <1>1, <2>1, <2>3, <2>4 DEF At
    <3>2. j \in At(c, "primary") /\ j # o
      BY <1>1, <2>1, <2>3, <2>4 DEF At
    <3> QED
      BY <1>2, <2>2, <3>1, <3>2
  <2>5. CASE k # c
    BY <2>3, <2>5 DEF SlotIsOldest
  <2> QED
    BY <2>4, <2>5
<1>5. CASE Taking
  <2> DEFINE c == port.class
             p == Position
  <2>1. Removes(c, p) /\ p \in 1 .. Len(events[c]) /\ c \in Classes
    BY <1>5, TakeEffect, ClassesAreTyped
  <2> HIDE DEF c, p
  <2>2. /\ Len(events'[c]) = Len(events[c]) - 1
        /\ \A m \in 1 .. Len(events[c]) - 1 :
             events'[c][m] = IF m < p THEN events[c][m] ELSE events[c][m + 1]
        /\ \A m \in Classes : m # c => events'[m] = events[m]
    BY <1>1, <2>1, RemoveEffect
  <2>3. CASE k = c
    <3> DEFINE old(m) == IF m < p THEN m ELSE m + 1
    <3>1. \A m \in 1 .. Len(events'[k]) :
            old(m) \in 1 .. Len(events[k]) /\ events'[k][m] = events[k][old(m)]
      BY <1>1, <2>1, <2>2, <2>3
    <3>2. old(i) < old(j)
      BY <3>1 DEF SlotIsOldest
    <3>3. p \in Nat
      BY <1>1, <2>1
    <3> QED
      BY <1>2, <3>2, <3>3
  <2>4. CASE k # c
    BY <2>2, <2>4 DEF SlotIsOldest
  <2> QED
    BY <2>3, <2>4
<1>6. CASE UNCHANGED events
  BY <1>6 DEF SlotIsOldest
<1> QED
  BY <1>3, <1>4, <1>5, <1>6, QuietSteps DEF DeliveryNext, TryRecv, Taking, Quiet

\* When the channel of a class is read and something of the class is out, the
\* oldest event is in the slot or in the mailbox afterwards.
LEMMA FetchFindsTheFront ==
  ASSUME DeliveryConstants, BothSidesTyped, SlotIsOldest, Fetch,
         Cardinality(Published(port.class)) > 0, NEW c \in Classes, c = port.class
  PROVE  Len(events'[c]) > 0 /\ events'[c][1].store \in {"held", "mailbox"}
<1>1. /\ EventsTyped /\ Len(events[c]) \in Nat /\ DOMAIN events[c] = 1 .. Len(events[c])
      /\ \A i \in 1 .. Len(events[c]) : events[c][i] \in Envelopes
  BY CountsAreNat DEF BothSidesTyped
<1>2. Published(c) # {}
  <2>1. Cardinality({}) = 0
    BY FS_EmptySet
  <2> QED
    BY <2>1
<1>3. PICK i \in 1 .. Len(events[c]) : events[c][i].store \in Out
  BY <1>1, <1>2 DEF Published, Out
<1>4. 1 \in 1 .. Len(events[c]) /\ events[c][1].store \in Out
  <2>1. 1 \in 1 .. Len(events[c]) /\ (1 = Len(events[c]) => i = 1)
    BY <1>1, <1>3
  <2>2. events[c][1].store \in {"sending", "overflow"} => 1 = Len(events[c])
    BY <2>1 DEF BothSidesTyped
  <2>3. events[c][1].store \in Stores
    BY <1>1, <2>1 DEF Envelopes
  <2> QED
    BY <1>3, <2>1, <2>2, <2>3 DEF Stores, Out
<1>5. CASE UNCHANGED events /\ (At(c, "held") # {} \/ At(c, "primary") = {})
  <2>1. ASSUME events[c][1].store = "primary" PROVE FALSE
    <3>1. At(c, "primary") # {}
      BY <1>1, <1>4, <2>1 DEF At
    <3>2. PICK h \in 1 .. Len(events[c]) : events[c][h].store = "held"
      BY <1>1, <1>5, <3>1 DEF At
    <3>3. h < 1
      BY <1>4, <2>1, <3>2 DEF SlotIsOldest
    <3> QED
      BY <1>1, <3>3
  <2> QED
    BY <1>1, <1>4, <1>5, <2>1 DEF Out
<1>6. CASE /\ Restores(c, Oldest(c, "primary"), "held")
           /\ Oldest(c, "primary") \in 1 .. Len(events[c])
           /\ events[c][Oldest(c, "primary")].store = "primary"
  <2> DEFINE o == Oldest(c, "primary")
  <2>1. /\ Len(events'[c]) = Len(events[c])
        /\ \A m \in 1 .. Len(events[c]) :
             events'[c][m].store = IF m = o THEN "held" ELSE events[c][m].store
    BY <1>1, <1>6, RestoreEffect DEF Stores
  <2>2. ASSUME events[c][1].store = "primary" PROVE o = 1
    <3>1. 1 \in At(c, "primary")
      BY <1>1, <1>4, <2>2 DEF At
    <3>2. o <= 1
      BY <1>1, <3>1, OldestIsThere
    <3> QED
      BY <1>1, <1>6, <3>2
  <2> HIDE DEF o
  <2> QED
    BY <1>1, <1>4, <2>1, <2>2 DEF Out
<1> QED
  BY <1>5, <1>6, FetchEffect

LEMMA FrontIsKnownStep ==
  ASSUME DeliveryConstants, BothSidesTyped, BothSidesTyped', SlotIsOldest, FrontIsKnown,
         DeliveryNext
  PROVE  FrontIsKnown'
<1>1. PICK c \in Classes : c = port.class
  BY ClassesAreTyped
<1>2. /\ EventsTyped /\ Len(events[c]) \in Nat /\ DOMAIN events[c] = 1 .. Len(events[c])
      /\ Len(events'[c]) \in Nat
  BY CountsAreNat, LenProperties DEF BothSidesTyped, EventsTyped
<1>3. ASSUME UNCHANGED port,
             Len(events[c]) > 0 /\ events[c][1].store \in Out =>
               Len(events'[c]) > 0 /\ events'[c][1].store = events[c][1].store
      PROVE  FrontIsKnown'
  BY <1>1, <1>3 DEF FrontIsKnown, FrontIs, Out
<1>4. CASE (\E k \in Classes, f \in Finalities : Allocate(k, f)) \/ PublishStaged
  <2>1. UNCHANGED port
    BY <1>4 DEF Allocate, PublishStaged, SendPrimary, PrimaryFull, RetainTerminal, DropEvent
  <2>2. Len(events[c]) > 0 /\ events[c][1].store \in Out =>
          1 \in 1 .. Len(events'[c]) /\ events'[c][1] = events[c][1]
    <3>1. Len(events[c]) > 0 => 1 \in 1 .. Len(events[c])
      BY <1>2
    <3> QED
      BY <1>4, <3>1, PublisherKeeps
  <2>3. 1 \in 1 .. Len(events'[c]) => Len(events'[c]) > 0
    BY <1>2
  <2> QED
    BY <1>3, <2>1, <2>2, <2>3
<1>5. CASE Close
  BY <1>3, <1>5 DEF Close
<1>6. CASE Fetch
  <2>1. /\ port'.step = "compare" /\ port'.class = c /\ port'.known = Cardinality(Published(port.class))
    BY <1>1, <1>6, PortMoves
  <2>2. port'.known > 0 => Len(events'[c]) > 0 /\ events'[c][1].store \in {"held", "mailbox"}
    BY <1>1, <1>6, <2>1, FetchFindsTheFront
  <2> QED
    BY <2>1, <2>2 DEF FrontIsKnown, FrontIs
<1>7. CASE Compare
  <2>1. /\ port.step = "compare" /\ port'.step \in {"slot", "mailbox"} /\ UNCHANGED events
        /\ port'.class = c /\ port'.known = port.known
        /\ port'.step = "slot" <=>
             /\ At(c, "held") # {}
             /\ At(c, "mailbox") = {} \/ Oldest(c, "held") < Oldest(c, "mailbox")
    BY <1>1, <1>7, PortMoves, QuietSteps DEF Quiet
  <2>2. SUFFICES ASSUME port.known > 0
                 PROVE  /\ port'.step = "slot" => FrontIs(c, {"held"})
                        /\ port'.step = "mailbox" => FrontIs(c, {"mailbox"})
    BY <2>1 DEF FrontIsKnown, FrontIs
  <2>3. /\ Len(events[c]) > 0 /\ events[c][1].store \in {"held", "mailbox"}
        /\ 1 \in 1 .. Len(events[c])
    BY <1>1, <1>2, <2>1, <2>2 DEF FrontIsKnown, FrontIs
  <2>4. ASSUME NEW s, 1 \in At(c, s)
        PROVE  At(c, s) # {} /\ Oldest(c, s) = 1
    <3>1. Oldest(c, s) \in 1 .. Len(events[c]) /\ Oldest(c, s) <= 1
      BY <1>2, <2>4, OldestIsThere
    <3> QED
      BY <1>2, <2>4, <3>1
  <2>5. At(c, "held") # {} => Oldest(c, "held") \in 1 .. Len(events[c])
    BY <1>2, OldestIsThere
  <2>6. At(c, "mailbox") # {} => /\ Oldest(c, "mailbox") \in 1 .. Len(events[c])
                                 /\ events[c][Oldest(c, "mailbox")].store = "mailbox"
    BY <1>2, OldestIsThere
  <2>7. CASE events[c][1].store = "held"
    <3>1. 1 \in At(c, "held")
      BY <1>2, <2>3, <2>7 DEF At
    <3>2. At(c, "held") # {} /\ Oldest(c, "held") = 1
      BY <2>4, <3>1
    <3>3. At(c, "mailbox") # {} => Oldest(c, "mailbox") > 1
      BY <1>2, <2>6, <2>7
    <3> QED
      BY <2>1, <2>3, <2>7, <3>2, <3>3 DEF FrontIs
  <2>8. CASE events[c][1].store = "mailbox"
    <3>1. 1 \in At(c, "mailbox")
      BY <1>2, <2>3, <2>8 DEF At
    <3>2. At(c, "mailbox") # {} /\ Oldest(c, "mailbox") = 1
      BY <2>4, <3>1
    <3> QED
      BY <1>2, <2>1, <2>3, <2>5, <2>8, <3>2 DEF FrontIs
  <2> QED
    BY <2>3, <2>7, <2>8
<1>8. CASE Taking
  BY <1>8, PortMoves DEF Taking, FrontIsKnown
<1>9. CASE BeginReceive \/ Deliver \/ TrySecond \/ GiveUp
  <2>1. port'.known = 0
    BY <1>9, PortMoves, RestingPorts
  <2> QED
    BY <2>1 DEF FrontIsKnown
<1> QED
  BY <1>4, <1>5, <1>6, <1>7, <1>8, <1>9 DEF DeliveryNext, TryRecv, Taking

\* try_recv_class takes the older of the slot and the mailbox front; whatever
\* a publisher does meanwhile, no event that was out when the channel was read
\* is overtaken.
THEOREM KnownEventsAreNotOvertaken == DeliverySpec => NoOvertakingOfKnownEvents
<1>1. BothSidesTyped /\ DeliveryInit => SlotIsOldest /\ FrontIsKnown
  <2> SUFFICES ASSUME BothSidesTyped, DeliveryInit PROVE SlotIsOldest /\ FrontIsKnown
    OBVIOUS
  <2>1. port.known = 0
    BY RestingPorts DEF DeliveryInit
  <2>2. \A k \in Classes : 1 .. Len(events[k]) = {}
    BY EmptySeq DEF DeliveryInit
  <2> QED
    BY <2>1, <2>2 DEF SlotIsOldest, FrontIsKnown
<1>2. DeliveryConstants /\ BothSidesTyped /\ BothSidesTyped' /\ SlotIsOldest /\ FrontIsKnown
        /\ [DeliveryNext]_deliveryVars => SlotIsOldest' /\ FrontIsKnown'
  <2>1. ASSUME SlotIsOldest, FrontIsKnown, UNCHANGED deliveryVars
        PROVE  SlotIsOldest' /\ FrontIsKnown'
    BY <2>1 DEF deliveryVars, gauges, SlotIsOldest, FrontIsKnown, FrontIs
  <2> QED
    BY <2>1, SlotIsOldestStep, FrontIsKnownStep
<1>3. BothSidesTyped /\ FrontIsKnown =>
        [Taking /\ port.known > 0 => Position = 1]_deliveryVars
  <2> SUFFICES ASSUME BothSidesTyped, FrontIsKnown, Taking, port.known > 0
               PROVE  Position = 1
    OBVIOUS
  <2> DEFINE s == IF port.step = "slot" THEN "held" ELSE "mailbox"
  <2>1. port.step = "slot" \/ port.step = "mailbox"
    BY TakeEffect DEF Taking
  <2>2. port.class \in Classes /\ EventsTyped
    BY ClassesAreTyped DEF BothSidesTyped
  <2>3. Len(events[port.class]) > 0 /\ events[port.class][1].store = s
    BY <2>1 DEF FrontIsKnown, FrontIs
  <2>4. /\ Len(events[port.class]) \in Nat
        /\ DOMAIN events[port.class] = 1 .. Len(events[port.class])
    BY <2>2, CountsAreNat
  <2>5. 1 \in At(port.class, s)
    BY <2>3, <2>4 DEF At
  <2>6. Position = Oldest(port.class, s)
    BY DEF Position
  <2> HIDE DEF s
  <2>7. Oldest(port.class, s) \in 1 .. Len(events[port.class]) /\ Oldest(port.class, s) <= 1
    BY <2>2, <2>5, OldestIsThere
  <2> QED
    BY <2>4, <2>6, <2>7
<1> QED
  BY <1>1, <1>2, <1>3, BoundedState, PTL DEF DeliverySpec, NoOvertakingOfKnownEvents

-----------------------------------------------------------------------------
(* What the transport does is what EventStream allows.                     *)

\* The events of a class that are out are the oldest: all of them, but for the
\* one its publisher still has.
OutCount(k) == IF commit = k THEN Len(events[k]) - 1 ELSE Len(events[k])
Told(q, n) == [i \in 1 .. n |-> q[i].finality]

LEMMA CountToN == \A n \in Nat : Cardinality(1 .. n) = n
  BY FS_Interval

LEMMA OutIsAPrefix ==
  ASSUME NEW q \in Seq(Envelopes), NEW n \in Nat, NEW staged \in BOOLEAN,
         Len(q) = IF staged THEN n + 1 ELSE n,
         \A i \in 1 .. Len(q) :
           q[i].store \in {"sending", "overflow"} <=> staged /\ i = Len(q)
  PROVE  Cardinality({i \in DOMAIN q : q[i].store \in {"primary", "held", "mailbox"}}) = n
<1>1. DOMAIN q = 1 .. Len(q) /\ \A i \in 1 .. Len(q) : q[i] \in Envelopes
  BY LenProperties, ElementOfSeq
<1>2. \A i \in 1 .. Len(q) : q[i].store \in {"primary", "held", "mailbox"} <=> i \in 1 .. n
  <2>1. \A i \in 1 .. Len(q) : q[i].store \in {"primary", "held", "mailbox"}
                                 <=> ~(staged /\ i = Len(q))
    BY <1>1 DEF Envelopes, Stores
  <2> QED
    BY <2>1
<1>3. 1 .. n \subseteq 1 .. Len(q)
  OBVIOUS
<1>4. {i \in DOMAIN q : q[i].store \in {"primary", "held", "mailbox"}} = 1 .. n
  BY <1>1, <1>2, <1>3
<1> QED
  BY <1>4, CountToN

LEMMA PublishedCounts ==
  /\ BothSidesTyped =>
       \A k \in Classes : Cardinality(Published(k)) = OutCount(k) /\ OutCount(k) \in Nat
  /\ BothSidesTyped' =>
       \A k \in Classes : Cardinality(Published(k))' = OutCount(k)' /\ OutCount(k)' \in Nat
<1>1. ASSUME BothSidesTyped, NEW k \in Classes
      PROVE  Cardinality(Published(k)) = OutCount(k) /\ OutCount(k) \in Nat
  <2>1. /\ events[k] \in Seq(Envelopes) /\ Len(events[k]) \in Nat
        /\ commit = k => Len(events[k]) > 0
        /\ \A i \in 1 .. Len(events[k]) :
             events[k][i].store \in {"sending", "overflow"} <=> commit = k /\ i = Len(events[k])
    BY <1>1, LenProperties DEF BothSidesTyped, EventsTyped
  <2>2. OutCount(k) \in Nat /\ Len(events[k]) = IF commit = k THEN OutCount(k) + 1 ELSE OutCount(k)
    BY <2>1 DEF OutCount
  <2> QED
    BY <2>1, <2>2, OutIsAPrefix DEF Published
<1>2. ASSUME BothSidesTyped', NEW k \in Classes
      PROVE  Cardinality(Published(k))' = OutCount(k)' /\ OutCount(k)' \in Nat
  <2>1. /\ events'[k] \in Seq(Envelopes) /\ Len(events'[k]) \in Nat
        /\ commit' = k => Len(events'[k]) > 0
        /\ \A i \in 1 .. Len(events'[k]) :
             events'[k][i].store \in {"sending", "overflow"}
               <=> commit' = k /\ i = Len(events'[k])
    BY <1>2, LenProperties DEF BothSidesTyped, EventsTyped
  <2>2. OutCount(k)' \in Nat
        /\ Len(events'[k]) = IF commit' = k THEN OutCount(k)' + 1 ELSE OutCount(k)'
    BY <2>1 DEF OutCount
  <2> QED
    BY <2>1, <2>2, OutIsAPrefix DEF Published
<1> QED
  BY <1>1, <1>2

\* The sequences EventStream speaks of.
LEMMA ToldProperties ==
  ASSUME NEW q \in Seq(Envelopes), NEW n \in Nat, n <= Len(q)
  PROVE  /\ Told(q, n) \in Seq(Finalities) /\ Len(Told(q, n)) = n /\ DOMAIN Told(q, n) = 1 .. n
         /\ \A i \in 1 .. n : Told(q, n)[i] = q[i].finality
<1>1. \A i \in 1 .. n : q[i].finality \in Finalities
  <2>1. \A i \in 1 .. Len(q) : q[i] \in Envelopes
    BY ElementOfSeq
  <2>2. Len(q) \in Nat
    BY LenProperties
  <2> QED
    BY <2>1, <2>2 DEF Envelopes
<1>2. Told(q, n) \in [1 .. n -> Finalities]
  BY <1>1 DEF Told
<1>3. Told(q, n) \in Seq(Finalities)
  BY <1>2, SeqDef
<1>4. DOMAIN Told(q, n) = 1 .. Len(Told(q, n)) /\ Len(Told(q, n)) \in Nat /\ DOMAIN Told(q, n) = 1 .. n
  BY <1>2, <1>3, LenProperties
<1>5. Len(Told(q, n)) = n
  <2>1. \A m \in Nat : 1 .. m = 1 .. n => m = n
    <3>1. \A m \in Nat : Cardinality(1 .. m) = m
      BY CountToN
    <3> QED
      BY <3>1
  <2>2. 1 .. Len(Told(q, n)) = 1 .. n
    BY <1>4
  <2> QED
    BY <1>4, <2>1, <2>2
<1> QED
  BY <1>3, <1>4, <1>5 DEF Told

LEMMA ToldGrows ==
  ASSUME NEW q \in Seq(Envelopes), NEW r \in Seq(Envelopes), NEW n \in Nat, n <= Len(q),
         n + 1 <= Len(r), \A i \in 1 .. n : r[i].finality = q[i].finality
  PROVE  Told(r, n + 1) = Append(Told(q, n), r[n + 1].finality)
<1> DEFINE a == Told(q, n)
           b == Told(r, n + 1)
           f == r[n + 1].finality
<1>1. /\ a \in Seq(Finalities) /\ Len(a) = n /\ \A i \in 1 .. n : a[i] = q[i].finality
  BY ToldProperties
<1>2. b \in Seq(Finalities) /\ Len(b) = n + 1 /\ \A i \in 1 .. n + 1 : b[i] = r[i].finality
  BY ToldProperties
<1>3. f \in Finalities /\ b[n + 1] = f
  <2>1. b[n + 1] = f
    BY <1>2
  <2>2. b[n + 1] \in Finalities
    <3>1. n + 1 \in 1 .. Len(b)
      BY <1>2
    <3> QED
      BY <1>2, <3>1, ElementOfSeq
  <2> QED
    BY <2>1, <2>2
<1> HIDE DEF a, b, f
<1>4. /\ Append(a, f) \in Seq(Finalities) /\ Len(Append(a, f)) = n + 1
      /\ \A i \in 1 .. n : Append(a, f)[i] = a[i]
      /\ Append(a, f)[n + 1] = f
  BY <1>1, <1>3, AppendProperties
<1>5. \A i \in 1 .. n + 1 : b[i] = Append(a, f)[i]
  <2>1. \A i \in 1 .. n + 1 : i \in 1 .. n \/ i = n + 1
    OBVIOUS
  <2> QED
    BY <1>1, <1>2, <1>3, <1>4, <2>1
<1>6. b = Append(a, f)
  BY <1>2, <1>4, <1>5, SeqEqual
<1> QED
  BY <1>6 DEF a, b, f

LEMMA ToldShrinks ==
  ASSUME NEW q \in Seq(Envelopes), NEW r \in Seq(Envelopes), NEW n \in Nat, n <= Len(q),
         NEW p \in 1 .. n, n - 1 <= Len(r),
         \A i \in 1 .. n - 1 : r[i] = IF i < p THEN q[i] ELSE q[i + 1]
  PROVE  Told(r, n - 1) = RemoveAt(Told(q, n), p)
<1> DEFINE a == Told(q, n)
           b == Told(r, n - 1)
<1>1. a \in Seq(Finalities) /\ Len(a) = n /\ \A i \in 1 .. n : a[i] = q[i].finality
  BY ToldProperties
<1>2. n - 1 \in Nat
  OBVIOUS
<1>3. b \in Seq(Finalities) /\ Len(b) = n - 1 /\ \A i \in 1 .. n - 1 : b[i] = r[i].finality
  BY <1>2, ToldProperties
<1> HIDE DEF a, b
<1>4. /\ RemoveAt(a, p) \in Seq(Finalities) /\ Len(RemoveAt(a, p)) = n - 1
      /\ \A i \in 1 .. n - 1 : RemoveAt(a, p)[i] = IF i < p THEN a[i] ELSE a[i + 1]
  BY <1>1, RemoveProperties
<1>5. \A i \in 1 .. n - 1 : b[i] = RemoveAt(a, p)[i]
  <2>1. \A i \in 1 .. n - 1 : i \in 1 .. n /\ i + 1 \in 1 .. n
    OBVIOUS
  <2> QED
    BY <1>1, <1>3, <1>4, <2>1
<1>6. b = RemoveAt(a, p)
  BY <1>3, <1>4, <1>5, SeqEqual
<1> QED
  BY <1>6 DEF a, b

StreamPending ==
  [k \in Classes |-> [i \in 1 .. Cardinality(Published(k)) |-> events[k][i].finality]]
StreamOffer == IF commit = Nobody THEN Nobody ELSE <<commit, Staged.finality>>
ToldOf(k) == Told(events[k], OutCount(k))

LEMMA StreamPendingIsTold ==
  /\ BothSidesTyped => StreamPending = [k \in Classes |-> ToldOf(k)]
  /\ BothSidesTyped' => StreamPending' = [k \in Classes |-> ToldOf(k)']
<1>1. ASSUME BothSidesTyped PROVE StreamPending = [k \in Classes |-> ToldOf(k)]
  BY <1>1, PublishedCounts DEF StreamPending, ToldOf, Told
<1>2. ASSUME BothSidesTyped' PROVE StreamPending' = [k \in Classes |-> ToldOf(k)']
  BY <1>2, PublishedCounts DEF StreamPending, ToldOf, Told
<1> QED
  BY <1>1, <1>2

LEMMA OutIsWithin ==
  ASSUME BothSidesTyped, NEW k \in Classes
  PROVE  /\ events[k] \in Seq(Envelopes) /\ Len(events[k]) \in Nat
         /\ OutCount(k) \in Nat /\ OutCount(k) <= Len(events[k])
         /\ Len(events[k]) = IF commit = k THEN OutCount(k) + 1 ELSE OutCount(k)
<1>1. /\ events[k] \in Seq(Envelopes) /\ Len(events[k]) \in Nat
      /\ commit = k => Len(events[k]) > 0
  BY LenProperties DEF BothSidesTyped, EventsTyped
<1> QED
  BY <1>1 DEF OutCount

\* What each step tells the consumer.
LEMMA QuietlyTold ==
  ASSUME DeliveryConstants, BothSidesTyped, BothSidesTyped', NEW k \in Classes,
         \/ \E c \in Classes, f \in Finalities : Allocate(c, f)
         \/ PrimaryFull \/ DropEvent \/ Fetch \/ Quiet
  PROVE  ToldOf(k)' = ToldOf(k)
<1>1. /\ EventsTyped /\ Nobody \notin Classes
      /\ Len(events[k]) \in Nat /\ OutCount(k) \in Nat /\ OutCount(k) <= Len(events[k])
      /\ Len(events[k]) = IF commit = k THEN OutCount(k) + 1 ELSE OutCount(k)
  BY OutIsWithin DEF BothSidesTyped, DeliveryConstants
<1>2. SUFFICES /\ OutCount(k)' = OutCount(k)
               /\ \A i \in 1 .. OutCount(k) :
                    events'[k][i].finality = events[k][i].finality
  BY DEF ToldOf, Told
<1>3. CASE \E c \in Classes, f \in Finalities : Allocate(c, f)
  <2>1. PICK c \in Classes, f \in Finalities : Allocate(c, f)
    BY <1>3
  <2> DEFINE e == Event(f, "sending")
  <2>2. Appends(c, e) /\ e \in Envelopes /\ commit = Nobody /\ commit' = c
    BY <2>1, EventValues DEF Allocate, Appends, Stores
  <2> HIDE DEF e
  <2>3. /\ Len(events'[c]) = Len(events[c]) + 1
        /\ \A i \in 1 .. Len(events[c]) : events'[c][i] = events[c][i]
        /\ \A j \in Classes : j # c => events'[j] = events[j]
    BY <1>1, <2>2, AppendEffect
  <2>4. CASE k = c
    BY <1>1, <2>2, <2>3, <2>4 DEF OutCount
  <2>5. CASE k # c
    BY <1>1, <2>2, <2>3, <2>5 DEF OutCount
  <2> QED
    BY <2>4, <2>5
<1>4. CASE PrimaryFull
  <2>1. /\ commit \in Classes /\ Len(events[commit]) \in 1 .. Len(events[commit])
        /\ Restores(commit, Len(events[commit]), "overflow") /\ commit' = commit
    BY <1>4, StagedIsLast, PublisherEffects DEF PrimaryFull
  <2>2. /\ Len(events'[commit]) = Len(events[commit])
        /\ \A i \in 1 .. Len(events[commit]) :
             events'[commit][i].finality = events[commit][i].finality
        /\ \A j \in Classes : j # commit => events'[j] = events[j]
    BY <1>1, <2>1, RestoreEffect DEF Stores
  <2> QED
    BY <1>1, <2>1, <2>2 DEF OutCount
<1>5. CASE DropEvent
  <2>1. /\ commit \in Classes /\ Len(events[commit]) \in 1 .. Len(events[commit])
        /\ Removes(commit, Len(events[commit])) /\ commit' = Nobody
    BY <1>5, StagedIsLast, PublisherEffects DEF DropEvent
  <2>2. /\ Len(events'[commit]) = Len(events[commit]) - 1
        /\ \A i \in 1 .. Len(events[commit]) - 1 : events'[commit][i] =
             IF i < Len(events[commit]) THEN events[commit][i] ELSE events[commit][i + 1]
        /\ \A j \in Classes : j # commit => events'[j] = events[j]
    BY <1>1, <2>1, RemoveEffect
  <2>3. CASE k = commit
    <3>1. OutCount(k)' = Len(events'[k]) /\ OutCount(k) = Len(events[k]) - 1
      BY <1>1, <2>1, <2>3 DEF OutCount
    <3>2. \A i \in 1 .. Len(events[k]) - 1 : i < Len(events[k])
      BY <1>1
    <3> QED
      BY <2>2, <2>3, <3>1, <3>2
  <2>4. CASE k # commit
    BY <1>1, <2>1, <2>2, <2>4 DEF OutCount
  <2> QED
    BY <2>3, <2>4
<1>6. CASE Fetch /\ ~UNCHANGED events
  <2> DEFINE c == port.class
             o == Oldest(c, "primary")
  <2>1. Restores(c, o, "held") /\ o \in 1 .. Len(events[c]) /\ c \in Classes /\ commit' = commit
    BY <1>6, FetchEffect, ClassesAreTyped DEF Fetch
  <2> HIDE DEF c, o
  <2>2. /\ Len(events'[c]) = Len(events[c])
        /\ \A i \in 1 .. Len(events[c]) : events'[c][i].finality = events[c][i].finality
        /\ \A j \in Classes : j # c => events'[j] = events[j]
    BY <1>1, <2>1, RestoreEffect DEF Stores
  <2> QED
    BY <1>1, <2>1, <2>2 DEF OutCount
<1>7. CASE UNCHANGED events /\ UNCHANGED commit
  BY <1>7 DEF OutCount
<1> QED
  BY <1>3, <1>4, <1>5, <1>6, <1>7, QuietSteps DEF Fetch

LEMMA AcceptedIsTold ==
  ASSUME DeliveryConstants, BothSidesTyped, BothSidesTyped', NEW k \in Classes,
         SendPrimary \/ RetainTerminal
  PROVE  /\ commit \in Classes /\ commit' = Nobody
         /\ ToldOf(k)' = IF k = commit THEN Append(ToldOf(k), Staged.finality) ELSE ToldOf(k)
<1>1. /\ EventsTyped /\ Nobody \notin Classes
      /\ events[k] \in Seq(Envelopes) /\ events'[k] \in Seq(Envelopes)
      /\ Len(events[k]) \in Nat /\ OutCount(k) \in Nat /\ OutCount(k) <= Len(events[k])
      /\ Len(events[k]) = IF commit = k THEN OutCount(k) + 1 ELSE OutCount(k)
  BY OutIsWithin DEF BothSidesTyped, DeliveryConstants, EventsTyped
<1>2. /\ commit \in Classes /\ Len(events[commit]) \in 1 .. Len(events[commit])
      /\ Staged = events[commit][Len(events[commit])] /\ commit' = Nobody
      /\ \E s \in Stores : Restores(commit, Len(events[commit]), s)
  BY StagedIsLast, PublisherEffects DEF SendPrimary, RetainTerminal, Stores
<1>3. /\ Len(events'[commit]) = Len(events[commit])
      /\ \A i \in 1 .. Len(events[commit]) :
           events'[commit][i].finality = events[commit][i].finality
      /\ \A j \in Classes : j # commit => events'[j] = events[j]
  BY <1>1, <1>2, RestoreEffect
<1>4. OutCount(k)' = IF k = commit THEN OutCount(k) + 1 ELSE OutCount(k)
  BY <1>1, <1>2, <1>3 DEF OutCount
<1>5. CASE k = commit
  <2> DEFINE n == OutCount(k)
             q == events[k]
             r == events'[k]
  <2>1. /\ n + 1 <= Len(r) /\ n <= Len(q) /\ n + 1 \in 1 .. Len(q)
        /\ \A i \in 1 .. n : r[i].finality = q[i].finality
        /\ r[n + 1].finality = Staged.finality
    BY <1>1, <1>2, <1>3, <1>5
  <2>2. Told(r, n + 1) = Append(Told(q, n), r[n + 1].finality)
    BY <1>1, <2>1, ToldGrows
  <2> QED
    BY <1>2, <1>4, <1>5, <2>1, <2>2 DEF ToldOf
<1>6. CASE k # commit
  BY <1>2, <1>3, <1>4, <1>6 DEF ToldOf
<1> QED
  BY <1>2, <1>5, <1>6

LEMMA DeliveredIsTold ==
  ASSUME DeliveryConstants, BothSidesTyped, BothSidesTyped', NEW k \in Classes, Taking
  PROVE  /\ port.class \in Classes /\ Position \in 1 .. OutCount(port.class)
         /\ ToldOf(k)' = IF k = port.class THEN RemoveAt(ToldOf(k), Position) ELSE ToldOf(k)
<1>a. PICK c \in Classes : c = port.class
  BY ClassesAreTyped
<1>0. PICK p \in 1 .. Len(events[c]) : c = port.class /\ p = Position
  BY <1>a, TakeEffect
<1>1. /\ Removes(c, p) /\ commit' = commit
      /\ events[c][p].store \in {"held", "mailbox"}
  BY <1>0, TakeEffect, ClassesAreTyped DEF Taking, TakeSlot, PopTerminal
<1>2. /\ EventsTyped
      /\ events[c] \in Seq(Envelopes) /\ events'[c] \in Seq(Envelopes)
      /\ Len(events[c]) \in Nat /\ OutCount(c) \in Nat /\ OutCount(c) <= Len(events[c])
      /\ Len(events[c]) = IF commit = c THEN OutCount(c) + 1 ELSE OutCount(c)
  <2>1. EventsTyped /\ EventsTyped'
    BY DEF BothSidesTyped
  <2> QED
    BY <2>1, OutIsWithin DEF EventsTyped
<1>3. p \in 1 .. OutCount(c)
  <2>1. ~(commit = c /\ p = Len(events[c]))
    BY <1>1 DEF BothSidesTyped
  <2> QED
    BY <1>1, <1>2, <2>1
<1>4. /\ Len(events'[c]) = Len(events[c]) - 1
      /\ \A i \in 1 .. Len(events[c]) - 1 :
           events'[c][i] = IF i < p THEN events[c][i] ELSE events[c][i + 1]
      /\ \A j \in Classes : j # c => events'[j] = events[j]
  BY <1>1, <1>2, RemoveEffect
<1> SUFFICES ToldOf(k)' = IF k = c THEN RemoveAt(ToldOf(k), p) ELSE ToldOf(k)
  BY <1>0, <1>3
<1>5. CASE k = c
  <2> DEFINE n == OutCount(k)
             q == events[k]
             r == events'[k]
  <2>1. OutCount(k)' = n - 1
    BY <1>1, <1>2, <1>4, <1>5 DEF OutCount
  <2>2. /\ n - 1 <= Len(r) /\ n <= Len(q)
        /\ \A i \in 1 .. n - 1 : r[i] = IF i < p THEN q[i] ELSE q[i + 1]
    BY <1>2, <1>4, <1>5
  <2>3. Told(r, n - 1) = RemoveAt(Told(q, n), p)
    <3>1. q \in Seq(Envelopes) /\ r \in Seq(Envelopes) /\ n \in Nat /\ p \in 1 .. n
      BY <1>2, <1>3, <1>5
    <3> HIDE DEF n, q, r
    <3> QED
      BY <2>2, <3>1, ToldShrinks
  <2> QED
    BY <1>1, <1>3, <1>5, <2>1, <2>3 DEF ToldOf
<1>6. CASE k # c
  BY <1>1, <1>3, <1>4, <1>6 DEF ToldOf, OutCount
<1> QED
  BY <1>5, <1>6

\* The mailbox retains terminals only, so what fills it is what EventStream
\* counts when it allows a terminal to be refused.
OnlyTerminalsWait ==
  \A k \in Classes : \A i \in 1 .. Len(events[k]) :
    events[k][i].store = "mailbox" => events[k][i].finality = "Terminal"

LEMMA OnlyTerminalsWaitStep ==
  ASSUME DeliveryConstants, BothSidesTyped, OnlyTerminalsWait, DeliveryNext
  PROVE  OnlyTerminalsWait'
<1>1. /\ EventsTyped /\ Nobody \notin Classes
      /\ \A k \in Classes : Len(events[k]) \in Nat
  BY CountsAreNat DEF BothSidesTyped, DeliveryConstants
<1>2. ASSUME NEW c \in Classes, NEW i \in 1 .. Len(events[c]), NEW s \in Stores,
             Restores(c, i, s), s = "mailbox" => events[c][i].finality = "Terminal"
      PROVE  OnlyTerminalsWait'
  <2>1. /\ Len(events'[c]) = Len(events[c])
        /\ \A j \in 1 .. Len(events[c]) :
             /\ events'[c][j].finality = events[c][j].finality
             /\ events'[c][j].store = IF j = i THEN s ELSE events[c][j].store
        /\ \A j \in Classes : j # c => events'[j] = events[j]
    BY <1>1, <1>2, RestoreEffect
  <2> QED
    BY <1>2, <2>1 DEF OnlyTerminalsWait
<1>3. ASSUME NEW c \in Classes, NEW i \in 1 .. Len(events[c]), Removes(c, i)
      PROVE  OnlyTerminalsWait'
  <2>1. /\ Len(events'[c]) = Len(events[c]) - 1
        /\ \A j \in 1 .. Len(events[c]) - 1 :
             events'[c][j] = IF j < i THEN events[c][j] ELSE events[c][j + 1]
        /\ \A j \in Classes : j # c => events'[j] = events[j]
    BY <1>1, <1>3, RemoveEffect
  <2>2. \A j \in 1 .. Len(events[c]) - 1 : \E o \in 1 .. Len(events[c]) :
          events'[c][j] = events[c][o]
    <3>1. \A j \in 1 .. Len(events[c]) - 1 :
            j \in 1 .. Len(events[c]) /\ j + 1 \in 1 .. Len(events[c])
      BY <1>1
    <3> QED
      BY <2>1, <3>1
  <2>3. 1 .. Len(events'[c]) = 1 .. Len(events[c]) - 1
    BY <2>1
  <2> SUFFICES ASSUME NEW k \in Classes, NEW j \in 1 .. Len(events'[k]),
                      events'[k][j].store = "mailbox"
               PROVE  events'[k][j].finality = "Terminal"
    BY DEF OnlyTerminalsWait
  <2>4. \E o \in 1 .. Len(events[k]) : events'[k][j] = events[k][o]
    <3>1. CASE k = c
      BY <2>2, <2>3, <3>1
    <3>2. CASE k # c
      BY <2>1, <3>2
    <3> QED
      BY <3>1, <3>2
  <2> QED
    BY <2>4 DEF OnlyTerminalsWait
<1>4. ASSUME NEW c \in Classes, NEW f \in Finalities, Allocate(c, f)
      PROVE  OnlyTerminalsWait'
  <2> DEFINE e == Event(f, "sending")
  <2>1. Appends(c, e) /\ e \in Envelopes /\ e.store = "sending"
    BY <1>4, EventValues DEF Allocate, Appends, Stores
  <2> HIDE DEF e
  <2>2. /\ Len(events'[c]) = Len(events[c]) + 1
        /\ \A i \in 1 .. Len(events[c]) : events'[c][i] = events[c][i]
        /\ events'[c][Len(events[c]) + 1] = e
        /\ \A j \in Classes : j # c => events'[j] = events[j]
    BY <1>1, <2>1, AppendEffect
  <2>3. \A i \in 1 .. Len(events[c]) + 1 : i \in 1 .. Len(events[c]) \/ i = Len(events[c]) + 1
    BY <1>1
  <2> QED
    BY <2>1, <2>2, <2>3 DEF OnlyTerminalsWait
<1>5. ASSUME PublishStaged PROVE OnlyTerminalsWait'
  <2>1. /\ commit \in Classes /\ Len(events[commit]) \in 1 .. Len(events[commit])
        /\ Staged = events[commit][Len(events[commit])]
    BY <1>5, StagedIsLast, PublisherEffects DEF PublishStaged
  <2>2. RetainTerminal => Staged.finality = "Terminal"
    BY DEF RetainTerminal, CanRetain
  <2>3. "primary" \in Stores /\ "overflow" \in Stores /\ "mailbox" \in Stores
    BY DEF Stores
  <2> QED
    BY <1>2, <1>3, <1>5, <2>1, <2>2, <2>3, PublisherEffects DEF PublishStaged
<1>6. ASSUME Fetch PROVE OnlyTerminalsWait'
  <2>1. CASE UNCHANGED events
    BY <2>1 DEF OnlyTerminalsWait
  <2>2. CASE ~UNCHANGED events
    BY <1>2, <1>6, <2>2, FetchEffect, ClassesAreTyped DEF Stores
  <2> QED
    BY <2>1, <2>2
<1>7. ASSUME Taking PROVE OnlyTerminalsWait'
  BY <1>3, <1>7, TakeEffect, ClassesAreTyped
<1>8. ASSUME Quiet PROVE OnlyTerminalsWait'
  BY <1>8, QuietSteps DEF OnlyTerminalsWait
<1> QED
  BY <1>4, <1>5, <1>6, <1>7, <1>8 DEF DeliveryNext, TryRecv, Quiet, Taking

LEMMA FullMailboxIsWaiting ==
  ASSUME BothSidesTyped, OnlyTerminalsWait
  PROVE  /\ MailboxSize <= Cardinality(Stream!Waiting)
         /\ MailboxSize \in Nat /\ Cardinality(Stream!Waiting) \in Nat
<1> DEFINE T(k) == {i \in 1 .. OutCount(k) : events[k][i].finality = "Terminal"}
           W(k) == {<<k, i>> : i \in T(k)}
           f(k) == [i \in T(k) |-> <<k, i>>]
<1>1. Stream!Waiting = W("Control") \cup W("Observation")
  <2>1. StreamPending = [k \in Classes |-> ToldOf(k)]
    BY StreamPendingIsTold
  <2>2. \A k \in Classes : {i \in DOMAIN StreamPending[k] : StreamPending[k][i] = "Terminal"} = T(k)
    BY <2>1, PublishedCounts DEF ToldOf, Told
  <2>3. Stream!Waiting = UNION {{<<k, i>> : i \in {j \in DOMAIN StreamPending[k] :
                                                     StreamPending[k][j] = "Terminal"}}
                                  : k \in Classes}
    BY DEF Stream!Waiting, StreamPending
  <2>4. Stream!Waiting = UNION {W(k) : k \in Classes}
    BY <2>2, <2>3
  <2> QED
    BY <2>4 DEF Classes
<1>2. ASSUME NEW k \in Classes
      PROVE  /\ IsFiniteSet(W(k)) /\ Cardinality(W(k)) \in Nat
             /\ Cardinality(At(k, "mailbox")) <= Cardinality(W(k))
             /\ Cardinality(At(k, "mailbox")) \in Nat
  <2>1. /\ Len(events[k]) \in Nat /\ OutCount(k) \in Nat
        /\ Len(events[k]) = IF commit = k THEN OutCount(k) + 1 ELSE OutCount(k)
        /\ DOMAIN events[k] = 1 .. Len(events[k])
    BY OutIsWithin, LenProperties
  <2>2. IsFiniteSet(1 .. OutCount(k)) /\ T(k) \subseteq 1 .. OutCount(k)
    BY <2>1, FS_Interval
  <2>3. IsFiniteSet(T(k)) /\ Cardinality(T(k)) \in Nat
    BY <2>2, FS_Subset, FS_CardinalityType
  <2>4. At(k, "mailbox") \subseteq T(k)
    <3>1. \A i \in 1 .. Len(events[k]) : events[k][i].store = "mailbox" =>
            ~(commit = k /\ i = Len(events[k]))
      BY DEF BothSidesTyped
    <3> QED
      BY <2>1, <3>1 DEF At, OnlyTerminalsWait
  <2>5. IsFiniteSet(At(k, "mailbox")) /\ Cardinality(At(k, "mailbox")) <= Cardinality(T(k))
    BY <2>3, <2>4, FS_Subset
  <2>6. f(k) \in Bijection(T(k), W(k))
    <3>1. f(k) \in [T(k) -> W(k)] /\ \A i \in T(k) : f(k)[i] = <<k, i>>
      OBVIOUS
    <3>2. \A i, j \in T(k) : f(k)[i] = f(k)[j] => i = j
      BY <3>1
    <3>3. \A w \in W(k) : \E i \in T(k) : f(k)[i] = w
      BY <3>1
    <3> HIDE DEF f, W, T
    <3> QED
      BY <3>1, <3>2, <3>3 DEF Bijection, Injection, Surjection, IsInjective
  <2>7. IsFiniteSet(W(k)) /\ Cardinality(W(k)) = Cardinality(T(k))
    <3> HIDE DEF f, W, T
    <3> QED
      BY <2>3, <2>6, FS_Bijection DEF ExistsBijection
  <2> HIDE DEF f, W, T
  <2> QED
    BY <2>3, <2>5, <2>7, FS_CardinalityType
<1>3. W("Control") \cap W("Observation") = {}
  OBVIOUS
<1> HIDE DEF W
<1>4. "Control" \in Classes /\ "Observation" \in Classes
  BY DEF Classes
<1>5. Cardinality(Stream!Waiting) = Cardinality(W("Control")) + Cardinality(W("Observation"))
  <2>1. Cardinality(W("Control") \cap W("Observation")) = 0
    BY <1>3, FS_EmptySet
  <2> QED
    BY <1>1, <1>2, <1>4, <2>1, FS_Union
<1> QED
  BY <1>2, <1>4, <1>5 DEF MailboxSize

LEMMA OfferIsKept ==
  ASSUME DeliveryConstants, BothSidesTyped, PrimaryFull \/ Fetch \/ Taking \/ Quiet
  PROVE  StreamOffer' = StreamOffer
<1>1. commit' = commit /\ EventsTyped /\ Nobody \notin Classes
  BY QuietSteps
     DEF PrimaryFull, Fetch, Taking, TakeSlot, PopTerminal, BothSidesTyped, DeliveryConstants
<1>2. CASE commit = Nobody
  BY <1>1, <1>2 DEF StreamOffer
<1>3. CASE commit # Nobody
  <2>1. PICK k \in Classes : k = commit
    BY <1>3, StagedIsLast
  <2>2. /\ Len(events[k]) \in 1 .. Len(events[k]) /\ Staged = events[k][Len(events[k])]
        /\ Staged.store \in {"sending", "overflow"}
    BY <1>3, <2>1, StagedIsLast
  <2>3. Staged' = events'[k][Len(events'[k])]
    BY <1>1, <2>1 DEF Staged, Last
  <2> SUFFICES events'[k][Len(events'[k])].finality = events[k][Len(events[k])].finality
    BY <1>1, <2>2, <2>3 DEF StreamOffer
  <2>4. ASSUME NEW c \in Classes, NEW i \in 1 .. Len(events[c]), NEW s \in Stores,
               Restores(c, i, s)
        PROVE  events'[k][Len(events'[k])].finality = events[k][Len(events[k])].finality
    <3>1. /\ Len(events'[c]) = Len(events[c])
          /\ \A j \in 1 .. Len(events[c]) : events'[c][j].finality = events[c][j].finality
          /\ \A j \in Classes : j # c => events'[j] = events[j]
      BY <1>1, <2>4, RestoreEffect
    <3>2. CASE k = c
      BY <2>2, <3>1, <3>2
    <3>3. CASE k # c
      BY <3>1, <3>3
    <3> QED
      BY <3>2, <3>3
  <2>5. CASE PrimaryFull
    BY <2>1, <2>2, <2>4, <2>5, PublisherEffects DEF Stores
  <2>6. CASE Fetch /\ ~UNCHANGED events
    BY <2>4, <2>6, FetchEffect, ClassesAreTyped DEF Stores
  <2>7. CASE Taking
    <3>1. PICK c \in Classes : c = port.class
      BY ClassesAreTyped
    <3>2. PICK p \in 1 .. Len(events[c]) :
            Removes(c, p) /\ events[c][p].store \in {"held", "mailbox"}
      BY <2>7, <3>1, TakeEffect DEF Taking
    <3>3. /\ Len(events'[c]) = Len(events[c]) - 1
          /\ \A j \in 1 .. Len(events[c]) - 1 :
               events'[c][j] = IF j < p THEN events[c][j] ELSE events[c][j + 1]
          /\ \A j \in Classes : j # c => events'[j] = events[j]
      BY <1>1, <3>2, RemoveEffect
    <3>4. CASE k = c
      <4>1. p # Len(events[k]) /\ Len(events[k]) \in Nat
        BY <2>2, <3>2, <3>4
      <4>2. /\ Len(events[k]) - 1 \in 1 .. Len(events[k]) - 1
            /\ ~(Len(events[k]) - 1 < p) /\ (Len(events[k]) - 1) + 1 = Len(events[k])
        BY <2>2, <3>2, <3>4, <4>1
      <4> QED
        BY <3>3, <3>4, <4>2
    <3>5. CASE k # c
      BY <3>3, <3>5
    <3> QED
      BY <3>4, <3>5
  <2>8. CASE UNCHANGED events
    BY <2>8
  <2> QED
    BY <2>5, <2>6, <2>7, <2>8, QuietSteps
<1> QED
  BY <1>2, <1>3

LEMMA StreamStep ==
  ASSUME DeliveryConstants, BothSidesTyped, BothSidesTyped', OnlyTerminalsWait,
         [DeliveryNext]_deliveryVars
  PROVE  \/ UNCHANGED <<StreamPending, StreamOffer>>
         \/ Stream!Next
<1>1. /\ Nobody \notin Classes /\ \A k \in Classes, f \in Finalities : <<k, f>> # Nobody
      /\ StreamPending = [k \in Classes |-> ToldOf(k)]
      /\ StreamPending' = [k \in Classes |-> ToldOf(k)']
  BY StreamPendingIsTold DEF DeliveryConstants
<1>2. commit # Nobody => /\ commit \in Classes /\ Staged \in Envelopes
                         /\ Staged = events[commit][Len(events[commit])]
                         /\ Len(events[commit]) \in 1 .. Len(events[commit])
  BY StagedIsLast
<1>3. commit # Nobody => /\ StreamOffer = <<commit, Staged.finality>> /\ StreamOffer # Nobody
                         /\ StreamOffer[1] = commit /\ StreamOffer[2] = Staged.finality
  BY <1>1, <1>2 DEF StreamOffer, Envelopes
<1>4. ASSUME NEW k \in Classes, NEW f \in Finalities, Allocate(k, f)
      PROVE  Stream!Offer(k, f)
  <2>1. /\ StreamOffer = Nobody /\ commit' = k
        /\ Appends(k, Event(f, "sending"))
    BY <1>4 DEF StreamOffer, Allocate, Appends
  <2>2. StreamPending' = StreamPending
    BY <1>1, <1>4, QuietlyTold
  <2>3. Staged' = Event(f, "sending") /\ Event(f, "sending").finality = f
    <3>1. Event(f, "sending") \in Envelopes /\ Event(f, "sending").finality = f
      BY EventValues DEF Stores
    <3>2. /\ Len(events'[k]) = Len(events[k]) + 1
          /\ events'[k][Len(events[k]) + 1] = Event(f, "sending")
      BY <2>1, <3>1, AppendEffect DEF BothSidesTyped
    <3> QED
      BY <2>1, <3>1, <3>2 DEF Staged, Last
  <2>4. StreamOffer' = <<k, f>>
    BY <1>1, <2>1, <2>3 DEF StreamOffer
  <2> QED
    BY <2>1, <2>2, <2>4 DEF Stream!Offer, StreamPending, StreamOffer
<1>5. ASSUME SendPrimary \/ RetainTerminal
      PROVE  Stream!Accept
  <2>1. commit # Nobody /\ commit' = Nobody
    BY <1>5, PublisherEffects DEF SendPrimary, RetainTerminal
  <2>2. StreamOffer' = Nobody
    BY <2>1 DEF StreamOffer
  <2>3. \A k \in Classes :
          ToldOf(k)' = IF k = commit THEN Append(ToldOf(k), Staged.finality) ELSE ToldOf(k)
    BY <1>5, AcceptedIsTold
  <2>4. StreamPending' =
          [StreamPending EXCEPT ![StreamOffer[1]] = Append(@, StreamOffer[2])]
    BY <1>1, <1>2, <1>3, <2>1, <2>3
  <2> QED
    BY <1>3, <2>1, <2>2, <2>4 DEF Stream!Accept, StreamPending, StreamOffer
<1>6. ASSUME DropEvent
      PROVE  Stream!Refuse
  <2>1. commit # Nobody /\ commit' = Nobody /\ ~CanRetain
    BY <1>6, PublisherEffects DEF DropEvent
  <2>2. StreamOffer' = Nobody
    BY <2>1 DEF StreamOffer
  <2>3. StreamPending' = StreamPending
    BY <1>1, <1>6, QuietlyTold
  <2>4. StreamOffer[2] = "Terminal" => Cardinality(Stream!Waiting) >= TerminalCapacity
    BY <1>3, <2>1, FullMailboxIsWaiting DEF CanRetain, DeliveryConstants
  <2>5. Stream!Cardinality(Stream!Waiting) = Cardinality(Stream!Waiting)
    BY DEF Cardinality, Stream!Cardinality
  <2> QED
    BY <1>3, <2>1, <2>2, <2>3, <2>4, <2>5 DEF Stream!Refuse, StreamPending, StreamOffer
<1>7. ASSUME Taking
      PROVE  \E k \in Classes : \E i \in DOMAIN StreamPending[k] : Stream!Deliver(k, i)
  <2>1. PICK k \in Classes : k = port.class
    BY ClassesAreTyped
  <2>2. PICK p \in 1 .. OutCount(k) : p = Position
    BY <1>7, <2>1, DeliveredIsTold
  <2>3. p \in DOMAIN StreamPending[k]
    BY <1>1, <2>2 DEF ToldOf, Told
  <2>4. \A j \in Classes : ToldOf(j)' = IF j = k THEN RemoveAt(ToldOf(j), p) ELSE ToldOf(j)
    BY <1>7, <2>1, <2>2, DeliveredIsTold
  <2>5. StreamPending' = [StreamPending EXCEPT ![k] = RemoveAt(@, p)]
    BY <1>1, <2>4
  <2>6. StreamOffer' = StreamOffer
    BY <1>7, OfferIsKept
  <2>7. Stream!Deliver(k, p)
    BY <2>3, <2>5, <2>6
       DEF Stream!Deliver, StreamPending, StreamOffer, RemoveAt, Stream!RemoveAt
  <2> QED
    BY <2>3, <2>7
<1>8. ASSUME PrimaryFull \/ Fetch \/ Quiet
      PROVE  UNCHANGED <<StreamPending, StreamOffer>>
  <2>1. StreamPending' = StreamPending
    BY <1>1, <1>8, QuietlyTold
  <2>2. StreamOffer' = StreamOffer
    BY <1>8, OfferIsKept
  <2> QED
    BY <2>1, <2>2
<1>9. ASSUME UNCHANGED deliveryVars
      PROVE  UNCHANGED <<StreamPending, StreamOffer>>
  BY <1>9 DEF deliveryVars, gauges, StreamPending, StreamOffer, Staged, Published
<1> QED
  BY <1>4, <1>5, <1>6, <1>7, <1>8, <1>9
     DEF DeliveryNext, PublishStaged, TryRecv, Quiet, Taking, Stream!Next, StreamPending,
         Finalities, Stream!Finalities

\* The publisher with its two stores and the port with its slot are together
\* the stream of EventStream: what is accepted is handed out once and what is
\* handed out was accepted, and a terminal is refused only if the mailbox is
\* full of terminals.  (That everything is handed out in the end is liveness.)
THEOREM TheTransportIsAStream ==
  DeliverySpec => Stream!Init /\ [][Stream!Next]_(Stream!streamVars)
<1>1. BothSidesTyped /\ DeliveryInit => Stream!Init /\ OnlyTerminalsWait
  <2> SUFFICES ASSUME BothSidesTyped, DeliveryInit PROVE Stream!Init /\ OnlyTerminalsWait
    OBVIOUS
  <2>1. \A k \in Classes : events[k] = <<>> /\ 1 .. Len(events[k]) = {} /\ DOMAIN events[k] = {}
    BY EmptySeq DEF DeliveryInit
  <2>2. \A k \in Classes : Cardinality(Published(k)) = 0
    <3>1. \A k \in Classes : Published(k) = {}
      BY <2>1 DEF Published
    <3> QED
      BY <3>1, FS_EmptySet
  <2>3. \A k \in Classes : [i \in 1 .. Cardinality(Published(k)) |-> events[k][i].finality] = <<>>
    <3>1. 1 .. 0 = {}
      OBVIOUS
    <3> QED
      BY <2>2, <3>1
  <2> QED
    BY <2>1, <2>3 DEF DeliveryInit, Stream!Init, OnlyTerminalsWait
<1>2. DeliveryConstants /\ BothSidesTyped /\ OnlyTerminalsWait
        /\ [DeliveryNext]_deliveryVars => OnlyTerminalsWait'
  <2>1. ASSUME OnlyTerminalsWait, UNCHANGED deliveryVars
        PROVE  OnlyTerminalsWait'
    BY <2>1 DEF deliveryVars, OnlyTerminalsWait
  <2> QED
    BY <2>1, OnlyTerminalsWaitStep
<1>3. DeliveryConstants /\ BothSidesTyped /\ BothSidesTyped' /\ OnlyTerminalsWait
        /\ [DeliveryNext]_deliveryVars => [Stream!Next]_(Stream!streamVars)
  BY StreamStep DEF Stream!streamVars, StreamPending, StreamOffer
<1> QED
  BY <1>1, <1>2, <1>3, BoundedState, PTL DEF DeliverySpec

=============================================================================
