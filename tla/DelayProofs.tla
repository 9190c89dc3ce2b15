---------------------------- MODULE DelayProofs -----------------------------
(***************************************************************************)
(* The references that node parameters hold on a delay, and the objects    *)
(* that aging binds to them, for rings of any length and any finite set of *)
(* parameters.                                                             *)
(***************************************************************************)
EXTENDS Delay, FiniteSetTheorems, TLAPS

Ring ==
  /\ count \in Counts /\ count \in Nat \ {0}
  /\ index \in Slots
  /\ bound \in [Params -> Slots \cup {None}]
  /\ slot \in [Params -> Slots]
  /\ aged \in SUBSET Params

Lists == set \in [Slots -> SUBSET Params]

In(lists) == UNION {lists[i] : i \in Slots}

Apart(lists) == \A i, j \in Slots : i # j => lists[i] \cap lists[j] = {}

Named == \A p \in Filed : bound[p] # None

Counted == refs = Cardinality(Filed)

IInv == Ring /\ Lists /\ Apart(set) /\ Named /\ Counted

\* A remainder is the number of a slot.
LEMMA RemainderIsSlot ==
  ASSUME count \in Nat \ {0}, NEW x \in Int
  PROVE  x % count \in Slots
  BY SMT DEF Slots

LEMMA ListIsSlot ==
  ASSUME Ring, NEW object \in Slots
  PROVE  ListOf(object) \in Slots
<1>1. index + count - object \in Int /\ count \in Nat \ {0}
  BY SMT DEF Ring, Slots
<1> QED
  BY <1>1, RemainderIsSlot DEF ListOf

LEMMA ReferenceIsSlot ==
  ASSUME Ring, NEW k \in Slots
  PROVE  ReferenceFromDelay(k) \in Slots
<1>1. index + k \in Int /\ count \in Nat \ {0}
  BY SMT DEF Ring, Slots
<1> QED
  BY <1>1, RemainderIsSlot DEF ReferenceFromDelay

LEMMA FiledIn ==
  /\ \A lists, p : p \in In(lists) <=> \E i \in Slots : p \in lists[i]
  /\ Filed = In(set)
  BY DEF In, Filed

LEMMA ListsFinite ==
  ASSUME NEW lists \in [Slots -> SUBSET Params]
  PROVE  IsFiniteSet(In(lists)) /\ In(lists) \subseteq Params
<1>1. In(lists) \subseteq Params
  BY FiledIn
<1> QED
  BY <1>1, DelayAssumption, FS_Subset

\* To remove the association of a parameter that is found takes exactly it out
\* of the filed parameters, and one reference.
LEMMA RemovalCounts ==
  ASSUME IInv, NEW p \in Params, Found(p)
  PROVE  /\ Removed(p) \in [Slots -> SUBSET Params] /\ Apart(Removed(p))
         /\ In(Removed(p)) = Filed \ {p}
         /\ RefsLeft(p) = Cardinality(Filed \ {p})
<1> USE DEF IInv
<1>1. Removed(p) \in [Slots -> SUBSET Params] /\ \A i \in Slots : Removed(p)[i] \subseteq set[i]
  BY DEF Removed, Lists
<1>2. Apart(Removed(p))
  BY <1>1 DEF Apart
<1>3. IsFiniteSet(Filed)
  BY ListsFinite, FiledIn DEF Lists
<1>4. CASE bound[p] = None
  <2>1. p \notin Filed
    BY <1>4 DEF Named
  <2>2. In(Removed(p)) = In(set)
    <3>1. \A i \in Slots : Removed(p)[i] = set[i]
      BY <1>4 DEF Removed
    <3> QED
      BY <3>1 DEF In
  <2>3. Filed \ {p} = Filed
    BY <2>1
  <2> QED
    BY <1>1, <1>2, <1>4, <2>2, <2>3, FiledIn DEF RefsLeft, Counted
<1>5. CASE bound[p] # None
  <2>1. bound[p] \in Slots /\ p \in set[ListOf(bound[p])]
    BY <1>5 DEF Found, Ring
  <2>2. ListOf(bound[p]) \in Slots
    BY <2>1, ListIsSlot
  <2>3. p \in Filed
    BY <2>1, <2>2, FiledIn
  <2>4. \A i \in Slots : Removed(p)[i] = set[i] \ {p}
    BY <1>5, <2>1, <2>2 DEF Removed, Apart
  <2>5. In(Removed(p)) = Filed \ {p}
    <3>1. \A q : q \in In(Removed(p)) <=> q \in Filed \ {p}
      BY <2>4, FiledIn
    <3> QED
      BY <3>1
  <2>6. Cardinality(Filed \ {p}) = Cardinality(Filed) - 1
    BY <1>3, <2>3, FS_RemoveElement
  <2> QED
    BY <1>1, <1>2, <1>5, <2>5, <2>6 DEF RefsLeft, Counted
<1> QED
  BY <1>4, <1>5

\* To file a parameter adds exactly it.
LEMMA AdditionCounts ==
  ASSUME Ring, NEW lists \in [Slots -> SUBSET Params], Apart(lists),
         NEW p \in Params, p \notin In(lists), NEW object \in Slots
  PROVE  /\ Add(p, object, lists) \in [Slots -> SUBSET Params]
         /\ Apart(Add(p, object, lists))
         /\ In(Add(p, object, lists)) = In(lists) \cup {p}
         /\ Cardinality(In(lists) \cup {p}) = Cardinality(In(lists)) + 1
<1> DEFINE new == Add(p, object, lists)  list == ListOf(object)
<1>1. list \in Slots
  BY ListIsSlot
<1>2. /\ new \in [Slots -> SUBSET Params]
      /\ \A i \in Slots : new[i] = IF i = list THEN lists[i] \cup {p} ELSE lists[i]
  BY <1>1 DEF Add
<1>3. \A i \in Slots : p \notin lists[i]
  BY FiledIn
<1>4. Apart(new)
  BY <1>2, <1>3 DEF Apart
<1>5. \A q : q \in In(new) <=> q \in In(lists) \cup {p}
  BY <1>1, <1>2, FiledIn
<1>6. In(new) = In(lists) \cup {p}
  BY <1>5
<1>7. Cardinality(In(lists) \cup {p}) = Cardinality(In(lists)) + 1
  BY ListsFinite, FS_AddElement
<1> QED
  BY <1>2, <1>4, <1>6, <1>7

LEMMA InitIInv == Init => IInv
<1> SUFFICES ASSUME Init PROVE IInv
  OBVIOUS
<1>1. count \in Counts /\ count \in Nat \ {0}
  BY DelayAssumption DEF Init
<1>2. 0 \in Slots
  BY <1>1 DEF Slots
<1>3. Ring /\ Lists /\ Apart(set)
  BY <1>1, <1>2 DEF Init, Ring, Lists, Apart
<1>4. Filed = {}
  BY FiledIn DEF Init
<1> QED
  BY <1>3, <1>4, FS_EmptySet DEF Init, IInv, Named, Counted

\* The steps that set a parameter leave the ring alone.
LEMMA SetToSlotStep ==
  ASSUME NEW p \in Params, NEW k \in Slots
  PROVE  IInv /\ SetToSlot(p, k) => IInv'
<1> SUFFICES ASSUME IInv, SetToSlot(p, k) PROVE IInv'
  OBVIOUS
<1> DEFINE object == ReferenceFromDelay(k)
<1>1. /\ Removed(p) \in [Slots -> SUBSET Params] /\ Apart(Removed(p))
      /\ In(Removed(p)) = Filed \ {p}
      /\ RefsLeft(p) = Cardinality(Filed \ {p})
  BY RemovalCounts DEF SetToSlot
<1>2. count' = count /\ index' = index /\ Slots' = Slots
  BY DEF SetToSlot, Slots
<1>3. object \in Slots
  BY ReferenceIsSlot DEF IInv
<1>4. CASE /\ set' = Add(p, object, Removed(p))
           /\ refs' = RefsLeft(p) + 1
           /\ bound' = [bound EXCEPT ![p] = object]
           /\ slot' = [slot EXCEPT ![p] = k]
           /\ aged' = aged \ {p}
  <2>1. p \notin In(Removed(p))
    BY <1>1
  <2>2. /\ set' \in [Slots -> SUBSET Params] /\ Apart(set')
        /\ In(set') = (Filed \ {p}) \cup {p}
        /\ Cardinality((Filed \ {p}) \cup {p}) = Cardinality(Filed \ {p}) + 1
    BY <1>1, <1>3, <1>4, <2>1, AdditionCounts DEF IInv
  <2>3. Filed' = In(set') /\ Apart(set)' /\ Lists'
    BY <1>2, <2>2 DEF Filed, In, Apart, Lists
  <2>4. Ring'
    BY <1>2, <1>3, <1>4 DEF IInv, Ring
  <2>5. None \notin Slots
    BY DEF None, Slots
  <2>6. Named'
    BY <1>3, <1>4, <2>2, <2>3, <2>5 DEF IInv, Named, Ring, None
  <2>7. Counted'
    BY <1>1, <1>4, <2>2, <2>3 DEF Counted
  <2> QED
    BY <2>3, <2>4, <2>6, <2>7 DEF IInv
<1>5. CASE set' = Removed(p) /\ refs' = RefsLeft(p) /\ UNCHANGED <<bound, slot, aged>>
  <2>1. Filed' = Filed \ {p} /\ Apart(set)' /\ Lists'
    BY <1>1, <1>2, <1>5 DEF Filed, In, Apart, Lists
  <2>2. Ring' /\ Named' /\ Counted'
    BY <1>1, <1>2, <1>5, <2>1 DEF IInv, Ring, Named, Counted, None
  <2> QED
    BY <2>1, <2>2 DEF IInv
<1> QED
  BY <1>4, <1>5 DEF SetToSlot

LEMMA SetToOtherStep == ASSUME NEW p \in Params PROVE IInv /\ SetToOther(p) => IInv'
<1> SUFFICES ASSUME IInv, SetToOther(p) PROVE IInv'
  OBVIOUS
<1>1. /\ Removed(p) \in [Slots -> SUBSET Params] /\ Apart(Removed(p))
      /\ In(Removed(p)) = Filed \ {p}
      /\ RefsLeft(p) = Cardinality(Filed \ {p})
  BY RemovalCounts DEF SetToOther
<1>2. count' = count /\ index' = index /\ Slots' = Slots
  BY DEF SetToOther, Slots
<1>3. Filed' = Filed \ {p} /\ Apart(set)' /\ Lists'
  BY <1>1, <1>2 DEF SetToOther, Filed, In, Apart, Lists
<1>4. Ring'
  BY <1>2 DEF SetToOther, IInv, Ring
<1>5. Named' /\ Counted'
  BY <1>1, <1>3 DEF SetToOther, IInv, Ring, Named, Counted, None
<1> QED
  BY <1>3, <1>4, <1>5 DEF IInv

\* Aging moves no parameter to another list.
LEMMA AgeDelayStep == IInv /\ AgeDelay => IInv'
<1> SUFFICES ASSUME IInv, AgeDelay PROVE IInv'
  OBVIOUS
<1>1. count' = count /\ set' = set /\ refs' = refs /\ slot' = slot /\ Slots' = Slots
  BY DEF AgeDelay, Slots
<1>2. Filed' = Filed /\ Apart(set)' /\ Lists' /\ Counted'
  BY <1>1 DEF IInv, Filed, Apart, Lists, Counted
<1>3. index + 1 \in Int /\ count \in Nat \ {0}
  BY DEF IInv, Ring, Slots
<1>4. index' \in Slots
  BY <1>3, RemainderIsSlot DEF AgeDelay, Following
<1>5. ASSUME NEW p \in Filed PROVE p \in Params /\ bound'[p] \in Slots
  <2>1. PICK i \in Slots : p \in set[i]
    BY <1>5, FiledIn
  <2>2. p \in Params
    BY <2>1 DEF IInv, Lists
  <2> DEFINE j == CHOOSE l \in Slots : p \in set[l]
  <2>3. j \in Slots
    BY <2>1
  <2>4. bound'[p] = (index' + j) % count
    BY <1>5, <2>2 DEF AgeDelay
  <2>5. index' + j \in Int
    BY <1>4, <2>3 DEF Slots
  <2> QED
    BY <1>3, <2>2, <2>4, <2>5, RemainderIsSlot
<1>6. bound' \in [Params -> Slots \cup {None}]
  <2>1. bound' = [q \in Params |-> bound'[q]]
    BY DEF AgeDelay
  <2>2. \A q \in Params : q \notin Filed => bound'[q] = bound[q]
    BY DEF AgeDelay
  <2>3. \A q \in Params : bound'[q] \in Slots \cup {None}
    BY <1>5, <2>2 DEF IInv, Ring
  <2> QED
    BY <2>1, <2>3
<1>7. aged' \in SUBSET Params
  BY <1>5 DEF AgeDelay, IInv, Ring
<1>8. Ring'
  BY <1>1, <1>4, <1>6, <1>7 DEF IInv, Ring
<1>9. Named'
  BY <1>2, <1>5 DEF Named, Slots, None
<1> QED
  BY <1>2, <1>8, <1>9 DEF IInv

\* The strengthened invariant holds for every ring and every finite set of
\* parameters.
THEOREM Inductive == Spec => []IInv
<1>1. IInv /\ UNCHANGED vars => IInv'
  BY DEF vars, delay, IInv, Ring, Lists, Apart, Named, Counted, Filed, Slots
<1>2. IInv /\ [Next]_vars => IInv'
  BY <1>1, SetToSlotStep, SetToOtherStep, AgeDelayStep DEF Next
<1> QED
  BY <1>2, InitIInv, PTL DEF Spec

\* The delay is referenced as often as parameters are filed in its lists, each
\* in one list, whatever is set, aged, or fails for want of memory.
THEOREM RefsCountFiledHolds == Spec => []RefsCountFiled
<1>1. IInv => RefsCountFiled
  BY DEF IInv, Apart, Counted, RefsCountFiled
<1> QED
  BY <1>1, Inductive, PTL

\* Types, for rings of any length.
THEOREM TypeCorrect == Spec => []TypeOK
<1>1. IInv => TypeOK
  <2> SUFFICES ASSUME IInv PROVE TypeOK
    OBVIOUS
  <2>1. refs \in Nat
    BY ListsFinite, FiledIn, FS_CardinalityType DEF IInv, Lists, Counted
  <2> QED
    BY <2>1 DEF IInv, Ring, Lists, TypeOK
<1> QED
  BY <1>1, Inductive, PTL

-----------------------------------------------------------------------------
(* What the parameters name, without remainders: Plus and Back are the     *)
(* additions and subtractions of the ring.                                 *)

Plus(i, k) == IF i + k < count THEN i + k ELSE i + k - count
Back(k) == IF k = 0 THEN 0 ELSE count - k

LEMMA Wraps ==
  ASSUME NEW c \in Nat \ {0}, NEW x \in Nat, x < 2 * c
  PROVE  x % c = IF x < c THEN x ELSE x - c
  OBVIOUS

LEMMA WrapsSum ==
  ASSUME NEW c \in Nat \ {0}, NEW m \in Nat, NEW n \in Nat, m < c, n < c
  PROVE  (m + n) % c = IF m + n < c THEN m + n ELSE m + n - c
<1>1. PICK x \in Nat : x = m + n /\ x < 2 * c
  OBVIOUS
<1>2. x % c = IF x < c THEN x ELSE x - c
  BY <1>1, Wraps
<1> QED
  BY <1>1, <1>2

LEMMA RingArithmetic ==
  ASSUME Ring, NEW k \in Slots
  PROVE  /\ ReferenceFromDelay(k) = Plus(index, k)
         /\ Back(k) \in Slots
         /\ Following(index) = Plus(index, 1)
<1>1. count \in Nat \ {0} /\ index \in Nat /\ k \in Nat /\ index < count /\ k < count
  BY DEF Ring, Slots
<1>2. (index + k) % count = Plus(index, k)
  <2>1. PICK x \in Nat : x = index + k /\ x < 2 * count
    BY <1>1
  <2>2. x % count = IF x < count THEN x ELSE x - count
    BY <1>1, <2>1, Wraps
  <2> QED
    BY <1>1, <2>1, <2>2 DEF Plus
<1>3. (index + 1) % count = Plus(index, 1)
  <2>1. PICK x \in Nat : x = index + 1 /\ x < 2 * count
    BY <1>1
  <2>2. x % count = IF x < count THEN x ELSE x - count
    BY <1>1, <2>1, Wraps
  <2> QED
    BY <1>1, <2>1, <2>2 DEF Plus
<1>4. Back(k) \in Slots
  BY <1>1 DEF Back, Slots
<1> QED
  BY <1>2, <1>3, <1>4 DEF ReferenceFromDelay, Following

\* The list of an object depends on the slot it was named by, not on the index.
LEMMA ListOfSlot ==
  ASSUME Ring, NEW k \in Slots
  PROVE  ListOf(ReferenceFromDelay(k)) = Back(k)
<1>1. count \in Nat \ {0} /\ index \in Nat /\ k \in Nat /\ index < count /\ k < count
  BY DEF Ring, Slots
<1> DEFINE x == index + count - Plus(index, k)
<1>2. x = IF index + k < count THEN count - k ELSE 2 * count - k
  BY <1>1 DEF Plus
<1>3. x \in Nat /\ x < 2 * count
  BY <1>1, <1>2
<1>4. x % count = IF x < count THEN x ELSE x - count
  BY <1>1, <1>3, Wraps
<1>5. x % count = Back(k)
  BY <1>1, <1>2, <1>4 DEF Back
<1> QED
  BY <1>5, RingArithmetic DEF ListOf

\* A parameter is in the list of its slot, and names the object that slot had
\* when it was set or, once aged, the object the list has.
Bindings ==
  \A p \in Params : \A i \in Slots : p \in set[i] =>
    /\ i = Back(slot[p])
    /\ bound[p] = Plus(index, IF p \in aged THEN i ELSE slot[p])

LEMMA BindingsKept ==
  ASSUME IInv, Bindings, [Next]_vars PROVE Bindings'
<1>1. ASSUME NEW p \in Params, count' = count, index' = index, Removed(p) = set',
             Found(p),
             \A q \in Params \ {p} : /\ slot'[q] = slot[q] /\ bound'[q] = bound[q]
                                     /\ q \in aged' <=> q \in aged
      PROVE  Bindings'
  <2>1. Slots' = Slots
    BY <1>1 DEF Slots
  <2>2. /\ Removed(p) \in [Slots -> SUBSET Params]
        /\ In(Removed(p)) = Filed \ {p}
    BY <1>1, RemovalCounts
  <2>3. \A i \in Slots : p \notin set'[i] /\ set'[i] \subseteq set[i]
    BY <1>1, <2>2, FiledIn DEF Removed, IInv, Lists
  <2>4. \A k : Back(k)' = Back(k)
    BY <1>1 DEF Back
  <2> QED
    BY <1>1, <2>1, <2>3 DEF Bindings, Back, Plus
<1>2. ASSUME NEW p \in Params, SetToOther(p) PROVE Bindings'
  BY <1>1, <1>2 DEF SetToOther, IInv, Ring
<1>3. ASSUME NEW p \in Params, NEW k \in Slots, SetToSlot(p, k) PROVE Bindings'
  <2> DEFINE object == ReferenceFromDelay(k)
  <2>1. /\ Removed(p) \in [Slots -> SUBSET Params]
        /\ In(Removed(p)) = Filed \ {p}
    BY <1>3, RemovalCounts DEF SetToSlot
  <2>2. \A i \in Slots : p \notin Removed(p)[i] /\ Removed(p)[i] \subseteq set[i]
    BY <2>1, FiledIn DEF Removed, IInv, Lists
  <2>3. CASE set' = Removed(p) /\ UNCHANGED <<bound, slot, aged>>
    BY <1>1, <1>3, <2>3 DEF SetToSlot
  <2>4. CASE /\ set' = Add(p, object, Removed(p))
             /\ bound' = [bound EXCEPT ![p] = object]
             /\ slot' = [slot EXCEPT ![p] = k]
             /\ aged' = aged \ {p}
    <3>1. /\ ListOf(object) = Back(k) /\ object = Plus(index, k) /\ Back(k) \in Slots
      BY ListOfSlot, RingArithmetic DEF IInv
    <3>2. \A i \in Slots : set'[i] = IF i = Back(k) THEN Removed(p)[i] \cup {p} ELSE Removed(p)[i]
      BY <2>1, <2>4, <3>1 DEF Add
    <3>3. /\ bound'[p] = object /\ slot'[p] = k /\ p \notin aged'
          /\ \A q \in Params \ {p} : /\ slot'[q] = slot[q] /\ bound'[q] = bound[q]
                                     /\ q \in aged' <=> q \in aged
      BY <2>4 DEF IInv, Ring
    <3>4. count' = count /\ index' = index /\ Slots' = Slots
      BY <1>3 DEF SetToSlot, Slots
    <3>5. ASSUME NEW q \in Params, NEW i \in Slots, q \in set'[i]
          PROVE  /\ i = Back(slot'[q])
                 /\ bound'[q] = Plus(index, IF q \in aged' THEN i ELSE slot'[q])
      <4>1. CASE q = p
        BY <2>2, <3>1, <3>2, <3>3, <3>5, <4>1
      <4>2. CASE q # p
        <5>1. q \in set[i]
          BY <2>2, <3>2, <3>5, <4>2
        <5> QED
          BY <3>3, <4>2, <5>1 DEF Bindings
      <4> QED
        BY <4>1, <4>2
    <3> QED
      BY <3>4, <3>5 DEF Bindings, Back, Plus
  <2> QED
    BY <1>3, <2>3, <2>4 DEF SetToSlot
<1>4. ASSUME AgeDelay PROVE Bindings'
  <2>1. /\ count' = count /\ set' = set /\ slot' = slot /\ Slots' = Slots
        /\ aged' = aged \cup Filed
    BY <1>4 DEF AgeDelay, Slots
  <2>2. index' \in Slots
    BY <1>4, AgeDelayStep, <2>1 DEF IInv, Ring
  <2>3. ASSUME NEW p \in Params, NEW i \in Slots, p \in set[i]
        PROVE  /\ i = Back(slot[p]) /\ p \in aged'
               /\ bound'[p] = IF index' + i < count THEN index' + i ELSE index' + i - count
    <3>1. p \in Filed /\ p \in aged'
      BY <2>1, <2>3, FiledIn
    <3>2. (CHOOSE j \in Slots : p \in set[j]) = i
      <4>1. \A j \in Slots : p \in set[j] => j = i
        BY <2>3 DEF IInv, Apart
      <4> QED
        BY <2>3, <4>1
    <3>3. bound'[p] = (index' + i) % count
      BY <1>4, <3>1, <3>2 DEF AgeDelay
    <3>4. count \in Nat \ {0}
      BY DEF IInv, Ring
    <3>5. index' \in Nat /\ index' < count /\ i \in Nat /\ i < count
      BY <2>1, <2>2, <3>4 DEF Slots
    <3>6. PICK n \in Nat : n = index' /\ n < count
      BY <3>5
    <3>7. (n + i) % count = IF n + i < count THEN n + i ELSE n + i - count
      BY <3>4, <3>5, <3>6, WrapsSum
    <3>8. i = Back(slot[p])
      BY <2>3 DEF Bindings
    <3> QED
      BY <3>1, <3>3, <3>6, <3>7, <3>8
  <2> QED
    BY <2>1, <2>3 DEF Bindings, Back, Plus
<1>5. CASE UNCHANGED vars
  BY <1>5 DEF vars, delay, Bindings, Slots, Back, Plus
<1> QED
  BY <1>2, <1>3, <1>4, <1>5 DEF Next

LEMMA InitBindings == Init => Bindings
<1> SUFFICES ASSUME Init PROVE Bindings
  OBVIOUS
<1> QED
  BY DEF Init, Bindings, Slots

\* In a ring of one or two objects a filed parameter names what the delay
\* returns for the slot it was set to, however often the delay is aged.
THEOREM TwoAgreeHolds == Spec => []TwoAgree
<1>1. IInv /\ Bindings => TwoAgree
  <2> SUFFICES ASSUME IInv, Bindings, count <= 2, NEW p \in Filed
               PROVE  bound[p] = ReferenceFromDelay(slot[p])
    BY DEF TwoAgree
  <2>1. PICK i \in Slots : p \in set[i]
    BY FiledIn
  <2>2. p \in Params /\ slot[p] \in Slots
    BY <2>1 DEF IInv, Lists, Ring
  <2>3. i = Back(slot[p]) /\ bound[p] = Plus(index, IF p \in aged THEN i ELSE slot[p])
    BY <2>1, <2>2 DEF Bindings
  <2>4. Back(slot[p]) = slot[p]
    BY <2>2 DEF IInv, Ring, Back, Slots
  <2> QED
    BY <2>2, <2>3, <2>4, RingArithmetic DEF IInv
<1>2. IInv /\ Bindings /\ [Next]_vars => Bindings'
  BY BindingsKept
<1> QED
  BY <1>1, <1>2, Inductive, InitBindings, PTL DEF Spec

\* Of two aged parameters of slots -k and -(k+1) the second names after aging
\* what the first named before: what a graph sees of the past is one history,
\* for rings of any length.
THEOREM PassesOnHolds == Spec => PassesOn
<1>1. ASSUME IInv, Bindings, Bindings', [Next]_vars, index' # index,
             NEW p \in aged \cap Filed, NEW q \in aged \cap Filed, slot[q] = slot[p] + 1
      PROVE  bound'[q] = bound[p]
  <2>1. AgeDelay
    BY <1>1 DEF Next, vars, delay, SetToOther, SetToSlot
  <2>2. /\ count' = count /\ set' = set /\ slot' = slot /\ Slots' = Slots
        /\ aged' = aged \cup Filed
    BY <2>1 DEF AgeDelay, Slots
  <2>3. PICK i \in Slots : p \in set[i]
    BY FiledIn
  <2>4. PICK j \in Slots : q \in set[j]
    BY FiledIn
  <2>5. p \in Params /\ slot[p] \in Slots /\ q \in Params /\ slot[q] \in Slots
    <3>1. p \in Params /\ q \in Params
      BY <1>1, <2>3, <2>4 DEF IInv, Lists
    <3> QED
      BY <1>1, <3>1 DEF IInv, Ring
  <2>6. i = Back(slot[p]) /\ bound[p] = Plus(index, i)
    BY <1>1, <2>3, <2>5 DEF Bindings
  <2>7. j = Back(slot[q])
    BY <1>1, <2>4, <2>5 DEF Bindings
  <2>8. bound'[q] = IF index' + j < count THEN index' + j ELSE index' + j - count
    BY <1>1, <2>2, <2>4, <2>5 DEF Bindings, Plus
  <2>9. index' = IF index + 1 < count THEN index + 1 ELSE index + 1 - count
    BY <1>1, <2>1, <2>5, RingArithmetic DEF AgeDelay, IInv, Plus
  <2>10. /\ count \in Nat \ {0} /\ index \in Nat /\ index < count
         /\ slot[p] \in Nat /\ slot[q] < count
    <3>1. count \in Nat \ {0} /\ index \in Slots
      BY <1>1 DEF IInv, Ring
    <3> QED
      BY <2>5, <3>1 DEF Slots
  <2> QED
    BY <1>1, <2>6, <2>7, <2>8, <2>9, <2>10 DEF Back, Plus
<1>2. IInv /\ Bindings /\ Bindings' /\ [Next]_vars =>
        [index' # index =>
           \A p, q \in aged \cap Filed : slot[q] = slot[p] + 1 => bound'[q] = bound[p]]_vars
  BY <1>1
<1>3. IInv /\ Bindings /\ [Next]_vars => Bindings'
  BY BindingsKept
<1> QED
  BY <1>2, <1>3, Inductive, InitBindings, PTL DEF Spec, PassesOn
=============================================================================
