--------------------------- MODULE RegistryProofs ---------------------------
(***************************************************************************)
(* Theorems about Registry, for any names and any bounds: what an index    *)
(* into the table is still worth after user code has changed the table.    *)
(***************************************************************************)
EXTENDS Registry, SequenceTheorems, NaturalsInduction, WellFoundedInduction, TLAPS

-----------------------------------------------------------------------------
(* The inductive invariant.                                                *)

(* Stale entries included, later entries were registered later.            *)
Rising == \A i, j \in 1..Len(slots) : i <= j => slots[i].fn <= slots[j].fn
Made   == \A i \in 1..Len(slots) : slots[i].fn <= made

(* The index of a call whose arguments are being evaluated, in a table t    *)
(* with n entries of m made: how far it may be off, and what is there.     *)
IndexOK(c, t, n, m) ==
    /\ c.index >= 1
    /\ c.found <= m
    /\ c.index <= n + c.shifts
    /\ c.shifts = 0 => t[c.index].fn = c.found
    /\ c.shifts >= 1 => c.index <= Len(t) + c.shifts - 1
    /\ c.index <= Len(t) => t[c.index].fn >= c.found

CallOK(c, t, n, m) ==
    /\ c.phase = "running" => /\ c.shifts = 0 => c.fn = c.found
                              /\ c.fn >= c.found
    /\ c.form = "statement" => c.fn = c.found
    /\ c.phase = "args" /\ c.form = "subexpression" => IndexOK(c, t, n, m)

CallsOK == \A k \in 1..Len(calls) : CallOK(calls[k], slots, count, made)

Outside == status = "undefined" => Top.shifts >= 2

RInv == RegistryTypeOK /\ Rising /\ Made /\ Ordered /\ CallsOK /\ Outside

-----------------------------------------------------------------------------
(* The operators on the array.                                             *)

LEMMA SlotFacts ==
    ASSUME RegistryTypeOK
    PROVE  /\ Len(slots) \in Nat /\ count \in Nat /\ count <= Len(slots)
           /\ \A i \in 1..Len(slots) : slots[i] \in Entries /\ slots[i].fn \in Nat
           /\ Len(calls) \in Nat
           /\ \A k \in 1..Len(calls) : calls[k] \in CallType
<1>1. /\ slots \in Seq(Entries) /\ calls \in Seq(CallType) /\ count \in 0..Len(slots)
  BY DEF RegistryTypeOK
<1>2. /\ Len(slots) \in Nat /\ \A i \in 1..Len(slots) : slots[i] \in Entries
      /\ Len(calls) \in Nat /\ \A k \in 1..Len(calls) : calls[k] \in CallType
  BY <1>1, LenProperties
<1> QED
  BY <1>1, <1>2 DEF Entries

(* What a registration leaves in the array.                                *)
LEMMA AddedFacts ==
    ASSUME RegistryTypeOK, NEW n \in Name
    PROVE  /\ Added(n) \in Seq(Entries)
           /\ Len(Added(n)) = count + 1
           /\ \A i \in 1..count : Added(n)[i] = slots[i]
           /\ Added(n)[count + 1] = [name |-> n, fn |-> made + 1]
<1> DEFINE new == [name |-> n, fn |-> made + 1]
           kept == SubSeq(slots, 1, count)
<1>1. new \in Entries /\ slots \in Seq(Entries) /\ count \in 0..Len(slots)
  BY DEF RegistryTypeOK, Entries
<1>2. /\ Len(slots) \in Nat /\ count \in Nat /\ count <= Len(slots)
      /\ \A i \in 1..count : slots[i] \in Entries
  BY SlotFacts
<1>3. /\ kept \in Seq(Entries)
      /\ Len(kept) = IF 1 <= count THEN count - 1 + 1 ELSE 0
      /\ \A i \in 1..(count - 1 + 1) : kept[i] = slots[1 + i - 1]
  BY <1>2, SubSeqProperties
<1>4. Len(kept) = count /\ \A i \in 1..count : kept[i] = slots[i]
  BY <1>2, <1>3
<1> HIDE DEF new, kept
<1>5. /\ Append(kept, new) \in Seq(Entries)
      /\ Len(Append(kept, new)) = Len(kept) + 1
      /\ \A i \in 1..Len(kept) : Append(kept, new)[i] = kept[i]
      /\ Append(kept, new)[Len(kept) + 1] = new
  BY <1>1, <1>3, AppendProperties
<1>6. Added(n) = Append(kept, new)
  BY DEF Added, kept, new
<1> QED
  BY <1>4, <1>5, <1>6 DEF new

(* What a removal leaves.                                                  *)
LEMMA ShiftedFacts ==
    ASSUME RegistryTypeOK, NEW i \in 1..count
    PROVE  /\ Shifted(i) \in Seq(Entries)
           /\ Len(Shifted(i)) = Len(slots)
           /\ \A j \in 1..Len(slots) :
                 Shifted(i)[j] = IF i <= j /\ j < count THEN slots[j + 1] ELSE slots[j]
<1>1. /\ Len(slots) \in Nat /\ count \in Nat /\ count <= Len(slots)
      /\ \A j \in 1..Len(slots) : slots[j] \in Entries
  BY SlotFacts
<1> DEFINE m == Len(slots)
           f == [j \in 1..m |-> IF i <= j /\ j < count THEN slots[j + 1] ELSE slots[j]]
<1>2. Shifted(i) = f
  BY DEF Shifted
<1> HIDE DEF m
<1>3. m = Len(slots)
  BY DEF m
<1>4. \A j \in 1..m : (IF i <= j /\ j < count THEN slots[j + 1] ELSE slots[j]) \in Entries
  BY <1>1, <1>3
<1>5. f \in [1..m -> Entries] /\ DOMAIN f = 1..m
  BY <1>4
<1>6. m \in Nat
  BY <1>1, <1>3
<1>7. f \in Seq(Entries)
  BY <1>5, <1>6, SeqDef
<1>8. Len(f) = m
  BY <1>5, <1>6, <1>7, LenProperties
<1> QED
  BY <1>2, <1>3, <1>7, <1>8

(* Changing one call, or none, keeps the stack of calls typed.              *)
LEMMA MovedFacts ==
    ASSUME RegistryTypeOK, NEW i \in Nat
    PROVE  /\ Moved(i) \in Seq(CallType)
           /\ Len(Moved(i)) = Len(calls)
           /\ \A k \in 1..Len(calls) :
                 Moved(i)[k] = IF calls[k].phase = "args" /\ i <= calls[k].index
                               THEN [calls[k] EXCEPT !.shifts = @ + 1] ELSE calls[k]
<1>1. Len(calls) \in Nat /\ \A k \in 1..Len(calls) : calls[k] \in CallType
  BY SlotFacts
<1> DEFINE m == Len(calls)
           g(k) == IF calls[k].phase = "args" /\ i <= calls[k].index
                   THEN [calls[k] EXCEPT !.shifts = @ + 1] ELSE calls[k]
           f == [k \in 1..m |-> g(k)]
<1>2. Moved(i) = f
  BY DEF Moved
<1>3. \A k \in 1..m : g(k) \in CallType
  <2> TAKE k \in 1..m
  <2>1. calls[k] \in CallType
    BY <1>1
  <2> QED
    BY <2>1 DEF CallType
<1> HIDE DEF m, g
<1>4. m = Len(calls)
  BY DEF m
<1>5. f \in [1..m -> CallType] /\ DOMAIN f = 1..m
  BY <1>3
<1>6. m \in Nat
  BY <1>1, <1>4
<1>7. f \in Seq(CallType)
  BY <1>5, <1>6, SeqDef
<1>8. Len(f) = m
  BY <1>5, <1>6, <1>7, LenProperties
<1> QED
  BY <1>2, <1>4, <1>7, <1>8 DEF g

-----------------------------------------------------------------------------
(* The invariant, one lemma per action.                                    *)

LEMMA InitHolds == Init => RInv
<1> SUFFICES ASSUME Init PROVE RInv
  OBVIOUS
<1>1. Len(<<>>) = 0 /\ <<>> \in Seq(Entries) /\ <<>> \in Seq(CallType)
  BY EmptySeq
<1>2. Len(slots) = 0 /\ Len(calls) = 0 /\ count = 0
  BY <1>1 DEF Init
<1> QED
  BY <1>1, <1>2 DEF Init, RInv, RegistryTypeOK, Rising, Made, Ordered, CallsOK, Outside

(* An action that leaves the table alone and keeps the calls in order.     *)
LEMMA TableSame ==
    ASSUME RInv, UNCHANGED <<slots, count, made>>,
           calls' \in Seq(CallType), status' \in {"live", "destroyed", "undefined"},
           CallsOK', Outside'
    PROVE  RInv'
BY DEF RInv, RegistryTypeOK, Rising, Made, Ordered

LEMMA QuietStep ==
    ASSUME RInv, UNCHANGED <<slots, count, made, calls, status>>
    PROVE  RInv'
BY DEF RInv, RegistryTypeOK, Rising, Made, Ordered, CallsOK, Outside, Top

LEMMA RegisterStep == ASSUME RInv, NEW n \in Name, Register(n) PROVE RInv'
<1>1. /\ slots' = Added(n) /\ count' = count + 1 /\ made' = made + 1
      /\ calls' = calls /\ status' = status /\ status = "live"
  BY DEF Register, UserCode
<1>2. RegistryTypeOK /\ made \in Nat
  BY DEF RInv, RegistryTypeOK
<1>3. /\ Len(slots) \in Nat /\ count \in Nat /\ count <= Len(slots)
      /\ \A i \in 1..Len(slots) : slots[i] \in Entries /\ slots[i].fn \in Nat
      /\ Len(calls) \in Nat
      /\ \A k \in 1..Len(calls) : calls[k] \in CallType
  BY <1>2, SlotFacts
<1>4. /\ slots' \in Seq(Entries)
      /\ Len(slots') = count + 1
      /\ \A i \in 1..count : slots'[i] = slots[i]
      /\ slots'[count + 1].fn = made + 1
  <2>1. /\ Added(n) \in Seq(Entries)
        /\ Len(Added(n)) = count + 1
        /\ \A i \in 1..count : Added(n)[i] = slots[i]
        /\ Added(n)[count + 1] = [name |-> n, fn |-> made + 1]
    BY <1>2, AddedFacts
  <2>2. [name |-> n, fn |-> made + 1].fn = made + 1
    OBVIOUS
  <2> QED
    BY <1>1, <2>1, <2>2
<1>5. \A i \in 1..count : slots'[i].fn \in Nat /\ slots'[i].fn <= made
  BY <1>3, <1>4 DEF RInv, Made
<1>6. RegistryTypeOK'
  BY <1>1, <1>2, <1>3, <1>4 DEF RegistryTypeOK
<1>7. Made'
  BY <1>1, <1>2, <1>3, <1>4, <1>5 DEF Made
<1>8. Ordered'
  <2> SUFFICES ASSUME NEW i \in 1..(count + 1), NEW j \in 1..(count + 1), i < j
               PROVE  slots'[i].fn < slots'[j].fn
    BY <1>1 DEF Ordered
  <2>1. CASE j = count + 1
    BY <2>1, <1>2, <1>3, <1>4, <1>5
  <2>2. CASE j \in 1..count
    BY <2>2, <1>3, <1>4 DEF RInv, Ordered
  <2> QED
    BY <1>3, <2>1, <2>2
<1>9. Rising'
  <2> SUFFICES ASSUME NEW i \in 1..(count + 1), NEW j \in 1..(count + 1), i <= j
               PROVE  slots'[i].fn <= slots'[j].fn
    BY <1>4 DEF Rising
  <2>1. CASE i = j
    BY <2>1, <1>2, <1>3, <1>4, <1>5
  <2>2. CASE i < j
    BY <2>2, <1>1, <1>2, <1>3, <1>4, <1>5, <1>8 DEF Ordered
  <2> QED
    BY <1>3, <2>1, <2>2
<1>10. CallsOK'
  <2> SUFFICES ASSUME NEW k \in 1..Len(calls) PROVE CallOK(calls[k], slots', count', made')
    BY <1>1 DEF CallsOK
  <2> DEFINE c == calls[k]
  <2>1. CallOK(c, slots, count, made) /\ c \in CallType
    BY <1>3 DEF RInv, CallsOK
  <2>2. c.index \in Nat /\ c.shifts \in Nat /\ c.found \in Nat
    BY <2>1 DEF CallType
  <2> HIDE DEF c
  <2>3. ASSUME IndexOK(c, slots, count, made) PROVE IndexOK(c, slots', count', made')
    <3>1. c.index >= 1 /\ c.found <= made' /\ c.index <= count' + c.shifts
      BY <2>2, <2>3, <1>1, <1>2, <1>3 DEF IndexOK
    <3>2. c.shifts = 0 => slots'[c.index].fn = c.found
      BY <2>2, <2>3, <1>3, <1>4 DEF IndexOK
    <3>3. c.shifts >= 1 => c.index <= Len(slots') + c.shifts - 1
      BY <2>2, <2>3, <1>3, <1>4 DEF IndexOK
    <3>4. ASSUME c.index <= Len(slots') PROVE slots'[c.index].fn >= c.found
      <4>1. CASE c.index = count + 1
        BY <4>1, <2>2, <2>3, <1>2, <1>3, <1>4 DEF IndexOK
      <4>2. CASE c.index <= count
        BY <4>2, <2>2, <2>3, <1>3, <1>4 DEF IndexOK
      <4> QED
        BY <3>4, <2>2, <1>3, <1>4, <4>1, <4>2
    <3> QED
      BY <3>1, <3>2, <3>3, <3>4 DEF IndexOK
  <2>4. CallOK(c, slots', count', made')
    BY <2>1, <2>3 DEF CallOK
  <2> QED
    BY <2>4 DEF c
<1>11. Outside'
  BY <1>1 DEF Outside
<1> QED
  BY <1>6, <1>7, <1>8, <1>9, <1>10, <1>11 DEF RInv

LEMMA UnregisterStep == ASSUME RInv, NEW n \in Name, Unregister(n) PROVE RInv'
<1>1. PICK i \in 1..count : /\ slots' = Shifted(i)
                            /\ calls' = Moved(i)
  BY DEF Unregister, First
<1>2. count' = count - 1 /\ made' = made /\ status' = status /\ status = "live"
  BY DEF Unregister, UserCode
<1>3. RegistryTypeOK /\ made \in Nat
  BY DEF RInv, RegistryTypeOK
<1>4. /\ Len(slots) \in Nat /\ count \in Nat /\ count <= Len(slots)
      /\ \A j \in 1..Len(slots) : slots[j] \in Entries /\ slots[j].fn \in Nat
      /\ Len(calls) \in Nat
      /\ \A k \in 1..Len(calls) : calls[k] \in CallType
  BY <1>3, SlotFacts
<1>5. /\ slots' \in Seq(Entries)
      /\ Len(slots') = Len(slots)
      /\ \A j \in 1..Len(slots) :
            slots'[j] = IF i <= j /\ j < count THEN slots[j + 1] ELSE slots[j]
  BY <1>1, <1>3, ShiftedFacts
<1>6. /\ calls' \in Seq(CallType)
      /\ Len(calls') = Len(calls)
      /\ \A k \in 1..Len(calls) :
            calls'[k] = IF calls[k].phase = "args" /\ i <= calls[k].index
                        THEN [calls[k] EXCEPT !.shifts = @ + 1] ELSE calls[k]
  <2>1. i \in Nat
    BY <1>4
  <2> QED
    BY <1>1, <1>3, <2>1, MovedFacts
<1>7. RegistryTypeOK'
  BY <1>2, <1>3, <1>4, <1>5, <1>6 DEF RegistryTypeOK
<1>8. /\ \A j, k \in 1..Len(slots) : j <= k => slots[j].fn <= slots[k].fn
      /\ \A j, k \in 1..count : j < k => slots[j].fn < slots[k].fn
      /\ \A j \in 1..Len(slots) : slots[j].fn <= made
  BY DEF RInv, Rising, Ordered, Made
<1>9. \A j \in 1..Len(slots) : slots'[j].fn \in Nat /\ slots'[j].fn >= slots[j].fn /\ slots'[j].fn <= made
  <2> TAKE j \in 1..Len(slots)
  <2>1. CASE i <= j /\ j < count
    <3>1. j + 1 \in 1..Len(slots) /\ slots'[j] = slots[j + 1]
      BY <1>4, <1>5, <2>1
    <3> QED
      BY <1>4, <1>8, <3>1
  <2>2. CASE ~(i <= j /\ j < count)
    <3>1. slots'[j] = slots[j]
      BY <1>5, <2>2
    <3> QED
      BY <1>4, <1>8, <3>1
  <2> QED
    BY <2>1, <2>2
<1>10. Made'
  BY <1>2, <1>5, <1>9 DEF Made
<1>11. Ordered'
  <2> SUFFICES ASSUME NEW j \in 1..(count - 1), NEW k \in 1..(count - 1), j < k
               PROVE  slots'[j].fn < slots'[k].fn
    BY <1>2 DEF Ordered
  <2>1. j \in 1..count /\ k \in 1..count /\ j + 1 \in 1..count /\ k + 1 \in 1..count
    BY <1>4
  <2>2. /\ slots'[j] = IF i <= j THEN slots[j + 1] ELSE slots[j]
        /\ slots'[k] = IF i <= k THEN slots[k + 1] ELSE slots[k]
    BY <1>4, <1>5, <2>1
  <2> QED
    BY <1>4, <1>8, <2>1, <2>2
<1>12. Rising'
  <2> SUFFICES ASSUME NEW j \in 1..Len(slots), NEW k \in 1..Len(slots), j <= k
               PROVE  slots'[j].fn <= slots'[k].fn
    BY <1>5 DEF Rising
  <2>1. CASE j = k
    BY <2>1, <1>9
  <2>2. CASE j < k
    <3>1. slots'[j].fn <= slots[k].fn
      <4>1. slots'[j] = slots[j] \/ slots'[j] = slots[j + 1]
        BY <1>5
      <4>2. j + 1 \in 1..Len(slots) /\ j + 1 <= k
        BY <2>2, <1>4
      <4> QED
        BY <4>1, <4>2, <2>2, <1>8
    <3> QED
      BY <3>1, <1>4, <1>9
  <2> QED
    BY <1>4, <2>1, <2>2
<1>13. CallsOK'
  <2> SUFFICES ASSUME NEW k \in 1..Len(calls) PROVE CallOK(calls'[k], slots', count', made')
    BY <1>6 DEF CallsOK
  <2> DEFINE c == calls[k]
             d == calls'[k]
  <2>1. CallOK(c, slots, count, made) /\ c \in CallType
    BY <1>4 DEF RInv, CallsOK
  <2>2. /\ c.index \in Nat /\ c.shifts \in Nat /\ c.found \in Nat /\ c.fn \in Nat
    BY <2>1 DEF CallType
  <2>3. /\ d.form = c.form /\ d.phase = c.phase /\ d.index = c.index
        /\ d.found = c.found /\ d.fn = c.fn
        /\ d.shifts = IF c.phase = "args" /\ i <= c.index THEN c.shifts + 1 ELSE c.shifts
    BY <1>6, <2>1 DEF CallType
  <2> HIDE DEF c, d
  <2>4. ASSUME IndexOK(c, slots, count, made), c.phase = "args"
        PROVE  IndexOK(d, slots', count', made')
    <3>1. d.index >= 1 /\ d.found <= made'
      BY <2>4, <2>3, <1>2 DEF IndexOK
    <3>2. d.index <= count' + d.shifts
      BY <2>4, <2>2, <2>3, <1>2, <1>4 DEF IndexOK
    <3>3. d.shifts = 0 => slots'[d.index].fn = d.found
      BY <2>4, <2>2, <2>3, <1>4, <1>5 DEF IndexOK
    <3>4. d.shifts >= 1 => d.index <= Len(slots') + d.shifts - 1
      BY <2>4, <2>2, <2>3, <1>4, <1>5 DEF IndexOK
    <3>5. ASSUME d.index <= Len(slots') PROVE slots'[d.index].fn >= d.found
      <4>1. c.index \in 1..Len(slots) /\ slots[c.index].fn >= c.found
        BY <3>5, <2>4, <2>2, <2>3, <1>4, <1>5 DEF IndexOK
      <4>2. d.index = c.index /\ d.found = c.found
        BY <2>3
      <4>3. /\ slots[c.index].fn \in Nat /\ slots'[c.index].fn \in Nat /\ c.found \in Nat
            /\ slots'[c.index].fn >= slots[c.index].fn
        BY <4>1, <1>4, <1>9, <2>2
      <4>4. slots'[c.index].fn >= c.found
        BY <4>1, <4>3
      <4> QED
        BY <4>2, <4>4
    <3> QED
      BY <3>1, <3>2, <3>3, <3>4, <3>5 DEF IndexOK
  <2>5. CallOK(d, slots', count', made')
    BY <2>1, <2>3, <2>4 DEF CallOK
  <2> QED
    BY <2>5 DEF d
<1>14. Outside'
  BY <1>2 DEF Outside
<1> QED
  BY <1>7, <1>10, <1>11, <1>12, <1>13, <1>14 DEF RInv

LEMMA DestroyStep == ASSUME RInv, Destroy PROVE RInv'
<1>1. Len(<<>>) = 0 /\ <<>> \in Seq(Entries)
  BY EmptySeq
<1>2. Len(slots') = 0 /\ calls = <<>> /\ calls' = <<>> /\ count' = 0 /\ made' = made /\ status' = "destroyed"
  BY <1>1 DEF Destroy
<1> QED
  BY <1>1, <1>2 DEF Destroy, RInv, RegistryTypeOK, Rising, Made, Ordered, CallsOK, Outside

LEMMA BeginStep ==
    ASSUME RInv, NEW form \in {"statement", "subexpression"}, NEW n \in Name, Begin(form, n)
    PROVE  RInv'
<1>1. PICK i \in 1..count : calls' = Append(calls, Call(form, i))
  BY DEF Begin, First
<1>2. UNCHANGED <<slots, count, made, status>> /\ status = "live"
  BY DEF Begin, MayCall
<1>3. /\ RegistryTypeOK /\ CallsOK /\ calls \in Seq(CallType)
      /\ made \in Nat /\ \A j \in 1..Len(slots) : slots[j].fn <= made
  BY DEF RInv, RegistryTypeOK, Made
<1>4. /\ Len(slots) \in Nat /\ count \in Nat /\ count <= Len(slots)
      /\ \A j \in 1..Len(slots) : slots[j] \in Entries /\ slots[j].fn \in Nat
      /\ Len(calls) \in Nat
  BY <1>3, SlotFacts
<1>5. Call(form, i) \in CallType
  BY <1>4 DEF Call, CallType
<1>6. CallOK(Call(form, i), slots, count, made)
  BY <1>3, <1>4 DEF Call, CallOK, IndexOK
<1>7. /\ calls' \in Seq(CallType)
      /\ Len(calls') = Len(calls) + 1
      /\ \A k \in 1..Len(calls) : calls'[k] = calls[k]
      /\ calls'[Len(calls) + 1] = Call(form, i)
  BY <1>1, <1>3, <1>5, AppendProperties
<1>8. CallsOK'
  BY <1>2, <1>3, <1>4, <1>6, <1>7 DEF CallsOK
<1> QED
  BY <1>2, <1>3, <1>7, <1>8, TableSame DEF RegistryTypeOK, Outside

LEMMA InvokeStep == ASSUME RInv, Invoke PROVE RInv'
<1>1. /\ UNCHANGED <<slots, count, made, status>> /\ status = "live"
      /\ calls # <<>> /\ Top.phase = "args"
  BY DEF Invoke, Evaluated
<1>2. /\ RegistryTypeOK /\ CallsOK /\ calls \in Seq(CallType)
  BY DEF RInv, RegistryTypeOK
<1>3. /\ Len(slots) \in Nat
      /\ \A j \in 1..Len(slots) : slots[j].fn \in Nat
      /\ Len(calls) \in Nat /\ Len(calls) >= 1
      /\ \A k \in 1..Len(calls) : calls[k] \in CallType
  BY <1>1, <1>2, SlotFacts, EmptySeq
<1> DEFINE m == Len(calls)
           c == calls[m]
<1>4. c \in CallType /\ CallOK(c, slots, count, made) /\ c.phase = "args"
  BY <1>1, <1>2, <1>3 DEF CallsOK, Top
<1>5. PICK d \in CallType : calls' = [calls EXCEPT ![m] = d] /\ CallOK(d, slots, count, made)
  <2>1. CASE Top.form = "statement"
    <3> DEFINE d == [c EXCEPT !.phase = "running"]
    <3>1. calls' = [calls EXCEPT ![m] = d]
      BY <2>1, <1>3 DEF Invoke, Top
    <3>2. d \in CallType
      BY <1>4 DEF CallType
    <3>3. CallOK(d, slots, count, made)
      BY <1>4, <2>1 DEF CallOK, Top, CallType
    <3> QED
      BY <3>1, <3>2, <3>3
  <2>2. CASE Top.form = "subexpression" /\ Top.index <= Len(slots)
    <3> DEFINE d == [c EXCEPT !.phase = "running", !.fn = slots[c.index].fn]
    <3>1. calls' = [calls EXCEPT ![m] = d]
      BY <2>2, <1>3 DEF Invoke, Top
    <3>2. IndexOK(c, slots, count, made) /\ c.index \in 1..Len(slots)
      BY <1>3, <1>4, <2>2 DEF CallOK, IndexOK, Top, CallType
    <3>3. d \in CallType
      BY <1>3, <1>4, <3>2 DEF CallType
    <3>4. CallOK(d, slots, count, made)
      BY <1>4, <2>2, <3>2 DEF CallOK, IndexOK, Top, CallType
    <3> QED
      BY <3>1, <3>3, <3>4
  <2> QED
    BY <2>1, <2>2 DEF Invoke
<1>6. /\ calls' \in Seq(CallType)
      /\ Len(calls') = Len(calls)
      /\ \A k \in 1..Len(calls) : calls'[k] = IF k = m THEN d ELSE calls[k]
  BY <1>2, <1>3, <1>5, ExceptSeq
<1>7. CallsOK'
  BY <1>1, <1>2, <1>3, <1>5, <1>6 DEF CallsOK
<1> QED
  BY <1>1, <1>2, <1>6, <1>7, TableSame DEF RegistryTypeOK, Outside

LEMMA InvokeOutsideStep == ASSUME RInv, InvokeOutside PROVE RInv'
<1>1. /\ UNCHANGED <<slots, count, made, calls>> /\ status' = "undefined" /\ calls # <<>>
      /\ Top.phase = "args" /\ Top.form = "subexpression" /\ Top.index > Len(slots)
  BY DEF InvokeOutside, Evaluated
<1>2. RegistryTypeOK /\ CallsOK /\ calls \in Seq(CallType)
  BY DEF RInv, RegistryTypeOK
<1>3. /\ Len(slots) \in Nat /\ count \in Nat /\ count <= Len(slots)
      /\ Len(calls) \in Nat /\ Len(calls) >= 1 /\ Top \in CallType
  BY <1>1, <1>2, SlotFacts, EmptySeq DEF Top
<1>4. IndexOK(Top, slots, count, made)
  BY <1>1, <1>2, <1>3 DEF CallsOK, CallOK, Top
<1>5. Top.shifts >= 2
  BY <1>1, <1>3, <1>4 DEF IndexOK, CallType
<1>6. Outside' /\ CallsOK'
  BY <1>1, <1>2, <1>5 DEF Outside, Top, CallsOK
<1> QED
  BY <1>1, <1>2, <1>6, TableSame

LEMMA ReturnStep == ASSUME RInv, ReturnCall PROVE RInv'
<1>1. /\ UNCHANGED <<slots, count, made, status>> /\ status = "live" /\ calls # <<>>
      /\ calls' = SubSeq(calls, 1, Len(calls) - 1)
  BY DEF ReturnCall
<1>2. RegistryTypeOK /\ CallsOK /\ calls \in Seq(CallType)
  BY DEF RInv, RegistryTypeOK
<1> DEFINE m == Len(calls)
<1>3. m \in Nat /\ m >= 1 /\ \A k \in 1..m : calls[k] \in CallType
  BY <1>1, <1>2, SlotFacts, EmptySeq
<1> DEFINE f == SubSeq(calls, 1, m - 1)
<1>4. calls' = f
  BY <1>1
<1> HIDE DEF m
<1>5. \A k \in 1..(m - 1) : calls[k] \in CallType
  BY <1>3
<1>6. /\ f \in Seq(CallType)
      /\ Len(f) = IF 1 <= m - 1 THEN m - 1 - 1 + 1 ELSE 0
      /\ \A k \in 1..(m - 1 - 1 + 1) : f[k] = calls[1 + k - 1]
  BY <1>3, <1>5, SubSeqProperties
<1> HIDE DEF f
<1>7. /\ calls' \in Seq(CallType) /\ Len(calls') = m - 1
      /\ \A k \in 1..(m - 1) : calls'[k] = calls[k]
  BY <1>4, <1>3, <1>6
<1>8. CallsOK'
  BY <1>1, <1>2, <1>3, <1>7 DEF CallsOK, m
<1> QED
  BY <1>1, <1>2, <1>7, <1>8, TableSame DEF RegistryTypeOK, Outside

-----------------------------------------------------------------------------
(* The theorems.                                                           *)

LEMMA StepHolds == ASSUME RInv, [Next]_vars PROVE RInv'
<1>1. ASSUME NEW n \in Name, Register(n) PROVE RInv'
  BY <1>1, RegisterStep
<1>2. ASSUME NEW n \in Name, Unregister(n) PROVE RInv'
  BY <1>2, UnregisterStep
<1>3. ASSUME NEW n \in Name, UnregisterUnknown(n) \/ FindNone(n) PROVE RInv'
  BY <1>3, QuietStep DEF UnregisterUnknown, FindNone
<1>4. ASSUME NEW n \in Name, Begin("statement", n) \/ Begin("subexpression", n) PROVE RInv'
  BY <1>4, BeginStep
<1>5. CASE Invoke
  BY <1>5, InvokeStep
<1>6. CASE InvokeOutside
  BY <1>6, InvokeOutsideStep
<1>7. CASE ReturnCall
  BY <1>7, ReturnStep
<1>8. CASE Destroy
  BY <1>8, DestroyStep
<1>9. CASE UNCHANGED vars
  BY <1>9, QuietStep DEF vars
<1> QED
  BY <1>1, <1>2, <1>3, <1>4, <1>5, <1>6, <1>7, <1>8, <1>9 DEF Next

(* The inductive invariant holds throughout.                               *)
THEOREM TableInvariant == Spec => []RInv
BY InitHolds, StepHolds, PTL DEF Spec

(* A helper that is called is the one its name was found at unless its     *)
(* arguments made a removal at or below its index, and then a later one:   *)
(* evaluate_node of src/render.c, for any table and any nesting of calls.  *)
THEOREM Dispatched == Spec => []DispatchedAsFound
<1>1. RInv => DispatchedAsFound
  BY DEF RInv, CallsOK, CallOK, DispatchedAsFound
<1> QED
  BY <1>1, TableInvariant, PTL

(* The table is only read outside its allocation (helpers[i].fn in         *)
(* evaluate_node) by a call whose arguments made at least two removals at  *)
(* or below the index that was found for it, however many registrations    *)
(* and further calls came in between.                                      *)
THEOREM Inside == Spec => []ReadsInside
<1>1. RInv => ReadsInside
  BY DEF RInv, Outside, ReadsInside
<1> QED
  BY <1>1, TableInvariant, PTL

(* The count never exceeds the entries that are allocated.                 *)
THEOREM TableTyped == Spec => []RegistryTypeOK
<1>1. RInv => RegistryTypeOK
  BY DEF RInv
<1> QED
  BY <1>1, TableInvariant, PTL

(* The live entries are in the order of their registration, hence distinct. *)
THEOREM InOrder == Spec => []Ordered
<1>1. RInv => Ordered
  BY DEF RInv
<1> QED
  BY <1>1, TableInvariant, PTL


-----------------------------------------------------------------------------
(* The array and what NameTable promises.                                  *)

(* The entries of a search, in an array whose live entries are in order.   *)
LEMMA TableFacts ==
    ASSUME RInv
    PROVE  /\ count \in Nat /\ Len(slots) \in Nat /\ count <= Len(slots) /\ made \in Nat
           /\ \A i \in 1..count : slots[i].fn \in Nat /\ slots[i].fn <= made
           /\ \A i, j \in 1..count : i < j => slots[i].fn < slots[j].fn
<1>1. RegistryTypeOK /\ Made /\ Ordered /\ made \in Nat
  BY DEF RInv, RegistryTypeOK
<1> QED
  BY <1>1, SlotFacts DEF Made, Ordered

(* What a search finds is the oldest registration.                         *)
LEMMA FirstIsOldest ==
    ASSUME RInv, NEW n, NEW i \in First(n)
    PROVE  /\ i \in 1..count /\ slots[i].name = n /\ slots[i].fn \in Registrations(n)
           /\ \A s \in Registrations(n) : slots[i].fn <= s
<1>1. i \in 1..count /\ slots[i].name = n /\ \A j \in 1..(i - 1) : slots[j].name # n
  BY DEF First
<1>2. ASSUME NEW j \in 1..count, slots[j].name = n PROVE slots[i].fn <= slots[j].fn
  <2>1. i = j \/ i < j
    BY <1>1, <1>2, TableFacts
  <2> QED
    BY <1>1, <2>1, TableFacts
<1> QED
  BY <1>1, <1>2 DEF Registrations

(* A search that finds nothing: there is nothing.                          *)
LEMMA NoneFound ==
    ASSUME RInv, NEW n, First(n) = {}
    PROVE  Registrations(n) = {}
<1> DEFINE S == {i \in 1..count : slots[i].name = n}
<1>1. SUFFICES ASSUME S # {} PROVE FALSE
  BY DEF Registrations
<1>2. S \in SUBSET Nat /\ count \in Nat
  BY TableFacts
<1>3. PICK m \in S : \A k \in S : <<k, m>> \notin OpToRel(<, Nat)
  BY <1>1, <1>2, WFMin, NatLessThanWellFounded
<1>4. \A k \in S : ~(k < m)
  BY <1>2, <1>3 DEF OpToRel
<1>5. m \in 1..count /\ slots[m].name = n
  OBVIOUS
<1>6. ASSUME NEW j \in 1..(m - 1) PROVE slots[j].name # n
  <2>1. j \in 1..count /\ j < m
    BY <1>2, <1>5
  <2> QED
    BY <1>4, <2>1
<1>7. m \in First(n)
  BY <1>5, <1>6 DEF First
<1> QED
  BY <1>7

LEMMA RegisterTable ==
    ASSUME RInv, NEW n \in Name, Register(n)
    PROVE  /\ \A m : Registrations(m)' = IF m = n THEN Registrations(m) \cup {made + 1}
                                                  ELSE Registrations(m)
           /\ \A m : \A s \in Registrations(m) : s < made + 1
<1>1. slots' = Added(n) /\ count' = count + 1
  BY DEF Register
<1>2. /\ \A i \in 1..count : slots'[i] = slots[i]
      /\ slots'[count + 1] = [name |-> n, fn |-> made + 1]
  BY <1>1, AddedFacts DEF RInv
<1>3. \A m : \A s \in Registrations(m) : s < made + 1
  BY TableFacts DEF Registrations
<1>4. ASSUME NEW m
      PROVE  Registrations(m)' = IF m = n THEN Registrations(m) \cup {made + 1} ELSE Registrations(m)
  <2> DEFINE S == {j \in 1..count : slots[j].name = m}
             T == {j \in 1..(count + 1) : slots'[j].name = m}
  <2>1. slots'[count + 1].name = n /\ slots'[count + 1].fn = made + 1
    BY <1>2
  <2>2. 1..(count + 1) = (1..count) \cup {count + 1} /\ count + 1 \notin 1..count
    BY TableFacts
  <2>3. T = IF m = n THEN S \cup {count + 1} ELSE S
    BY <1>2, <2>1, <2>2
  <2>4. Registrations(m)' = {slots'[i].fn : i \in T} /\ Registrations(m) = {slots[i].fn : i \in S}
    BY <1>1 DEF Registrations
  <2>5. \A i \in S : slots'[i].fn = slots[i].fn
    BY <1>2
  <2> HIDE DEF S, T
  <2> QED
    BY <2>1, <2>3, <2>4, <2>5
<1> QED
  BY <1>3, <1>4

LEMMA UnregisterTable ==
    ASSUME RInv, NEW n, NEW i \in First(n), slots' = Shifted(i), count' = count - 1
    PROVE  \A m : Registrations(m)' = IF m = n THEN Registrations(m) \ {slots[i].fn}
                                               ELSE Registrations(m)
<1>1. i \in 1..count /\ slots[i].name = n
  BY FirstIsOldest
<1>2. \A j \in 1..(count - 1) : slots'[j] = IF i <= j THEN slots[j + 1] ELSE slots[j]
  BY <1>1, ShiftedFacts, TableFacts DEF RInv
<1>3. /\ count \in Nat
      /\ \A j, k \in 1..count : j < k => slots[j].fn < slots[k].fn
      /\ \A j \in 1..count : slots[j].fn \in Nat
  BY TableFacts
<1>4. \A j \in 1..count : slots[j].fn = slots[i].fn <=> j = i
  BY <1>1, <1>3
<1> SUFFICES ASSUME NEW m
             PROVE  Registrations(m)' = IF m = n THEN Registrations(m) \ {slots[i].fn}
                                                 ELSE Registrations(m)
  OBVIOUS
<1>5. Registrations(m) = {slots[j].fn : j \in {k \in 1..count : slots[k].name = m}}
      /\ Registrations(m)' = {slots'[j].fn : j \in {k \in 1..(count - 1) : slots'[k].name = m}}
  BY DEF Registrations
<1>6. ASSUME NEW f \in Registrations(m)'
      PROVE  f \in Registrations(m) /\ f # slots[i].fn
  <2>1. PICK j \in 1..(count - 1) : slots'[j].name = m /\ f = slots'[j].fn
    BY <1>5
  <2>2. PICK k \in 1..count : k # i /\ slots'[j] = slots[k]
    <3>1. CASE i <= j
      BY <1>1, <1>2, <1>3, <3>1
    <3>2. CASE ~(i <= j)
      BY <1>1, <1>2, <1>3, <3>2
    <3> QED
      BY <3>1, <3>2
  <2> QED
    BY <1>4, <1>5, <2>1, <2>2
<1>7. ASSUME NEW f \in Registrations(m), f # slots[i].fn
      PROVE  f \in Registrations(m)'
  <2>1. PICK k \in 1..count : slots[k].name = m /\ f = slots[k].fn
    BY <1>5
  <2>2. k # i
    BY <1>7, <2>1
  <2>3. PICK j \in 1..(count - 1) : slots'[j] = slots[k]
    <3>1. CASE k < i
      <4>1. k \in 1..(count - 1) /\ ~(i <= k)
        BY <1>1, <1>3, <3>1
      <4> QED
        BY <1>2, <4>1
    <3>2. CASE ~(k < i)
      <4>1. k - 1 \in 1..(count - 1) /\ i <= k - 1 /\ (k - 1) + 1 = k
        BY <1>1, <1>3, <2>2, <3>2
      <4> QED
        BY <1>2, <4>1
    <3> QED
      BY <3>1, <3>2
  <2> QED
    BY <1>5, <2>1, <2>3
<1>8. m # n => slots[i].fn \notin Registrations(m)
  BY <1>1, <1>4, <1>5
<1> QED
  BY <1>6, <1>7, <1>8


(* One step of the environment is one step of the table, or none.          *)
LEMMA TableStep ==
    ASSUME RInv, [Next]_vars
    PROVE  [Table!Next]_<<[n \in Name |-> Registrations(n)], answer>>
<1> DEFINE tab == [n \in Name |-> Registrations(n)]
<1>1. ASSUME NEW n \in Name, Register(n) PROVE Table!Next
  <2>1. made < MaxRegistrations /\ answer' = [op |-> "register", name |-> <<n>>, about |-> <<made + 1>>]
    BY <1>1 DEF Register, Tell
  <2>2. made + 1 \in 1..MaxRegistrations
    BY <2>1, BoundAssumption, TableFacts
  <2>3. /\ \A m \in Name : \A s \in Registrations(m) : s < made + 1
        /\ tab' = [tab EXCEPT ![n] = @ \cup {made + 1}]
    BY <1>1, RegisterTable
  <2>4. Table!Register(n, made + 1)
    BY <2>1, <2>3 DEF Table!Register, Table!Tell
  <2> QED
    BY <2>2, <2>4 DEF Table!Next
<1>2. ASSUME NEW n \in Name, Unregister(n) PROVE Table!Next
  <2>1. PICK i \in First(n) : /\ slots' = Shifted(i)
                              /\ answer' = [op |-> "unregister", name |-> <<n>>, about |-> <<slots[i].fn>>]
    BY <1>2 DEF Unregister, Tell
  <2>2. count' = count - 1
    BY <1>2 DEF Unregister
  <2>3. tab' = [tab EXCEPT ![n] = @ \ {slots[i].fn}]
    BY <2>1, <2>2, UnregisterTable
  <2>4. slots[i].fn \in Table!Oldest(n)
    BY FirstIsOldest DEF Table!Oldest
  <2>5. Table!Unregister(n)
    BY <2>1, <2>3, <2>4 DEF Table!Unregister, Table!Tell
  <2> QED
    BY <2>5 DEF Table!Next
<1>3. ASSUME UNCHANGED <<slots, count>> PROVE tab' = tab
  BY <1>3 DEF Registrations
<1>4. ASSUME NEW n \in Name, NEW op \in {"unregister", "lookup"}, First(n) = {}, Tell(op, <<n>>, <<>>),
             UNCHANGED <<slots, count>>
      PROVE  Table!Next
  <2>1. Registrations(n) = {}
    BY <1>4, NoneFound
  <2>2. Table!NotFound(op, n)
    BY <1>3, <1>4, <2>1 DEF Table!NotFound, Table!Tell, Tell
  <2> QED
    BY <1>4, <2>2 DEF Table!Next
<1>5. ASSUME NEW n \in Name, NEW form, Begin(form, n) PROVE Table!Next
  <2>1. PICK i \in First(n) : answer' = [op |-> "lookup", name |-> <<n>>, about |-> <<slots[i].fn>>]
    BY <1>5 DEF Begin, Tell
  <2>2. tab' = tab
    BY <1>3, <1>5 DEF Begin
  <2>3. slots[i].fn \in Table!Oldest(n)
    BY FirstIsOldest DEF Table!Oldest
  <2>4. Table!Lookup(n)
    BY <2>1, <2>2, <2>3 DEF Table!Lookup, Table!Tell
  <2> QED
    BY <2>4 DEF Table!Next
<1>6. ASSUME Destroy PROVE Table!Next
  <2>1. count' = 0 /\ answer' = [op |-> "destroy", name |-> <<>>, about |-> <<>>]
    BY <1>6 DEF Destroy, Tell
  <2>2. tab' = [n \in Name |-> {}]
    BY <2>1 DEF Registrations
  <2> QED
    BY <2>1, <2>2 DEF Table!Next, Table!Destroy, Table!Empty, Table!Tell
<1>7. ASSUME UNCHANGED <<slots, count, answer>> PROVE UNCHANGED <<tab, answer>>
  BY <1>3, <1>7
<1>8. CASE Next
  <2>1. ASSUME NEW n \in Name, UnregisterUnknown(n) PROVE Table!Next
    BY <1>4, <2>1 DEF UnregisterUnknown
  <2>2. ASSUME NEW n \in Name, FindNone(n) PROVE Table!Next
    BY <1>4, <2>2 DEF FindNone
  <2>3. CASE Invoke \/ InvokeOutside \/ ReturnCall
    BY <1>7, <2>3 DEF Invoke, InvokeOutside, ReturnCall
  <2> HIDE DEF tab
  <2> QED
    BY <1>1, <1>2, <1>5, <1>6, <1>8, <2>1, <2>2, <2>3 DEF Next, tab
<1>9. CASE UNCHANGED vars
  BY <1>7, <1>9 DEF vars
<1> QED
  BY <1>8, <1>9

LEMMA TableStarts == Init => Table!Init
<1> SUFFICES ASSUME Init PROVE Table!Init
  OBVIOUS
<1>1. \A n : Registrations(n) = {}
  BY DEF Init, Registrations
<1> QED
  BY <1>1 DEF Init, Table!Init, Table!Empty

(* The array of an environment, whatever is registered, unregistered and   *)
(* looked up in it, serves the registrations of every name in their order: *)
(* it implements the abstract table.                                       *)
THEOREM Implements == Spec => ImplementsTable
<1>1. RInv /\ [Next]_vars => [Table!Next]_<<[n \in Name |-> Registrations(n)], answer>>
  BY TableStep
<1> QED
  BY TableStarts, TableInvariant, <1>1, PTL DEF Spec, ImplementsTable, Table!Spec

=============================================================================
