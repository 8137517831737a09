------------------------- MODULE DetectionWindowProofs -------------------------
(***************************************************************************)
(* Proof that a cooldown key lets one detection through per window         *)
(* (cooldown.py), by counting.                                             *)
(***************************************************************************)
EXTENDS DetectionEngineProofs, FiniteSetTheorems

\* A detection that was let through: won, in flight or delivered.
Through(d) ==
  Det(d) \in delivered \/ \E s \in Streams : d \in won[s] \/ Det(d) \in outbox[s]
LetThrough(k) == {d \in Ids : CooldownKey(d) = k /\ Through(d)}

\* How many the key has let through: one per expired window, and one for the current.
Slots(k) == expired[k] + (IF cool[k] = NotSet THEN 0 ELSE 1)

WindowOK ==
  \A k \in CooldownKeys :
    IsFiniteSet(LetThrough(k)) /\ Cardinality(LetThrough(k)) <= Slots(k)

\* Without failed sends no claim is given back.
NoRelease == \A s \in Streams : phase[s] # "release"
Windowed == WindowOK /\ NoRelease

\* Initially nothing was let through.
LEMMA InitWindowed == Init => Windowed
<1> SUFFICES ASSUME Init PROVE Windowed
  OBVIOUS
<1>1. \A k \in CooldownKeys : LetThrough(k) = {} /\ Slots(k) = 0
  BY DEF Init, LetThrough, Through, Slots
<1>2. NoRelease
  BY DEF Init, NoRelease
<1> QED
  BY <1>1, <1>2, FS_EmptySet DEF Windowed, WindowOK

\* A step that lets nothing more through and takes no slot back.
LEMMA NothingThrough ==
  ASSUME TypeOK, TypeOK', WindowOK, \A d \in Ids : Through(d)' => Through(d),
         \A k \in CooldownKeys : Slots(k)' = Slots(k)
  PROVE  WindowOK'
<1> SUFFICES ASSUME NEW k \in CooldownKeys
             PROVE  IsFiniteSet(LetThrough(k)') /\ Cardinality(LetThrough(k)') <= Slots(k)'
  BY DEF WindowOK
<1>1. IsFiniteSet(LetThrough(k)) /\ Cardinality(LetThrough(k)) <= Slots(k)
  BY DEF WindowOK
<1>2. LetThrough(k)' \in SUBSET LetThrough(k)
  BY DEF LetThrough
<1>3. IsFiniteSet(LetThrough(k)') /\ Cardinality(LetThrough(k)') <= Cardinality(LetThrough(k))
  BY <1>1, <1>2, FS_Subset
<1>4. Cardinality(LetThrough(k)) \in Nat /\ Cardinality(LetThrough(k)') \in Nat
  BY <1>1, <1>3, FS_CardinalityType
<1>5. Slots(k) \in Nat /\ Slots(k)' = Slots(k)
  BY DEF Slots, TypeOK
<1> QED
  BY <1>1, <1>3, <1>4, <1>5

\* One more element makes a finite set larger by at most one.
LEMMA AddOne ==
  ASSUME NEW S, IsFiniteSet(S), NEW x
  PROVE  IsFiniteSet(S \cup {x}) /\ Cardinality(S \cup {x}) <= Cardinality(S) + 1
<1>1. /\ IsFiniteSet(S \cup {x})
      /\ Cardinality(S \cup {x}) = IF x \in S THEN Cardinality(S) ELSE Cardinality(S) + 1
  BY FS_AddElement, Zenon
<1>2. Cardinality(S) \in Nat
  BY FS_CardinalityType, Zenon
<1> QED
  BY <1>1, <1>2

\* A claim lets a detection through only when the key is free, and then takes it.
LEMMA ClaimWindowed ==
  ASSUME TypeOK, TypeOK', Windowed, NEW s \in Streams, NEW d \in cand[s], Claim(s, d)
  PROVE  WindowOK'
<1> DEFINE key == CooldownKey(d)
<1>1. d \in Ids /\ key \in CooldownKeys
  BY IdType DEF TypeOK
<1>2. CASE cool[key] # NotSet
  <2>1. UNCHANGED <<won, cool, outbox, delivered, expired>>
    BY <1>1, <1>2 DEF Claim, SetNx, env, TypeOK
  <2> QED
    BY <2>1, NothingThrough DEF Windowed, Through, Slots
<1>3. CASE cool[key] = NotSet
  <2> SUFFICES ASSUME NEW k \in CooldownKeys
               PROVE  IsFiniteSet(LetThrough(k)') /\ Cardinality(LetThrough(k)') <= Slots(k)'
    BY DEF WindowOK
  <2>1. IsFiniteSet(LetThrough(k)) /\ Cardinality(LetThrough(k)) <= Slots(k)
    BY DEF Windowed, WindowOK
  <2>2. Cardinality(LetThrough(k)) \in Nat /\ expired[k] \in Nat
    BY <2>1, FS_CardinalityType DEF TypeOK
  <2>3. \A c \in Ids : Through(c)' => Through(c) \/ c = d
    BY <1>3 DEF Through, Claim, TypeOK
  <2>4. CASE k # key
    <3>1. Slots(k)' = Slots(k)
      BY <2>4 DEF Slots, Claim, env, TypeOK
    <3>2. LetThrough(k)' \in SUBSET LetThrough(k)
      BY <2>3, <2>4 DEF LetThrough
    <3>3. IsFiniteSet(LetThrough(k)') /\ Cardinality(LetThrough(k)') <= Cardinality(LetThrough(k))
      BY <2>1, <3>2, FS_Subset
    <3>4. Cardinality(LetThrough(k)') \in Nat /\ Slots(k) \in Nat
      BY <3>3, <2>2, FS_CardinalityType DEF Slots
    <3> QED
      BY <2>1, <2>2, <3>1, <3>3, <3>4
  <2>5. CASE k = key
    <3>1. Slots(k) = expired[k] /\ Slots(k)' = expired[k] + 1
      BY <1>1, <1>3, <2>2, <2>5, NotSetAssumption DEF Slots, Claim, SetNx, env, TypeOK
    <3>2. LetThrough(k)' \in SUBSET (LetThrough(k) \cup {d})
      BY <2>3 DEF LetThrough
    <3>3. /\ IsFiniteSet(LetThrough(k) \cup {d})
          /\ Cardinality(LetThrough(k) \cup {d}) <= Cardinality(LetThrough(k)) + 1
      BY <2>1, AddOne, Zenon
    <3>4. /\ IsFiniteSet(LetThrough(k)')
          /\ Cardinality(LetThrough(k)') <= Cardinality(LetThrough(k) \cup {d})
      BY <3>2, <3>3, FS_Subset
    <3>5. Cardinality(LetThrough(k)') \in Nat /\ Cardinality(LetThrough(k) \cup {d}) \in Nat
      BY <3>3, <3>4, FS_CardinalityType
    <3> QED
      BY <2>1, <2>2, <3>1, <3>3, <3>4, <3>5
  <2> QED
    BY <2>4, <2>5
<1> QED
  BY <1>2, <1>3

\* The other steps of a consumer process move what was let through.
LEMMA WorkWindowed ==
  ASSUME TypeOK, TypeOK', Windowed, NEW s \in Streams, Work(s)
  PROVE  Windowed'
<1>1. NoRelease'
  <2>1. UNCHANGED phase \/ \E p \in {"poll", "enforce", "run", "flush", "commit"} : Goto(s, p)
    BY ZenonT(60) DEF Work, Poll, Exists, Enforce, CheckTx, CheckAuth, Checked, Claim, Emit, FlushOk,
       Release, Restart, Commit
  <2> QED
    BY <2>1 DEF Windowed, NoRelease, TypeOK, Goto
<1>2. ASSUME NEW d \in cand[s], Claim(s, d) PROVE WindowOK'
  BY <1>2, ClaimWindowed
<1>3. CASE \/ Poll(s) \/ Enforce(s) \/ Emit(s) \/ FlushOk(s) \/ Commit(s)
           \/ \E r \in look[s] : Exists(s, r)
           \/ \E r \in todo[s] : CheckTx(s, r) \/ CheckAuth(s, r)
  <2>1. UNCHANGED <<cool, expired>>
    BY <1>3 DEF Poll, Exists, Enforce, CheckTx, CheckAuth, Checked, Emit, FlushOk, Commit, env
  <2>2. \A k \in CooldownKeys : Slots(k)' = Slots(k)
    BY <2>1 DEF Slots
  <2>3. \A d \in Ids : Through(d)' => Through(d)
    <3>1. CASE Enforce(s)
      BY <3>1, RefusedIsNotDet DEF Through, Enforce, TypeOK
    <3>2. CASE Emit(s)
      BY <3>2, DetIsDet DEF Through, Emit, work, TypeOK
    <3>3. CASE FlushOk(s)
      BY <3>3 DEF Through, FlushOk, work, TypeOK
    <3>4. CASE Commit(s)
      BY <3>4 DEF Through, Commit, TypeOK
    <3>5. CASE \/ Poll(s) \/ \E r \in look[s] : Exists(s, r)
               \/ \E r \in todo[s] : CheckTx(s, r) \/ CheckAuth(s, r)
      <4>1. UNCHANGED <<won, outbox, delivered>>
        BY <3>5 DEF Poll, Exists, CheckTx, CheckAuth, Checked
      <4> QED
        BY <4>1 DEF Through
    <3> QED
      BY <1>3, <3>1, <3>2, <3>3, <3>4, <3>5
  <2> QED
    BY <1>1, <2>2, <2>3, NothingThrough DEF Windowed
<1>4. ~Release(s)
  BY DEF Windowed, NoRelease, Release
<1> QED
  BY <1>1, <1>2, <1>3, <1>4 DEF Windowed, Work

\* A crash or a Redis failure drops claims but leaves the keys.
LEMMA BreakWindowed ==
  ASSUME "produce" \notin Faults, TypeOK, TypeOK', Windowed, NEW s \in Streams, Break(s)
  PROVE  Windowed'
<1>1. ~FlushFails(s)
  BY DEF FlushFails, Fault
<1>2. RedisFails(s) \/ Crash(s)
  BY <1>1 DEF Break
<1>3. \A k \in CooldownKeys : Slots(k)' = Slots(k)
  BY <1>2 DEF Slots, RedisFails, Crash, env
<1>4. \A d \in Ids : Through(d)' => Through(d)
  <2>1. PICK got \in SUBSET outbox[s] : delivered' = delivered \cup got
    BY <1>2 DEF RedisFails, Crash
  <2>2. \A t \in Streams : outbox'[t] \subseteq outbox[t] /\ won'[t] \subseteq won[t]
    <3>1. /\ outbox' = [outbox EXCEPT ![s] = {}] /\ won' = [won EXCEPT ![s] = {}]
          /\ outbox \in [Streams -> SUBSET Messages] /\ won \in [Streams -> SUBSET Ids]
      BY <1>2 DEF RedisFails, Crash, TypeOK
    <3> QED
      BY <3>1
  <2> QED
    BY <2>1, <2>2 DEF Through
<1>5. NoRelease'
  BY <1>2 DEF Windowed, NoRelease, RedisFails, Restart, Crash, Goto, TypeOK
<1> QED
  BY <1>3, <1>4, <1>5, NothingThrough DEF Windowed

\* An expiry turns the slot that was taken into an expired one.
LEMMA ExpireWindowed ==
  ASSUME TypeOK, TypeOK', Windowed, NEW k \in CooldownKeys, Expire(k)
  PROVE  Windowed'
<1>1. \A j \in CooldownKeys : Slots(j)' = Slots(j)
  BY DEF Expire, Slots, TypeOK
<1> QED
  BY <1>1, NothingThrough DEF Windowed, NoRelease, Through, Expire, work

\* Other steps touch none of this.
LEMMA FrameWindowed ==
  ASSUME TypeOK, TypeOK', Windowed, UNCHANGED <<phase, won, outbox, delivered, cool, expired>>
  PROVE  Windowed'
  BY NothingThrough DEF Windowed, NoRelease, Through, Slots

\* What was delivered was let through.
LEMMA WindowedImplies ==
  ASSUME TypeOK, Windowed
  PROVE  OnePerWindow
<1> SUFFICES ASSUME NEW k \in CooldownKeys
             PROVE  Cardinality({d \in Ids : CooldownKey(d) = k /\ Det(d) \in delivered})
                      <= 1 + expired[k]
  BY DEF OnePerWindow
<1> DEFINE S == {d \in Ids : CooldownKey(d) = k /\ Det(d) \in delivered}
<1>1. IsFiniteSet(LetThrough(k)) /\ Cardinality(LetThrough(k)) <= Slots(k)
  BY DEF Windowed, WindowOK
<1>2. S \in SUBSET LetThrough(k)
  BY DEF LetThrough, Through
<1> HIDE DEF S
<1>3. IsFiniteSet(S) /\ Cardinality(S) <= Cardinality(LetThrough(k))
  BY <1>1, <1>2, FS_Subset
<1>4. Cardinality(S) \in Nat /\ Cardinality(LetThrough(k)) \in Nat
  BY <1>1, <1>3, FS_CardinalityType
<1>5. expired[k] \in Nat /\ Slots(k) <= 1 + expired[k] /\ Slots(k) \in Nat
  BY DEF Slots, TypeOK
<1>6. Cardinality(S) <= 1 + expired[k]
  BY <1>1, <1>3, <1>4, <1>5
<1> QED
  BY <1>6 DEF S

\* Every step keeps the invariant.
LEMMA NextWindowed ==
  ASSUME "produce" \notin Faults
  PROVE  TypeOK /\ Windowed /\ [Next]_vars => TypeOK' /\ Windowed'
<1> SUFFICES ASSUME TypeOK, Windowed, [Next]_vars PROVE TypeOK' /\ Windowed'
  OBVIOUS
<1>1. TypeOK'
  BY NextType
<1>2. CASE UNCHANGED vars
  BY <1>1, <1>2, FrameWindowed DEF vars
<1>3. ASSUME NEW x \in Subjects, ChangeRule(x) PROVE Windowed'
  BY <1>1, <1>3, FrameWindowed DEF ChangeRule, work
<1> QED
  BY <1>1, <1>2, <1>3, WorkWindowed, BreakWindowed, ExpireWindowed DEF Next

\* As long as no send fails, each cooldown key lets one detection through per window, with any
\* number of processes, crashes and Redis failures (filter_cooled_down in cooldown.py).  After a
\* failed send the claims are released, and the retry may find another detection first.
THEOREM WindowSafe ==
  ASSUME "produce" \notin Faults
  PROVE  Spec => []OnePerWindow
<1> DEFINE WInv == TypeOK /\ Windowed
<1>1. Init => WInv
  BY InitType, InitWindowed
<1>2. WInv /\ [Next]_vars => WInv'
  BY NextWindowed
<1>3. WInv => OnePerWindow
  BY WindowedImplies
<1> QED
  BY <1>1, <1>2, <1>3, PTL DEF Spec
==============================================================================
