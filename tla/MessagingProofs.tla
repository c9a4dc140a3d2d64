-------------------------- MODULE MessagingProofs --------------------------
(***************************************************************************)
(* Messages in the engine.  The event manager, for any nesting of          *)
(* dispatches and any number of listeners added and removed under them;    *)
(* the network manager, for any number of sensor messages, however reads   *)
(* cut their stream, and any course of the dialogue with Home Assistant.   *)
(***************************************************************************)
EXTENDS EventManager, NetworkManager, SequenceFilterTheorems, TLAPS

Entry == [id : 0 .. MaxListeners - 1, pending : BOOLEAN]
Loop == [type : Type, next : Nat, end : Nat, busy : BOOLEAN, valid : BOOLEAN]

\* A loop of Dispatch stays within the vector as it was when the loop began, and
\* that vector only grows.
Within(f) ==
  /\ f.type \in DOMAIN events
  /\ f.end <= Len(events[f.type])
  /\ f.next \in 1 .. f.end + 1
  /\ f.busy => f.next <= f.end
  /\ f.valid \/ f.end < Len(events[f.type])

EInv ==
  /\ TypeOK
  /\ events = [t \in DOMAIN events |-> events[t]]
  /\ level = Len(frames)
  /\ frames = <<>> => \A t \in DOMAIN events : events[t] \in Seq(Live)
  /\ \A i \in 1 .. Len(frames) : Within(frames[i])

LEMMA EntriesAreListeners == Entry \subseteq Listener
BY DEF Entry, Listener

\* The innermost loop.
LEMMA TopOK ==
  ASSUME EInv, frames # <<>>
  PROVE  /\ Len(frames) \in 1 .. Len(frames) /\ Len(frames) \in Nat /\ frames \in Seq(Loop)
         /\ Top \in Loop /\ Within(Top)
<1>1. frames \in Seq(Loop)
  BY DEF EInv, TypeOK, Loop
<1>2. Len(frames) \in 1 .. Len(frames) /\ Len(frames) \in Nat
  BY <1>1
<1> QED BY <1>1, <1>2 DEF Top, EInv

\* A step of the innermost loop alone.
LEMMA LoopStep ==
  ASSUME EInv, frames # <<>>, NEW f \in Loop, Within(f), f.valid = Top.valid,
         frames' = WithTop(f), UNCHANGED <<events, capacity, nextID, level>>
  PROVE  EInv'
<1>1. /\ frames \in Seq(Loop) /\ Len(frames) \in Nat /\ Len(frames) \in 1 .. Len(frames)
      /\ Top \in Loop
  BY TopOK
<1>2. /\ frames' \in Seq(Loop) /\ Len(frames') = Len(frames)
      /\ \A i \in 1 .. Len(frames) : frames'[i] = IF i = Len(frames) THEN f ELSE frames[i]
  BY <1>1 DEF WithTop
<1>3. TypeOK'
  BY <1>2 DEF EInv, TypeOK, Loop
<1>4. \A i \in 1 .. Len(frames') : Within(frames[i])'
  BY <1>1, <1>2 DEF EInv, Within
<1>5. frames' # <<>>
  BY <1>1, <1>2
<1> QED BY <1>2, <1>3, <1>4, <1>5 DEF EInv

LEMMA InitEInv == Init => EInv
<1> SUFFICES ASSUME Init PROVE EInv
  OBVIOUS
<1>1. Len(frames) = 0 /\ DOMAIN events = {}
  BY DEF Init
<1>2. TypeOK
  BY <1>1, EventAssumption DEF Init, TypeOK
<1>3. events = [t \in DOMAIN events |-> events[t]]
  BY DEF Init
<1> QED BY <1>1, <1>2, <1>3 DEF EInv, Init

\* The vector of a type, also of one nobody listened to yet.
LEMMA ListenersOK ==
  ASSUME EInv, NEW t PROVE Listeners(t) \in Seq(Entry)
<1>1. <<>> \in Seq(Entry)
  OBVIOUS
<1>2. t \in DOMAIN events => events[t] \in Seq(Entry)
  BY DEF EInv, TypeOK, Entry
<1> QED BY <1>1, <1>2 DEF Listeners

LEMMA AddKeeps == ASSUME EInv, NEW t \in Type, AddEventListener(t) PROVE EInv'
<1> DEFINE l == [id |-> nextID, pending |-> FALSE]
<1>1. nextID \in 0 .. MaxListeners - 1 /\ nextID' = nextID + 1 /\ level' = level
  BY EventAssumption DEF EInv, TypeOK, AddEventListener
<1>2. l \in Entry /\ l \in Live
  BY <1>1 DEF Entry, Live, Listener, NotPending
<1>3. /\ DOMAIN events' = DOMAIN events \cup {t}
      /\ events' = [u \in DOMAIN events' |-> events'[u]]
      /\ events'[t] = Append(Listeners(t), l)
      /\ \A u \in DOMAIN events \ {t} : events'[u] = events[u]
  BY DEF AddEventListener
<1> HIDE DEF l
<1>4. /\ events'[t] \in Seq(Entry) /\ Len(events'[t]) = Len(Listeners(t)) + 1
      /\ Len(Listeners(t)) \in Nat
  BY <1>2, <1>3, ListenersOK
<1>5. /\ frames' \in Seq(Loop) /\ Len(frames') = Len(frames) /\ frames \in Seq(Loop)
      /\ \A i \in 1 .. Len(frames) :
           /\ frames'[i].type = frames[i].type /\ frames'[i].next = frames[i].next
           /\ frames'[i].end = frames[i].end /\ frames'[i].busy = frames[i].busy
           /\ (frames'[i].valid <=> frames[i].valid) \/ frames[i].type = t
  <2>1. frames \in Seq(Loop) /\ Len(frames) \in Nat
    BY DEF EInv, TypeOK, Loop
  <2>2. CASE frames' = frames
    BY <2>1, <2>2
  <2>3. CASE frames' = [i \in 1 .. Len(frames) |-> [frames[i] EXCEPT !.valid = @ /\ frames[i].type # t]]
    <3>1. ASSUME NEW i \in 1 .. Len(frames)
          PROVE  /\ frames'[i] \in Loop
                 /\ frames'[i].type = frames[i].type /\ frames'[i].next = frames[i].next
                 /\ frames'[i].end = frames[i].end /\ frames'[i].busy = frames[i].busy
                 /\ (frames'[i].valid <=> frames[i].valid) \/ frames[i].type = t
      <4>1. frames[i] \in Loop /\ frames'[i] = [frames[i] EXCEPT !.valid = @ /\ frames[i].type # t]
        BY <2>1, <2>3
      <4> QED BY <4>1 DEF Loop
    <3>2. frames' \in [1 .. Len(frames) -> Loop]
      BY <2>3, <3>1
    <3>3. frames' \in Seq(Loop) /\ Len(frames') = Len(frames)
      BY <2>1, <3>2
    <3> QED BY <2>1, <3>1, <3>3
  <2> QED BY <2>2, <2>3 DEF AddEventListener
<1>6. TypeOK'
  <2>1. capacity' \in [Type -> Nat]
    <3>1. CASE UNCHANGED capacity
      BY <3>1 DEF EInv, TypeOK
    <3>2. CASE capacity' = [capacity EXCEPT ![t] = IF @ = 0 THEN 1 ELSE 2 * @]
      BY <3>2 DEF EInv, TypeOK
    <3> QED BY <3>1, <3>2 DEF AddEventListener
  <2>2. \A u \in DOMAIN events' : events'[u] \in Seq(Entry)
    BY <1>3, <1>4 DEF EInv, TypeOK, Entry
  <2>3. nextID' \in 0 .. MaxListeners
    BY <1>1, EventAssumption
  <2> QED BY <1>1, <1>3, <1>5, <2>1, <2>2, <2>3 DEF EInv, TypeOK, Entry, Loop
<1>7. ASSUME frames' = <<>>, NEW u \in DOMAIN events' PROVE events'[u] \in Seq(Live)
  <2>1. frames = <<>>
    BY <1>5, <1>7
  <2>2. Listeners(t) \in Seq(Live)
    BY <2>1 DEF EInv, Listeners
  <2> QED BY <1>2, <1>3, <2>1, <2>2 DEF EInv
<1>8. ASSUME NEW i \in 1 .. Len(frames') PROVE Within(frames[i])'
  <2>1. Within(frames[i]) /\ i \in 1 .. Len(frames)
    BY <1>5 DEF EInv
  <2>2. frames[i].type = t => Listeners(t) = events[t]
    BY <2>1 DEF Listeners, Within
  <2>3. frames[i].end \in Nat
    <3>1. frames[i] \in Loop
      BY <1>5, <2>1
    <3> QED BY <3>1 DEF Loop
  <2>4. Len(events'[frames[i].type]) >= frames[i].end /\ frames[i].type \in DOMAIN events'
    BY <1>3, <1>4, <2>1, <2>2, <2>3 DEF Within
  <2>5. frames'[i].valid \/ frames[i].end < Len(events'[frames[i].type])
    <3>1. CASE frames[i].type = t
      BY <1>3, <1>4, <2>1, <2>2, <2>3, <3>1 DEF Within
    <3>2. CASE frames[i].type # t
      BY <1>3, <1>5, <2>1, <3>2 DEF Within
    <3> QED BY <3>1, <3>2
  <2> QED BY <1>5, <2>1, <2>4, <2>5 DEF Within
<1> QED BY <1>1, <1>3, <1>5, <1>6, <1>7, <1>8 DEF EInv

LEMMA FlaggedType ==
  ASSUME NEW X, X = Entry \/ X = Listener, NEW s \in Seq(X), NEW id
  PROVE  Flagged(s, id) \in Seq(X) /\ Len(Flagged(s, id)) = Len(s)
<1>1. ASSUME NEW i \in 1 .. Len(s) PROVE Flagged(s, id)[i] \in X
  <2>1. s[i] \in X
    OBVIOUS
  <2>2. [s[i] EXCEPT !.pending = TRUE] \in X
    <3>1. CASE X = Entry
      BY <2>1, <3>1 DEF Entry
    <3>2. CASE X = Listener
      BY <2>1, <3>2 DEF Listener
    <3> QED BY <3>1, <3>2
  <2> QED BY <2>1, <2>2 DEF Flagged
<1>2. Len(s) \in Nat
  OBVIOUS
<1>3. Flagged(s, id) \in [1 .. Len(s) -> X]
  BY <1>1 DEF Flagged
<1> QED BY <1>2, <1>3

\* While a dispatch is in progress a removal keeps the vector's length.
LEMMA RemoveKeeps ==
  ASSUME EInv, NEW t \in Type, NEW id \in 0 .. nextID - 1, RemoveEventListener(t, id) PROVE EInv'
<1>1. t \in DOMAIN events /\ UNCHANGED <<capacity, nextID, level, frames>>
  BY DEF RemoveEventListener
<1> DEFINE s == events[t]
<1>2. s \in Seq(Entry)
  BY <1>1 DEF EInv, TypeOK, Entry
<1>3. events' = [u \in DOMAIN events |-> IF u = t THEN IF level > 0 THEN Flagged(s, id) ELSE Erased(s, id)
                                         ELSE events[u]]
  BY <1>1 DEF EInv, RemoveEventListener
<1>4. Flagged(s, id) \in Seq(Entry) /\ Len(Flagged(s, id)) = Len(s)
  BY <1>2, FlaggedType, EntriesAreListeners
<1>5. Erased(s, id) \in Seq(Entry) /\ (s \in Seq(Live) => Erased(s, id) \in Seq(Live))
  BY <1>2, KeptType DEF Erased
<1> HIDE DEF s
<1>6. TypeOK'
  BY <1>1, <1>3, <1>4, <1>5 DEF EInv, TypeOK, Entry
<1>7. events' = [u \in DOMAIN events' |-> events'[u]]
  BY <1>3
<1>8. ASSUME frames = <<>>, NEW u \in DOMAIN events' PROVE events'[u] \in Seq(Live)
  <2>1. ~(level > 0)
    BY <1>8 DEF EInv
  <2>2. s \in Seq(Live)
    BY <1>1, <1>8 DEF EInv, s
  <2> QED BY <1>3, <1>5, <1>8, <2>1, <2>2 DEF EInv
<1>9. ASSUME NEW i \in 1 .. Len(frames) PROVE Within(frames[i])'
  <2>1. level > 0
    BY <1>9 DEF EInv, TypeOK
  <2>2. Within(frames[i])
    BY <1>9 DEF EInv
  <2>3. \A u \in DOMAIN events : u \in DOMAIN events' /\ Len(events'[u]) = Len(events[u])
    BY <1>3, <1>4, <2>1 DEF s
  <2> QED BY <1>1, <2>2, <2>3 DEF Within
<1> QED BY <1>1, <1>6, <1>7, <1>8, <1>9 DEF EInv

LEMMA DispatchKeeps == ASSUME EInv, NEW t \in Type, Dispatch(t) PROVE EInv'
<1> DEFINE f == [type |-> t, next |-> 1, end |-> Len(events[t]), busy |-> FALSE, valid |-> TRUE]
<1>1. /\ t \in DOMAIN events /\ frames' = Append(frames, f) /\ level' = level + 1
      /\ Len(frames) < MaxDepth /\ UNCHANGED <<events, capacity, nextID>>
  BY DEF Dispatch
<1>2. frames \in Seq(Loop) /\ events[t] \in Seq(Entry) /\ Len(events[t]) \in Nat
  <2>1. frames \in Seq(Loop)
    BY DEF EInv, TypeOK, Loop
  <2>2. events[t] \in Seq(Entry)
    BY <1>1 DEF EInv, TypeOK, Entry
  <2> QED BY <2>1, <2>2
<1>3. f \in Loop /\ Within(f) /\ f.valid
  BY <1>1, <1>2 DEF Loop, Within
<1> HIDE DEF f
<1>4. /\ frames' \in Seq(Loop) /\ Len(frames') = Len(frames) + 1 /\ Len(frames) \in Nat
      /\ \A i \in 1 .. Len(frames') : frames'[i] = IF i = Len(frames) + 1 THEN f ELSE frames[i]
      /\ \A i \in 1 .. Len(frames') : i # Len(frames) + 1 => i \in 1 .. Len(frames)
      /\ frames' # <<>>
  BY <1>1, <1>2, <1>3
<1>5. TypeOK'
  <2>1. level' \in 0 .. MaxDepth /\ level' = Len(frames')
    BY <1>1, <1>4, EventAssumption DEF EInv
  <2>2. frames' \in Seq([type : Type, next : Nat, end : Nat, busy : BOOLEAN, valid : BOOLEAN])
    BY <1>4 DEF Loop
  <2> QED BY <1>1, <2>1, <2>2 DEF EInv, TypeOK
<1>6. ASSUME NEW i \in 1 .. Len(frames') PROVE Within(frames[i])'
  <2>1. CASE i = Len(frames) + 1
    <3>1. frames'[i] = f
      BY <1>4, <2>1
    <3> QED BY <1>1, <1>3, <3>1 DEF Within
  <2>2. CASE i # Len(frames) + 1
    <3>1. frames'[i] = frames[i] /\ i \in 1 .. Len(frames)
      BY <1>4, <2>2
    <3>2. Within(frames[i])
      BY <3>1 DEF EInv
    <3> QED BY <1>1, <3>1, <3>2 DEF Within
  <2> QED BY <2>1, <2>2
<1> QED BY <1>1, <1>4, <1>5, <1>6 DEF EInv

\* The outermost dispatch leaves live listeners only.
LEMMA EndKeeps == ASSUME EInv, DispatchEnds PROVE EInv'
<1>1. frames # <<>> /\ level' = level - 1 /\ frames' = SubSeq(frames, 1, Len(frames) - 1)
      /\ UNCHANGED <<capacity, nextID>>
  BY DEF DispatchEnds
<1>2. frames \in Seq(Loop) /\ Len(frames) \in Nat \ {0}
  BY <1>1, TopOK
<1>3. /\ frames' \in Seq(Loop) /\ Len(frames') = Len(frames) - 1
      /\ \A i \in 1 .. Len(frames') : frames'[i] = frames[i] /\ i \in 1 .. Len(frames)
  <2> DEFINE n == Len(frames) - 1
  <2>1. n \in Nat /\ n + 1 = Len(frames)
    BY <1>2
  <2>2. frames' = SubSeq(frames, 1, n)
    BY <1>1
  <2> HIDE DEF n
  <2>3. frames' = [i \in 1 .. n |-> frames[i]]
    BY <1>2, <2>1, <2>2
  <2>4. \A i \in 1 .. n : frames[i] \in Loop /\ i \in 1 .. Len(frames)
    BY <1>2, <2>1
  <2>5. frames' \in [1 .. n -> Loop]
    BY <2>3, <2>4
  <2>6. frames' \in Seq(Loop) /\ Len(frames') = n
    BY <2>1, <2>5
  <2> QED BY <2>1, <2>3, <2>4, <2>6 DEF n
<1>4. level' = Len(frames') /\ level' \in 0 .. MaxDepth
  BY <1>1, <1>2, <1>3, EventAssumption DEF EInv, TypeOK
<1>5. CASE level' # 0
  <2>1. events' = events /\ frames' # <<>>
    BY <1>3, <1>4, <1>5 DEF DispatchEnds
  <2>2. TypeOK'
    BY <1>1, <1>3, <1>4, <2>1 DEF EInv, TypeOK, Loop
  <2>3. ASSUME NEW i \in 1 .. Len(frames') PROVE Within(frames[i])'
    <3>1. Within(frames[i]) /\ frames'[i] = frames[i]
      BY <1>3 DEF EInv
    <3> QED BY <3>1, <2>1 DEF Within
  <2>4. events' = [t \in DOMAIN events' |-> events'[t]]
    BY <2>1 DEF EInv
  <2> QED BY <1>4, <2>1, <2>2, <2>3, <2>4 DEF EInv
<1>6. CASE level' = 0
  <2>1. events' = Cleared(events) /\ Len(frames') = 0 /\ frames' = <<>>
    BY <1>2, <1>3, <1>4, <1>6 DEF DispatchEnds
  <2>2. /\ DOMAIN events' = DOMAIN events /\ events' = [u \in DOMAIN events' |-> events'[u]]
        /\ \A u \in DOMAIN events : events'[u] = Kept(events[u], Live)
    BY <2>1 DEF Cleared
  <2>3. ASSUME NEW u \in DOMAIN events PROVE events'[u] \in Seq(Entry) /\ events'[u] \in Seq(Live)
    <3>1. events[u] \in Seq(Entry)
      BY DEF EInv, TypeOK, Entry
    <3>2. Kept(events[u], Live) \in Seq(Entry) /\ Kept(events[u], Live) \in Seq(Entry \cap Live)
      BY <3>1, KeptType
    <3>3. Kept(events[u], Live) \in Seq(Live)
      BY <3>2
    <3> QED BY <2>2, <3>2, <3>3
  <2>4. TypeOK'
    BY <1>1, <1>3, <1>4, <2>2, <2>3 DEF EInv, TypeOK, Loop, Entry
  <2> QED BY <1>4, <2>1, <2>2, <2>3, <2>4 DEF EInv
<1> QED BY <1>5, <1>6

LEMMA NextEInv == EInv /\ [Next]_vars => EInv'
<1> SUFFICES ASSUME EInv, [Next]_vars PROVE EInv'
  OBVIOUS
<1>1. CASE CallListener
  <2> DEFINE f == [Top EXCEPT !.busy = TRUE]
  <2>1. frames # <<>> /\ Top.next <= Top.end /\ frames' = WithTop(f)
        /\ UNCHANGED <<events, capacity, nextID, level>>
    BY <1>1 DEF CallListener
  <2>2. f \in Loop /\ Within(f) /\ f.valid = Top.valid
    BY <2>1, TopOK DEF Loop, Within
  <2> HIDE DEF f
  <2> QED BY <2>1, <2>2, LoopStep
<1>2. CASE SkipPending
  <2> DEFINE f == [Top EXCEPT !.next = @ + 1]
  <2>1. frames # <<>> /\ ~Top.busy /\ Top.next <= Top.end /\ frames' = WithTop(f)
        /\ UNCHANGED <<events, capacity, nextID, level>>
    BY <1>2 DEF SkipPending
  <2>2. f \in Loop /\ Within(f) /\ f.valid = Top.valid
    BY <2>1, TopOK DEF Loop, Within
  <2> HIDE DEF f
  <2> QED BY <2>1, <2>2, LoopStep
<1>3. CASE CallbackReturns
  <2> DEFINE f == [Top EXCEPT !.busy = FALSE, !.next = @ + 1]
  <2>1. frames # <<>> /\ Top.busy /\ frames' = WithTop(f)
        /\ UNCHANGED <<events, capacity, nextID, level>>
    BY <1>3 DEF CallbackReturns
  <2>2. /\ Top \in Loop /\ Top.type \in DOMAIN events /\ Top.end <= Len(events[Top.type])
        /\ Top.next \in 1 .. Top.end /\ Top.end \in Nat
        /\ Top.valid \/ Top.end < Len(events[Top.type])
    <3>1. Top \in Loop /\ Within(Top)
      BY <2>1, TopOK
    <3>2. Top.end \in Nat
      BY <3>1 DEF Loop
    <3> QED BY <2>1, <3>1, <3>2 DEF Within
  <2>3. f \in Loop /\ f.valid = Top.valid /\ f.type = Top.type /\ f.end = Top.end
        /\ f.next = Top.next + 1 /\ ~f.busy
    <3> DEFINE g == [Top EXCEPT !.busy = FALSE]
    <3>1. /\ g \in Loop /\ g.valid = Top.valid /\ g.type = Top.type /\ g.end = Top.end
          /\ g.next = Top.next /\ ~g.busy
      BY <2>2 DEF Loop
    <3>2. f = [g EXCEPT !.next = Top.next + 1] /\ Top.next + 1 \in Nat
      BY <2>2
    <3> HIDE DEF g, f
    <3> QED BY <3>1, <3>2 DEF Loop
  <2>4. Within(f)
    <3> HIDE DEF f
    <3> QED BY <2>2, <2>3 DEF Within
  <2> HIDE DEF f
  <2> QED BY <2>1, <2>3, <2>4, LoopStep
<1>4. CASE UNCHANGED vars
  BY <1>4 DEF vars, EInv, TypeOK, Within
<1> QED BY <1>1, <1>2, <1>3, <1>4, AddKeeps, RemoveKeeps, DispatchKeeps, EndKeeps DEF Next

\* The vectors and the loops over them keep their types, and no id or depth goes
\* over its bound.
THEOREM SpecTypeOK == Spec => []TypeOK
<1>1. EInv => TypeOK
  BY DEF EInv
<1> QED BY InitEInv, NextEInv, <1>1, PTL DEF Spec

\* m_DispatchLevel is the depth of the dispatches however they nest, and what was
\* removed under them is gone when the outermost has ended.
THEOREM SpecReclaimed == Spec => []Reclaimed
<1>1. EInv => Reclaimed
  <2> SUFFICES ASSUME EInv PROVE Reclaimed
    OBVIOUS
  <2>1. ASSUME level = 0, NEW t \in DOMAIN events, NEW i \in 1 .. Len(events[t])
        PROVE  NotPending(events[t][i])
    <3>0. frames \in Seq(Loop) /\ Len(frames) = 0
      BY <2>1 DEF EInv, TypeOK, Loop
    <3>1. frames = <<>>
      BY <3>0
    <3>2. events[t] \in Seq(Live)
      BY <3>1 DEF EInv
    <3>3. events[t][i] \in Live
      BY <3>2
    <3> QED BY <3>3 DEF Live
  <2> QED BY <2>1 DEF EInv, Reclaimed
<1> QED BY InitEInv, NextEInv, <1>1, PTL DEF Spec

\* No removal shortens a vector under a loop of Dispatch, however dispatches nest,
\* and a loop's iterators dangle only if a callback under it has added a listener
\* of the loop's own type.
THEOREM SpecIteratorsValid == Spec => []IteratorsValid
<1>1. EInv => IteratorsValid
  BY DEF EInv, Within, IteratorsValid, Listeners
<1> QED BY InitEInv, NextEInv, <1>1, PTL DEF Spec
-----------------------------------------------------------------------------
\* The abstract specification's own view of the filter.
LEMMA DroppedIs == ASSUME NEW s, NEW id PROVE Abstract!Dropped(s, id) = Kept(s, Nat \ {id})
BY DEF Abstract!Dropped, Abstract!Kept, Kept

LEMMA IdsType ==
  ASSUME NEW s \in Seq(Listener) PROVE Ids(s) \in Seq(Nat) /\ Len(Ids(s)) = Len(s)
<1>1. ASSUME NEW i \in 1 .. Len(s) PROVE s[i].id \in Nat
  <2>1. s[i] \in Listener
    OBVIOUS
  <2> QED BY <2>1 DEF Listener
<1>2. Len(s) \in Nat
  OBVIOUS
<1>3. Ids(s) \in [1 .. Len(s) -> Nat]
  BY <1>1 DEF Ids
<1> QED BY <1>2, <1>3

LEMMA IdsEmpty == Ids(<<>>) = <<>>
BY DEF Ids

LEMMA IdsAppend ==
  ASSUME NEW s \in Seq(Listener), NEW l \in Listener
  PROVE  Ids(Append(s, l)) = Append(Ids(s), l.id)
<1>1. /\ Len(s) \in Nat /\ Append(s, l) \in Seq(Listener) /\ Len(Append(s, l)) = Len(s) + 1
      /\ Append(s, l)[Len(s) + 1] = l /\ \A i \in 1 .. Len(s) : Append(s, l)[i] = s[i]
  OBVIOUS
<1>2. l.id \in Nat
  BY DEF Listener
<1>3. /\ Ids(s) \in Seq(Nat) /\ Len(Ids(s)) = Len(s)
      /\ Ids(Append(s, l)) \in Seq(Nat) /\ Len(Ids(Append(s, l))) = Len(s) + 1
  BY <1>1, IdsType
<1>4. /\ Append(Ids(s), l.id) \in Seq(Nat) /\ Len(Append(Ids(s), l.id)) = Len(s) + 1
      /\ Append(Ids(s), l.id)[Len(s) + 1] = l.id
      /\ \A i \in 1 .. Len(s) : Append(Ids(s), l.id)[i] = Ids(s)[i]
  BY <1>2, <1>3, <1>1
<1>5. ASSUME NEW i \in 1 .. Len(s) + 1 PROVE Ids(Append(s, l))[i] = Append(Ids(s), l.id)[i]
  <2>1. Ids(Append(s, l))[i] = Append(s, l)[i].id
    BY <1>1 DEF Ids
  <2>2. CASE i = Len(s) + 1
    BY <1>1, <1>4, <2>1, <2>2
  <2>3. CASE i # Len(s) + 1
    <3>0. i \in 1 .. Len(s)
      BY <1>1, <2>3
    <3>1. Ids(s)[i] = s[i].id
      BY <3>0 DEF Ids
    <3> QED BY <1>1, <1>4, <2>1, <3>0, <3>1
  <2> QED BY <2>2, <2>3
<1> QED BY <1>3, <1>4, <1>5, SeqEqual

LEMMA AliveType ==
  ASSUME NEW s \in Seq(Listener)
  PROVE  Kept(s, Live) \in Seq(Listener) /\ Alive(s) \in Seq(Nat)
BY KeptType, IdsType DEF Alive

LEMMA AliveEmpty == Alive(<<>>) = <<>>
BY KeptEmpty, IdsEmpty DEF Alive

LEMMA AliveAppend ==
  ASSUME NEW s \in Seq(Listener), NEW l \in Listener
  PROVE  Alive(Append(s, l)) = IF l \in Live THEN Append(Alive(s), l.id) ELSE Alive(s)
<1>1. Kept(Append(s, l), Live) = IF l \in Live THEN Append(Kept(s, Live), l) ELSE Kept(s, Live)
  BY KeptAppend
<1>2. l \in Live => Ids(Append(Kept(s, Live), l)) = Append(Ids(Kept(s, Live)), l.id)
  BY AliveType, IdsAppend
<1> QED BY <1>1, <1>2 DEF Alive

\* Flagging a listener, erasing it and clearing the flagged ones, as clients see it.
LEMMA AliveFlagged ==
  ASSUME NEW s \in Seq(Listener), NEW id
  PROVE  Alive(Flagged(s, id)) = Abstract!Dropped(Alive(s), id)
<1> DEFINE D == Nat \ {id}
           G == {t \in Seq(Listener) : Alive(Flagged(t, id)) = Kept(Alive(t), D)}
<1>1. <<>> \in G
  <2>1. Flagged(<<>>, id) = <<>> /\ <<>> \in Seq(Listener)
    BY DEF Flagged
  <2> QED BY <2>1, AliveEmpty, KeptEmpty
<1>2. ASSUME NEW t \in Seq(Listener), NEW l \in Listener, t \in G PROVE Append(t, l) \in G
  <2> DEFINE m == IF l.id = id THEN [l EXCEPT !.pending = TRUE] ELSE l
  <2>1. m \in Listener /\ (m \in Live <=> l \in Live /\ l.id # id) /\ m.id = l.id /\ l.id \in Nat
    BY DEF Listener, Live, NotPending
  <2>2. Flagged(Append(t, l), id) = Append(Flagged(t, id), m)
    <3>1. Append(t, l) \in Seq(Listener) /\ Len(Append(t, l)) = Len(t) + 1 /\ Len(t) \in Nat
          /\ Append(t, l)[Len(t) + 1] = l /\ \A i \in 1 .. Len(t) : Append(t, l)[i] = t[i]
      OBVIOUS
    <3>2. /\ Flagged(Append(t, l), id) \in Seq(Listener) /\ Len(Flagged(Append(t, l), id)) = Len(t) + 1
          /\ Flagged(t, id) \in Seq(Listener) /\ Len(Flagged(t, id)) = Len(t)
      BY <3>1, FlaggedType
    <3>3. Flagged(Append(t, l), id)[Len(t) + 1] = m
      <4>1. Len(t) + 1 \in 1 .. Len(Append(t, l))
        BY <3>1
      <4>2. Flagged(Append(t, l), id)[Len(t) + 1] =
              IF Append(t, l)[Len(t) + 1].id = id
              THEN [Append(t, l)[Len(t) + 1] EXCEPT !.pending = TRUE] ELSE Append(t, l)[Len(t) + 1]
        BY <4>1 DEF Flagged
      <4> QED BY <3>1, <4>2
    <3>4. \A i \in 1 .. Len(t) : Flagged(Append(t, l), id)[i] = Flagged(t, id)[i]
      BY <3>1 DEF Flagged
    <3> HIDE DEF m
    <3>5. /\ Append(Flagged(t, id), m) \in Seq(Listener) /\ Len(Append(Flagged(t, id), m)) = Len(t) + 1
          /\ Append(Flagged(t, id), m)[Len(t) + 1] = m
          /\ \A i \in 1 .. Len(t) : Append(Flagged(t, id), m)[i] = Flagged(t, id)[i]
      BY <2>1, <3>2
    <3>6. \A i \in 1 .. Len(t) + 1 : i = Len(t) + 1 \/ i \in 1 .. Len(t)
      BY <3>1
    <3>7. \A i \in 1 .. Len(t) + 1 : Flagged(Append(t, l), id)[i] = Append(Flagged(t, id), m)[i]
      BY <3>3, <3>4, <3>5, <3>6
    <3> QED BY <3>2, <3>5, <3>7, SeqEqual
  <2> HIDE DEF m
  <2>3. Alive(Append(Flagged(t, id), m)) =
          IF m \in Live THEN Append(Alive(Flagged(t, id)), m.id) ELSE Alive(Flagged(t, id))
    BY <2>1, FlaggedType, AliveAppend
  <2>4. Alive(Append(t, l)) = IF l \in Live THEN Append(Alive(t), l.id) ELSE Alive(t)
    BY AliveAppend
  <2>5. Kept(Append(Alive(t), l.id), D) =
          IF l.id \in D THEN Append(Kept(Alive(t), D), l.id) ELSE Kept(Alive(t), D)
    <3>1. Alive(t) \in Seq(Nat) /\ l.id \in Nat
      BY <2>1, AliveType
    <3> HIDE DEF D
    <3>2. \A q \in Seq(Nat), x \in Nat :
            Kept(Append(q, x), D) = IF x \in D THEN Append(Kept(q, D), x) ELSE Kept(q, D)
      BY KeptAppend
    <3> QED BY <3>1, <3>2
  <2>6. Append(t, l) \in Seq(Listener)
    OBVIOUS
  <2>7. Alive(Flagged(Append(t, l), id)) = Kept(Alive(Append(t, l)), D)
    BY <1>2, <2>1, <2>2, <2>3, <2>4, <2>5
  <2> QED BY <2>6, <2>7
<1> HIDE DEF G
<1>3. Seq(Listener) \subseteq G
  BY <1>1, <1>2, SeqSetInduction
<1> QED BY <1>3, DroppedIs DEF G

LEMMA AliveErased ==
  ASSUME NEW s \in Seq(Listener), NEW id
  PROVE  Alive(Erased(s, id)) = Abstract!Dropped(Alive(s), id)
<1> DEFINE D == Nat \ {id}
           O == {l \in Listener : l.id # id}
           G == {t \in Seq(Listener) : Alive(Kept(t, O)) = Kept(Alive(t), D)}
<1>1. <<>> \in G
  BY AliveEmpty, KeptEmpty
<1>2. ASSUME NEW t \in Seq(Listener), NEW l \in Listener, t \in G PROVE Append(t, l) \in G
  <2>1. l.id \in Nat /\ (l \in O <=> l.id # id) /\ Kept(t, O) \in Seq(Listener)
    BY KeptType DEF Listener
  <2>2. Kept(Append(t, l), O) = IF l \in O THEN Append(Kept(t, O), l) ELSE Kept(t, O)
    BY KeptAppend
  <2> HIDE DEF O
  <2>3. Alive(Append(Kept(t, O), l)) =
          IF l \in Live THEN Append(Alive(Kept(t, O)), l.id) ELSE Alive(Kept(t, O))
    BY <2>1, AliveAppend
  <2>4. Alive(Append(t, l)) = IF l \in Live THEN Append(Alive(t), l.id) ELSE Alive(t)
    BY AliveAppend
  <2>5. Kept(Append(Alive(t), l.id), D) =
          IF l.id \in D THEN Append(Kept(Alive(t), D), l.id) ELSE Kept(Alive(t), D)
    <3>1. Alive(t) \in Seq(Nat) /\ l.id \in Nat
      BY <2>1, AliveType
    <3> HIDE DEF D
    <3>2. \A q \in Seq(Nat), x \in Nat :
            Kept(Append(q, x), D) = IF x \in D THEN Append(Kept(q, D), x) ELSE Kept(q, D)
      BY KeptAppend
    <3> QED BY <3>1, <3>2
  <2>6. Append(t, l) \in Seq(Listener)
    OBVIOUS
  <2>7. Alive(Kept(Append(t, l), O)) = Kept(Alive(Append(t, l)), D)
    BY <1>2, <2>1, <2>2, <2>3, <2>4, <2>5
  <2> QED BY <2>6, <2>7
<1> HIDE DEF G
<1>3. Seq(Listener) \subseteq G
  BY <1>1, <1>2, SeqSetInduction
<1> QED BY <1>3, DroppedIs DEF G, Erased

LEMMA AliveCleared ==
  ASSUME NEW s \in Seq(Listener) PROVE Alive(Kept(s, Live)) = Alive(s)
<1>1. Kept(s, Live) \in Seq(Live)
  <2>1. Kept(s, Live) \in Seq(Listener \cap Live) /\ Listener \cap Live = Live
    BY KeptType DEF Live
  <2> QED BY <2>1
<1>2. Kept(Kept(s, Live), Live) = Kept(s, Live)
  BY <1>1, KeptAll
<1> QED BY <1>2 DEF Alive

\* The listeners a loop has still to call, when it moves on.
LEMMA AliveFrom ==
  ASSUME NEW s \in Seq(Listener), NEW m \in Nat, m <= Len(s), NEW n \in 1 .. m
  PROVE  Alive(SubSeq(s, n, m)) =
           IF s[n] \in Live THEN <<s[n].id>> \o Alive(SubSeq(s, n + 1, m)) ELSE Alive(SubSeq(s, n + 1, m))
<1> DEFINE r == SubSeq(s, n + 1, m)
<1>1. s[n] \in Listener /\ <<s[n]>> \in Seq(Listener) /\ r \in Seq(Listener)
  OBVIOUS
<1>2. SubSeq(s, n, m) = <<s[n]>> \o r
  <2>1. /\ SubSeq(s, n, m) \in Seq(Listener) /\ Len(SubSeq(s, n, m)) = m - n + 1
        /\ \A i \in 1 .. m - n + 1 : SubSeq(s, n, m)[i] = s[n + i - 1]
    BY SubSeqProperties
  <2>a. Len(r) = m - n /\ \A i \in 1 .. m - n : r[i] = s[n + i]
    <3>1. n + 1 \in 1 .. Len(s) + 1 /\ m \in n .. Len(s) /\ m - (n + 1) + 1 = m - n
      OBVIOUS
    <3>2. Len(r) = m - (n + 1) + 1 /\ \A i \in 1 .. m - (n + 1) + 1 : r[i] = s[n + 1 + i - 1]
      BY <3>1, SubSeqProperties
    <3> HIDE DEF r
    <3> QED BY <3>1, <3>2
  <2>b. Len(<<s[n]>>) = 1 /\ <<s[n]>>[1] = s[n]
    OBVIOUS
  <2> HIDE DEF r
  <2>2. <<s[n]>> \o r \in Seq(Listener) /\ Len(<<s[n]>> \o r) = m - n + 1
    BY <1>1, <2>a, <2>b
  <2>3. ASSUME NEW i \in 1 .. m - n + 1 PROVE SubSeq(s, n, m)[i] = (<<s[n]>> \o r)[i]
    <3>1. CASE i = 1
      BY <1>1, <2>1, <2>b, <3>1
    <3>2. CASE i # 1
      <4>1. i - 1 \in 1 .. m - n /\ (<<s[n]>> \o r)[i] = r[i - 1]
        BY <1>1, <2>a, <2>b, <3>2
      <4> QED BY <2>1, <2>a, <4>1
    <3> QED BY <3>1, <3>2
  <2> QED BY <2>1, <2>2, <2>3, SeqEqual
<1> HIDE DEF r
<1>3. Kept(<<s[n]>>, Live) = IF s[n] \in Live THEN <<s[n]>> ELSE <<>>
  <2>1. <<s[n]>> = Append(<<>>, s[n]) /\ <<>> \in Seq(Listener)
    OBVIOUS
  <2>2. \A q \in Seq(Listener), x \in Listener :
          Kept(Append(q, x), Live) = IF x \in Live THEN Append(Kept(q, Live), x) ELSE Kept(q, Live)
    BY KeptAppend
  <2> QED BY <1>1, <2>1, <2>2, KeptEmpty
<1>4. Kept(SubSeq(s, n, m), Live) = Kept(<<s[n]>>, Live) \o Kept(r, Live)
  BY <1>1, <1>2, KeptConcat
<1> DEFINE k == Kept(r, Live)
<1>5. k \in Seq(Listener) /\ Alive(SubSeq(s, n + 1, m)) = Ids(k)
  BY <1>1, AliveType DEF Alive, r
<1> HIDE DEF k
<1>6. Ids(<<s[n]>> \o k) = <<s[n].id>> \o Ids(k)
  <2>1. s[n].id \in Nat /\ <<s[n]>>[1] = s[n] /\ Len(<<s[n]>>) = 1 /\ Len(k) \in Nat
    BY <1>1, <1>5 DEF Listener
  <2>2. Ids(k) \in Seq(Nat) /\ Len(Ids(k)) = Len(k) /\ \A i \in 1 .. Len(k) : Ids(k)[i] = k[i].id
    BY <1>5, IdsType DEF Ids
  <2>3. /\ <<s[n]>> \o k \in Seq(Listener) /\ Len(<<s[n]>> \o k) = 1 + Len(k)
        /\ (<<s[n]>> \o k)[1] = s[n] /\ \A i \in 2 .. 1 + Len(k) : (<<s[n]>> \o k)[i] = k[i - 1]
    BY <1>1, <1>5, <2>1
  <2>4. /\ <<s[n].id>> \o Ids(k) \in Seq(Nat) /\ Len(<<s[n].id>> \o Ids(k)) = 1 + Len(k)
        /\ (<<s[n].id>> \o Ids(k))[1] = s[n].id
        /\ \A i \in 2 .. 1 + Len(k) : (<<s[n].id>> \o Ids(k))[i] = Ids(k)[i - 1]
    BY <2>1, <2>2
  <2>5. Ids(<<s[n]>> \o k) \in Seq(Nat) /\ Len(Ids(<<s[n]>> \o k)) = 1 + Len(k)
        /\ \A i \in 1 .. 1 + Len(k) : Ids(<<s[n]>> \o k)[i] = (<<s[n]>> \o k)[i].id
    BY <2>3, IdsType DEF Ids
  <2>6. \A i \in 1 .. 1 + Len(k) : i = 1 \/ (i \in 2 .. 1 + Len(k) /\ i - 1 \in 1 .. Len(k))
    BY <2>1
  <2>7. \A i \in 1 .. 1 + Len(k) : Ids(<<s[n]>> \o k)[i] = (<<s[n].id>> \o Ids(k))[i]
    BY <2>2, <2>3, <2>4, <2>5, <2>6
  <2> QED BY <2>4, <2>5, <2>7, SeqEqual
<1>7. <<>> \o k = k
  BY <1>5
<1>8. Alive(SubSeq(s, n, m)) = Ids(Kept(<<s[n]>>, Live) \o k)
  BY <1>4 DEF Alive, k
<1> QED BY <1>3, <1>5, <1>6, <1>7, <1>8

-----------------------------------------------------------------------------
\* The mapping of the abstract state. Its frames have their type's listeners.
LEMMA ListenersAre ==
  ASSUME EInv, NEW t
  PROVE  Listeners(t) \in Seq(Listener) /\ (t \in DOMAIN events => events[t] \in Seq(Listener))
<1>1. Seq(Entry) \subseteq Seq(Listener)
  BY EntriesAreListeners
<1>2. t \in DOMAIN events => events[t] \in Seq(Entry)
  BY DEF EInv, TypeOK, Entry
<1> QED BY <1>1, <1>2, ListenersOK

LEMMA FrameOK ==
  ASSUME EInv, NEW i \in 1 .. Len(frames)
  PROVE  /\ frames[i].type \in Type /\ frames[i].type \in DOMAIN events
         /\ events[frames[i].type] \in Seq(Listener)
         /\ frames[i].end \in Nat /\ frames[i].end <= Len(events[frames[i].type])
         /\ frames[i].next \in 1 .. frames[i].end + 1 /\ frames[i].busy \in BOOLEAN
         /\ frames[i].busy => frames[i].next <= frames[i].end
<1>0. frames \in Seq(Loop) /\ Within(frames[i])
  BY DEF EInv, TypeOK, Loop
<1>1. frames[i] \in Loop /\ Within(frames[i])
  BY <1>0
<1>2. frames[i].type \in DOMAIN events
  BY <1>1 DEF Within
<1> QED BY <1>1, <1>2, ListenersAre DEF Within, Loop

\* A dispatch is under way exactly when a publication is, and the same subscriber runs.
LEMMA CallsAre ==
  ASSUME EInv
  PROVE  /\ Len(frames) \in Nat /\ Len(Calls) = Len(frames) /\ Calls \in [1 .. Len(frames) -> {CallOf(frames[i]) : i \in 1 .. Len(frames)}]
         /\ (Calls = <<>> <=> frames = <<>>)
         /\ \A i \in 1 .. Len(frames) : Calls[i] = CallOf(frames[i])
<1>1. frames \in Seq(Loop) /\ Len(frames) \in Nat
  BY DEF EInv, TypeOK, Loop
<1>2. Calls \in [1 .. Len(frames) -> {CallOf(frames[i]) : i \in 1 .. Len(frames)}]
  BY DEF Calls
<1>3. Calls \in Seq({CallOf(frames[i]) : i \in 1 .. Len(frames)}) /\ Len(Calls) = Len(frames)
  BY <1>1, <1>2
<1>4. Calls = <<>> <=> Len(Calls) = 0
  BY <1>3
<1>5. frames = <<>> <=> Len(frames) = 0
  BY <1>1
<1> QED BY <1>1, <1>2, <1>3, <1>4, <1>5 DEF Calls

LEMMA RunningIs ==
  ASSUME EInv, NEW i \in 1 .. Len(frames)
  PROVE  CallOf(frames[i]).running # None <=> frames[i].busy
<1> DEFINE f == frames[i]
<1>1. f.busy => events[f.type][f.next].id \in Nat
  <2> SUFFICES ASSUME f.busy PROVE events[f.type][f.next].id \in Nat
    OBVIOUS
  <2>1. f.next \in 1 .. Len(events[f.type]) /\ events[f.type] \in Seq(Listener)
    BY FrameOK
  <2>2. events[f.type][f.next] \in Listener
    BY <2>1
  <2> QED BY <2>2 DEF Listener
<1> QED BY <1>1, EventAssumption DEF CallOf

LEMMA ClientsRun ==
  ASSUME EInv PROVE ClientRuns <=> Abstract!ClientRuns
<1>1. CASE frames = <<>>
  BY <1>1, CallsAre DEF ClientRuns, Abstract!ClientRuns
<1>2. CASE frames # <<>>
  <2>1. Len(frames) \in 1 .. Len(frames)
    BY <1>2, TopOK
  <2>2. Abstract!Top = CallOf(frames[Len(frames)])
    BY <2>1, CallsAre DEF Abstract!Top
  <2>3. Abstract!Top.running # None <=> Top.busy
    BY <2>1, <2>2, RunningIs DEF Top
  <2> QED BY <1>2, <2>3, CallsAre DEF ClientRuns, Abstract!ClientRuns
<1> QED BY <1>1, <1>2

LEMMA AppendIs ==
  ASSUME NEW S, NEW s \in Seq(S), NEW e
  PROVE  Append(s, e) = [i \in 1 .. Len(s) + 1 |-> IF i = Len(s) + 1 THEN e ELSE s[i]]
<1> DEFINE T == S \cup {e}
           r == [i \in 1 .. Len(s) + 1 |-> IF i = Len(s) + 1 THEN e ELSE s[i]]
<1>1. s \in Seq(T) /\ e \in T /\ Len(s) \in Nat
  OBVIOUS
<1>2. \A i \in 1 .. Len(s) + 1 : i = Len(s) + 1 \/ i \in 1 .. Len(s)
  BY <1>1
<1>3. r \in [1 .. Len(s) + 1 -> T]
  BY <1>1, <1>2
<1> HIDE DEF T
<1>4. r \in Seq(T) /\ Len(r) = Len(s) + 1
  BY <1>1, <1>3
<1>5. /\ Append(s, e) \in Seq(T) /\ Len(Append(s, e)) = Len(s) + 1
      /\ Append(s, e)[Len(s) + 1] = e /\ \A i \in 1 .. Len(s) : Append(s, e)[i] = s[i]
  BY <1>1
<1>6. \A i \in 1 .. Len(s) + 1 : Append(s, e)[i] = r[i]
  BY <1>1, <1>2, <1>5
<1> QED BY <1>4, <1>5, <1>6, SeqEqual

\* A step of the innermost loop is one of the innermost publication.
LEMMA CallsMove ==
  ASSUME EInv, frames # <<>>, NEW f, frames' = WithTop(f), events' = events
  PROVE  /\ Subs' = Subs
         /\ Calls' = Abstract!WithTop(CallOf(f))
         /\ Calls # <<>> /\ Abstract!Top = CallOf(Top)
         /\ Abstract!Top.running # None <=> Top.busy
<1>1. frames \in Seq(Loop) /\ Len(frames) \in Nat /\ Len(frames) \in 1 .. Len(frames)
  BY TopOK
<1>2. Subs' = Subs
  BY DEF Subs, Listeners
<1>3. /\ Len(frames') = Len(frames)
      /\ \A i \in 1 .. Len(frames) : frames'[i] = IF i = Len(frames) THEN f ELSE frames[i]
  BY <1>1 DEF WithTop
<1>4. \A g : CallOf(g)' = CallOf(g)
  BY DEF CallOf, Remaining
<1>5. Calls' = [i \in 1 .. Len(frames) |-> IF i = Len(frames) THEN CallOf(f) ELSE CallOf(frames[i])]
  BY <1>3 DEF Calls, CallOf, Remaining
<1>6. [Calls EXCEPT ![Len(Calls)] = CallOf(f)] =
        [i \in 1 .. Len(frames) |-> IF i = Len(frames) THEN CallOf(f) ELSE CallOf(frames[i])]
  BY <1>1, CallsAre DEF Calls
<1>7. Abstract!Top = CallOf(Top)
  BY <1>1, CallsAre DEF Abstract!Top, Top
<1> QED BY <1>1, <1>2, <1>5, <1>6, <1>7, CallsAre, RunningIs DEF Abstract!WithTop, Top

LEMMA CallListenerCalls == ASSUME EInv, CallListener PROVE Abstract!Call
<1> DEFINE f == [Top EXCEPT !.busy = TRUE]
           e == events[Top.type]
<1>1. /\ frames # <<>> /\ ~Top.busy /\ Top.next <= Top.end /\ NotPending(e[Top.next])
      /\ frames' = WithTop(f) /\ UNCHANGED <<events, nextID>>
  BY DEF CallListener
<1>2. /\ Top \in Loop /\ e \in Seq(Listener) /\ Top.end \in Nat /\ Top.end <= Len(e)
      /\ Top.next \in 1 .. Top.end
  <2>1. Len(frames) \in 1 .. Len(frames) /\ Top \in Loop
    BY <1>1, TopOK
  <2> QED BY <1>1, <2>1, FrameOK DEF Top
<1>3. f.type = Top.type /\ f.next = Top.next /\ f.end = Top.end /\ f.busy
  BY <1>2 DEF Loop
<1>4. Subs' = Subs /\ Calls' = Abstract!WithTop(CallOf(f)) /\ Calls # <<>>
      /\ Abstract!Top = CallOf(Top) /\ Abstract!Top.running = None
  BY <1>1, CallsMove
<1> DEFINE todo == Alive(SubSeq(e, Top.next + 1, Top.end))
           id == e[Top.next].id
<1>5. e[Top.next] \in Live /\ id \in Nat
  <2>1. e[Top.next] \in Listener
    BY <1>2
  <2> QED BY <1>1, <2>1 DEF Live, Listener
<1>6. todo \in Seq(Nat)
  <2>1. SubSeq(e, Top.next + 1, Top.end) \in Seq(Listener)
    BY <1>2
  <2> QED BY <2>1, AliveType
<1>7. CallOf(Top) = [type |-> Top.type, todo |-> <<id>> \o todo, running |-> None]
  BY <1>1, <1>2, <1>5, AliveFrom DEF CallOf, Remaining
<1>8. CallOf(f) = [type |-> Top.type, todo |-> todo, running |-> id]
  BY <1>3 DEF CallOf, Remaining
<1> HIDE DEF todo, id, f, e
<1>9. Tail(<<id>> \o todo) = todo /\ Head(<<id>> \o todo) = id /\ <<id>> \o todo # <<>>
  BY <1>5, <1>6
<1>10. CallOf(Top).todo = <<id>> \o todo
  BY <1>7
<1>11. CallOf(f) = [CallOf(Top) EXCEPT !.todo = todo, !.running = id]
  <2> DEFINE c == [CallOf(Top) EXCEPT !.todo = todo]
  <2>1. c \in [type : {Top.type}, todo : {todo}, running : {None}]
    BY <1>7
  <2>2. [c EXCEPT !.running = id] \in [type : {Top.type}, todo : {todo}, running : {id}]
    BY <2>1
  <2>3. [CallOf(Top) EXCEPT !.todo = todo, !.running = id] = [c EXCEPT !.running = id]
    OBVIOUS
  <2> HIDE DEF c
  <2> QED BY <1>8, <2>2, <2>3
<1> QED BY <1>1, <1>4, <1>9, <1>10, <1>11 DEF Abstract!Call

LEMMA SkipStutters == ASSUME EInv, SkipPending PROVE UNCHANGED Abstract!pubSubVars
<1> DEFINE f == [Top EXCEPT !.next = @ + 1]
           e == events[Top.type]
<1>1. /\ frames # <<>> /\ ~Top.busy /\ Top.next <= Top.end /\ ~NotPending(e[Top.next])
      /\ frames' = WithTop(f) /\ UNCHANGED <<events, nextID>>
  BY DEF SkipPending
<1>2. /\ Top \in Loop /\ e \in Seq(Listener) /\ Top.end \in Nat /\ Top.end <= Len(e)
      /\ Top.next \in 1 .. Top.end /\ Len(frames) \in 1 .. Len(frames)
  <2>1. Len(frames) \in 1 .. Len(frames) /\ Top \in Loop
    BY <1>1, TopOK
  <2> QED BY <1>1, <2>1, FrameOK DEF Top
<1>3. f.type = Top.type /\ f.next = Top.next + 1 /\ f.end = Top.end /\ ~f.busy
  BY <1>1, <1>2 DEF Loop
<1>4. Subs' = Subs /\ Calls' = Abstract!WithTop(CallOf(f))
  BY <1>1, CallsMove
<1>5. e[Top.next] \notin Live
  BY <1>1 DEF Live
<1>6. CallOf(f) = CallOf(Top)
  BY <1>1, <1>2, <1>3, <1>5, AliveFrom DEF CallOf, Remaining
<1>7. Calls[Len(Calls)] = CallOf(Top) /\ Calls = [i \in 1 .. Len(frames) |-> Calls[i]]
  BY <1>2, CallsAre DEF Top, Calls
<1> HIDE DEF f, e
<1>8. Calls' = Calls
  BY <1>4, <1>6, <1>7 DEF Abstract!WithTop
<1> QED BY <1>1, <1>4, <1>8 DEF Abstract!pubSubVars

LEMMA CallbackReturnsReturns == ASSUME EInv, CallbackReturns PROVE Abstract!Return
<1> DEFINE f == [Top EXCEPT !.busy = FALSE, !.next = @ + 1]
<1>1. frames # <<>> /\ Top.busy /\ frames' = WithTop(f) /\ UNCHANGED <<events, nextID>>
  BY DEF CallbackReturns
<1>2. Top \in Loop /\ Top.next \in Nat
  <2>1. Top \in Loop
    BY <1>1, TopOK
  <2> QED BY <2>1 DEF Loop
<1>3. f.type = Top.type /\ f.next = Top.next + 1 /\ f.end = Top.end /\ ~f.busy
  <2> DEFINE g == [Top EXCEPT !.busy = FALSE]
  <2>1. g \in Loop /\ g.type = Top.type /\ g.next = Top.next /\ g.end = Top.end /\ ~g.busy
    BY <1>2 DEF Loop
  <2>2. f = [g EXCEPT !.next = Top.next + 1]
    OBVIOUS
  <2> HIDE DEF g, f
  <2> QED BY <2>1, <2>2 DEF Loop
<1>4. Subs' = Subs /\ Calls' = Abstract!WithTop(CallOf(f)) /\ Calls # <<>>
      /\ Abstract!Top = CallOf(Top) /\ Abstract!Top.running # None
  BY <1>1, CallsMove
<1> DEFINE todo == Alive(SubSeq(events[Top.type], Top.next + 1, Top.end))
           id == events[Top.type][Top.next].id
<1>5. CallOf(Top) = [type |-> Top.type, todo |-> todo, running |-> id]
  BY <1>1 DEF CallOf, Remaining
<1>6. CallOf(f) = [type |-> Top.type, todo |-> todo, running |-> None]
  BY <1>3 DEF CallOf, Remaining
<1> HIDE DEF todo, id, f
<1>7. CallOf(f) = [CallOf(Top) EXCEPT !.running = None]
  <2>1. [CallOf(Top) EXCEPT !.running = None] \in [type : {Top.type}, todo : {todo}, running : {None}]
    BY <1>5
  <2> QED BY <1>6, <2>1
<1> QED BY <1>1, <1>4, <1>7 DEF Abstract!Return

\* The start of a loop is that of a publication to the listeners not flagged.
LEMMA DispatchPublishes ==
  ASSUME EInv, NEW t \in Type, Dispatch(t) PROVE Abstract!Publish(t)
<1> DEFINE f == [type |-> t, next |-> 1, end |-> Len(events[t]), busy |-> FALSE, valid |-> TRUE]
<1>1. ClientRuns /\ t \in DOMAIN events /\ frames' = Append(frames, f) /\ UNCHANGED <<events, nextID>>
  BY DEF Dispatch
<1>2. frames \in Seq(Loop) /\ Len(frames) \in Nat /\ events[t] \in Seq(Listener)
  <2>1. frames \in Seq(Loop)
    BY DEF EInv, TypeOK, Loop
  <2> QED BY <1>1, <2>1, ListenersAre
<1>3. CallOf(f) = [type |-> t, todo |-> Subs[t], running |-> None]
  <2>1. SubSeq(events[t], 1, Len(events[t])) = events[t]
    BY <1>2
  <2> QED BY <1>1, <2>1 DEF CallOf, Remaining, Subs, Listeners
<1> HIDE DEF f
<1>4. Subs' = Subs
  BY <1>1 DEF Subs, Listeners
<1>5. /\ Len(frames') = Len(frames) + 1
      /\ \A i \in 1 .. Len(frames) + 1 : frames'[i] = IF i = Len(frames) + 1 THEN f ELSE frames[i]
  <2>1. f \in {f} \cup Loop /\ frames \in Seq({f} \cup Loop)
    BY <1>2
  <2> QED BY <1>1, <1>2, <2>1
<1> DEFINE c == [type |-> t, todo |-> Subs[t], running |-> None]
<1>6. Calls' = [i \in 1 .. Len(frames) + 1 |-> IF i = Len(frames) + 1 THEN c ELSE CallOf(frames[i])]
  BY <1>1, <1>3, <1>5 DEF Calls, CallOf, Remaining
<1> HIDE DEF c
<1>7. Append(Calls, c) = [i \in 1 .. Len(frames) + 1 |-> IF i = Len(frames) + 1 THEN c ELSE CallOf(frames[i])]
  <2>1. Append(Calls, c) = [i \in 1 .. Len(Calls) + 1 |-> IF i = Len(Calls) + 1 THEN c ELSE Calls[i]]
    <3>1. Calls \in Seq({CallOf(frames[i]) : i \in 1 .. Len(frames)})
      BY CallsAre
    <3> QED BY <3>1, AppendIs
  <2> QED BY <1>2, <2>1, CallsAre
<1> QED BY <1>1, <1>4, <1>6, <1>7, ClientsRun DEF Abstract!Publish, c

\* The end of a loop, with or without the cleanup.
LEMMA DispatchEndsCompletes == ASSUME EInv, DispatchEnds PROVE Abstract!Complete
<1> DEFINE n == Len(frames) - 1
<1>1. /\ frames # <<>> /\ ~Top.busy /\ Top.next > Top.end /\ level' = level - 1
      /\ frames' = SubSeq(frames, 1, n) /\ nextID' = nextID
      /\ events' = IF level' = 0 THEN Cleared(events) ELSE events
  BY DEF DispatchEnds
<1>2. frames \in Seq(Loop) /\ Len(frames) \in 1 .. Len(frames) /\ n \in Nat /\ n + 1 = Len(frames)
  BY <1>1, TopOK
<1> HIDE DEF n
<1>3. Calls # <<>> /\ Abstract!Top = CallOf(Top) /\ ~(CallOf(Top).running # None)
  BY <1>1, <1>2, CallsAre, RunningIs DEF Abstract!Top, Top
<1>4. CallOf(Top).todo = <<>>
  <2>1. Top.next \in Nat /\ Top.end \in Nat
    BY <1>2, FrameOK DEF Top
  <2>2. SubSeq(events[Top.type], Top.next, Top.end) = <<>>
    BY <1>1, <2>1, SubSeqEmpty
  <2> QED BY <1>1, <2>2, AliveEmpty DEF CallOf, Remaining
<1>5. Subs' = Subs
  <2>1. ASSUME NEW t \in Type PROVE Alive(Listeners(t))' = Alive(Listeners(t))
    <3>1. CASE level' # 0
      BY <1>1, <3>1 DEF Listeners
    <3>2. CASE level' = 0
      <4>1. events' = [u \in DOMAIN events |-> Kept(events[u], Live)]
        BY <1>1, <3>2 DEF Cleared
      <4>2. CASE t \in DOMAIN events
        BY <4>1, <4>2, ListenersAre, AliveCleared DEF Listeners
      <4>3. CASE t \notin DOMAIN events
        BY <4>1, <4>3 DEF Listeners
      <4> QED BY <4>2, <4>3
    <3> QED BY <3>1, <3>2
  <2> QED BY <2>1 DEF Subs
<1>6. SubSeq(Calls, 1, n) = [i \in 1 .. n |-> CallOf(frames[i])]
  <2>1. SubSeq(Calls, 1, n) = [i \in 1 .. n |-> Calls[i]]
    <3>1. Calls \in Seq({CallOf(frames[i]) : i \in 1 .. Len(frames)})
      BY CallsAre
    <3>2. n <= Len(Calls)
      BY <1>2, CallsAre
    <3> QED BY <1>2, <3>1, <3>2
  <2>2. \A i \in 1 .. n : i \in 1 .. Len(frames)
    BY <1>2
  <2> QED BY <2>1, <2>2, CallsAre
<1>7. Len(frames') = n /\ \A i \in 1 .. n : frames'[i] = frames[i]
  <2>1. frames' = [i \in 1 .. n |-> frames[i]]
    BY <1>1, <1>2
  <2> QED BY <1>2, <2>1
<1>8. Calls' = [i \in 1 .. n |-> CallOf(frames[i])]
  <2>1. CASE level' # 0
    BY <1>1, <1>7, <2>1 DEF Calls, CallOf, Remaining
  <2>2. CASE level' = 0
    <3>0. n = 0
      BY <1>1, <1>2, <2>2 DEF EInv
    <3>1. n = 0 /\ 1 .. n = {}
      BY <3>0
    <3>2. Len(frames') = 0 /\ 1 .. Len(frames') = {}
      BY <1>7, <3>1
    <3>3. Calls' = [i \in {} |-> CallOf(frames[i])']
      BY <3>2 DEF Calls
    <3> QED BY <3>1, <3>3
  <2> QED BY <2>1, <2>2
<1> QED BY <1>1, <1>3, <1>4, <1>5, <1>6, <1>8, <1>2, CallsAre DEF Abstract!Complete

LEMMA SubSeqAppend ==
  ASSUME NEW S, NEW s \in Seq(S), NEW e \in S, NEW n \in Nat \ {0}, NEW m \in Nat, m <= Len(s)
  PROVE  SubSeq(Append(s, e), n, m) = SubSeq(s, n, m)
<1>1. CASE m < n
  BY <1>1, SubSeqEmpty
<1>2. CASE n <= m
  <2>1. /\ Append(s, e) \in Seq(S) /\ Len(s) \in Nat
        /\ \A i \in 1 .. Len(s) : Append(s, e)[i] = s[i] /\ s[i] \in S
    OBVIOUS
  <2>2. \A i \in n .. m : Append(s, e)[i] \in S /\ s[i] \in S /\ Append(s, e)[i] = s[i]
    BY <2>1
  <2>3. /\ SubSeq(Append(s, e), n, m) \in Seq(S) /\ SubSeq(s, n, m) \in Seq(S)
        /\ Len(SubSeq(Append(s, e), n, m)) = m - n + 1 /\ Len(SubSeq(s, n, m)) = m - n + 1
        /\ \A i \in 1 .. m - n + 1 : SubSeq(Append(s, e), n, m)[i] = Append(s, e)[n + i - 1]
        /\ \A i \in 1 .. m - n + 1 : SubSeq(s, n, m)[i] = s[n + i - 1]
    BY <1>2, <2>2, SubSeqProperties
  <2>4. \A i \in 1 .. m - n + 1 : n + i - 1 \in n .. m
    OBVIOUS
  <2> QED BY <2>2, <2>3, <2>4, SeqEqual
<1> QED BY <1>1, <1>2

\* Loops under way do not see a listener added under them.
LEMMA AddSubscribes ==
  ASSUME EInv, NEW t \in Type, AddEventListener(t) PROVE Abstract!Subscribe(t)
<1> DEFINE l == [id |-> nextID, pending |-> FALSE]
<1>1. /\ ClientRuns /\ nextID' = nextID + 1 /\ DOMAIN events' = DOMAIN events \cup {t}
      /\ events'[t] = Append(Listeners(t), l)
      /\ \A u \in DOMAIN events \ {t} : events'[u] = events[u]
  BY DEF AddEventListener
<1>2. l \in Listener /\ l \in Live /\ l.id = nextID
  BY DEF EInv, TypeOK, Listener, Live, NotPending
<1> HIDE DEF l
<1>3. Subs' = [Subs EXCEPT ![t] = Append(@, nextID)]
  <2>1. Listeners(t)' = Append(Listeners(t), l)
    BY <1>1 DEF Listeners
  <2>2. Alive(Listeners(t))' = Append(Alive(Listeners(t)), nextID)
    BY <1>2, <2>1, ListenersAre, AliveAppend
  <2>3. ASSUME NEW u \in Type, u # t PROVE Alive(Listeners(u))' = Alive(Listeners(u))
    BY <1>1, <2>3 DEF Listeners
  <2> QED BY <2>2, <2>3 DEF Subs
<1>4. /\ Len(frames') = Len(frames)
      /\ \A i \in 1 .. Len(frames) :
           /\ frames'[i].type = frames[i].type /\ frames'[i].next = frames[i].next
           /\ frames'[i].end = frames[i].end /\ (frames'[i].busy <=> frames[i].busy)
  <2>1. frames \in Seq(Loop) /\ Len(frames) \in Nat
    BY DEF EInv, TypeOK, Loop
  <2>2. CASE frames' = frames
    BY <2>2
  <2>3. CASE frames' = [i \in 1 .. Len(frames) |-> [frames[i] EXCEPT !.valid = @ /\ frames[i].type # t]]
    <3>1. Len(frames') = Len(frames)
      BY <2>1, <2>3
    <3>2. ASSUME NEW i \in 1 .. Len(frames)
          PROVE  /\ frames'[i].type = frames[i].type /\ frames'[i].next = frames[i].next
                 /\ frames'[i].end = frames[i].end /\ (frames'[i].busy <=> frames[i].busy)
      <4>1. frames[i] \in Loop /\ frames'[i] = [frames[i] EXCEPT !.valid = @ /\ frames[i].type # t]
        BY <2>1, <2>3
      <4> QED BY <4>1 DEF Loop
    <3> QED BY <3>1, <3>2
  <2> QED BY <2>2, <2>3 DEF AddEventListener
<1>5. ASSUME NEW i \in 1 .. Len(frames) PROVE CallOf(frames[i])' = CallOf(frames[i])
  <2> DEFINE f == frames[i]
  <2>1. /\ f.type \in DOMAIN events /\ events[f.type] \in Seq(Listener) /\ f.end \in Nat
        /\ f.end <= Len(events[f.type]) /\ f.next \in 1 .. f.end + 1
        /\ (f.busy => f.next \in 1 .. Len(events[f.type]))
    BY FrameOK
  <2>2. CASE f.type # t
    BY <1>1, <1>4, <2>1, <2>2 DEF CallOf, Remaining
  <2>3. CASE f.type = t
    <3>1. events'[t] = Append(events[t], l)
      BY <1>1, <2>1, <2>3 DEF Listeners
    <3>2. ASSUME NEW n \in {f.next, f.next + 1}
          PROVE  SubSeq(events'[t], n, f.end) = SubSeq(events[t], n, f.end)
      <4>1. n \in Nat \ {0} /\ f.end <= Len(events[t])
        BY <2>1, <2>3
      <4>2. events[t] \in Seq(Listener) /\ f.end \in Nat
        BY <2>1, <2>3
      <4>3. \A q \in Seq(Listener) : \A a \in Nat \ {0}, b \in Nat :
              b <= Len(q) => SubSeq(Append(q, l), a, b) = SubSeq(q, a, b)
        BY <1>2, SubSeqAppend
      <4> HIDE DEF f
      <4> QED BY <3>1, <4>1, <4>2, <4>3
    <3>3. f.busy => events'[t][f.next] = events[t][f.next]
      BY <1>2, <2>1, <2>3, <3>1
    <3> QED BY <1>4, <2>3, <3>2, <3>3 DEF CallOf, Remaining
  <2> QED BY <2>2, <2>3
<1>6. Calls' = Calls
  BY <1>4, <1>5 DEF Calls
<1> QED BY <1>1, <1>3, <1>6, ClientsRun DEF Abstract!Subscribe

LEMMA SubSeqFlagged ==
  ASSUME NEW s \in Seq(Listener), NEW id, NEW n \in Nat \ {0}, NEW m \in Nat, m <= Len(s)
  PROVE  SubSeq(Flagged(s, id), n, m) = Flagged(SubSeq(s, n, m), id)
<1>1. CASE m < n
  <2>1. SubSeq(Flagged(s, id), n, m) = <<>> /\ SubSeq(s, n, m) = <<>>
    BY <1>1, SubSeqEmpty
  <2> QED BY <2>1 DEF Flagged
<1>2. CASE n <= m
  <2> DEFINE mark(l) == IF l.id = id THEN [l EXCEPT !.pending = TRUE] ELSE l
  <2>1. /\ Flagged(s, id) \in Seq(Listener) /\ Len(Flagged(s, id)) = Len(s) /\ Len(s) \in Nat
    BY FlaggedType
  <2>2. \A i \in n .. m : Flagged(s, id)[i] \in Listener /\ s[i] \in Listener
    BY <2>1
  <2>3. /\ SubSeq(Flagged(s, id), n, m) \in Seq(Listener) /\ SubSeq(s, n, m) \in Seq(Listener)
        /\ Len(SubSeq(Flagged(s, id), n, m)) = m - n + 1 /\ Len(SubSeq(s, n, m)) = m - n + 1
        /\ \A i \in 1 .. m - n + 1 : SubSeq(Flagged(s, id), n, m)[i] = Flagged(s, id)[n + i - 1]
        /\ \A i \in 1 .. m - n + 1 : SubSeq(s, n, m)[i] = s[n + i - 1]
    BY <1>2, <2>2, SubSeqProperties
  <2>4. /\ Flagged(SubSeq(s, n, m), id) \in Seq(Listener) /\ Len(Flagged(SubSeq(s, n, m), id)) = m - n + 1
    BY <2>3, FlaggedType
  <2>5. \A i \in 1 .. m - n + 1 : n + i - 1 \in 1 .. Len(s)
    BY <2>1
  <2>6. \A i \in 1 .. Len(s) : Flagged(s, id)[i] = mark(s[i])
    BY DEF Flagged
  <2>7. \A i \in 1 .. m - n + 1 : Flagged(SubSeq(s, n, m), id)[i] = mark(SubSeq(s, n, m)[i])
    BY <2>3 DEF Flagged
  <2> HIDE DEF mark
  <2>8. \A i \in 1 .. m - n + 1 : SubSeq(Flagged(s, id), n, m)[i] = Flagged(SubSeq(s, n, m), id)[i]
    BY <2>3, <2>5, <2>6, <2>7
  <2> QED BY <2>3, <2>4, <2>8, SeqEqual
<1> QED BY <1>1, <1>2

\* A listener flagged under a dispatch is one that the loops will not call.
LEMMA RemoveUnsubscribes ==
  ASSUME EInv, NEW t \in Type, NEW id \in 0 .. nextID - 1, RemoveEventListener(t, id)
  PROVE  Abstract!Unsubscribe(t, id)
<1> DEFINE s == events[t]
           D(q) == Abstract!Dropped(q, id)
<1>1. /\ ClientRuns /\ t \in DOMAIN events /\ UNCHANGED <<nextID, frames>> /\ s \in Seq(Listener)
      /\ DOMAIN events' = DOMAIN events
      /\ events'[t] = IF level > 0 THEN Flagged(s, id) ELSE Erased(s, id)
      /\ \A u \in DOMAIN events \ {t} : events'[u] = events[u]
  BY ListenersAre DEF RemoveEventListener, EInv
<1>2. Subs' = [Subs EXCEPT ![t] = D(@)]
  <2>1. Listeners(t) = s /\ Listeners(t)' = events'[t]
    BY <1>1 DEF Listeners
  <2>2. Alive(Listeners(t))' = D(Alive(Listeners(t)))
    BY <1>1, <2>1, AliveFlagged, AliveErased
  <2>3. ASSUME NEW u \in Type, u # t PROVE Alive(Listeners(u))' = Alive(Listeners(u))
    BY <1>1, <2>3 DEF Listeners
  <2> HIDE DEF D
  <2> QED BY <2>2, <2>3 DEF Subs
<1>3. ASSUME NEW i \in 1 .. Len(frames)
      PROVE  CallOf(frames[i])' = [Calls[i] EXCEPT !.todo = IF Calls[i].type = t THEN D(@) ELSE @]
  <2> DEFINE f == frames[i]
             todo == Remaining(f)
             run == IF f.busy THEN events[f.type][f.next].id ELSE None
  <2>1. /\ f.type \in DOMAIN events /\ events[f.type] \in Seq(Listener) /\ f.end \in Nat
        /\ f.end <= Len(events[f.type]) /\ f.next \in 1 .. f.end + 1
        /\ (f.busy => f.next \in 1 .. Len(events[f.type]))
    BY FrameOK
  <2>2. Calls[i] = [type |-> f.type, todo |-> todo, running |-> run]
    BY CallsAre DEF CallOf
  <2>3. level > 0
    <3>1. Len(frames) \in Nat
      BY CallsAre
    <3> QED BY <3>1 DEF EInv
  <2>4. CASE f.type # t
    <3>1. CallOf(f)' = CallOf(f)
      BY <1>1, <2>1, <2>4 DEF CallOf, Remaining
    <3> HIDE DEF todo, run
    <3>2. [Calls[i] EXCEPT !.todo = todo] \in [type : {f.type}, todo : {todo}, running : {run}]
      BY <2>2
    <3>3. CallOf(f) = [type |-> f.type, todo |-> todo, running |-> run]
      BY CallsAre, <2>2
    <3>4. [Calls[i] EXCEPT !.todo = todo] = CallOf(f)
      BY <3>2, <3>3
    <3>5. Calls[i].type = f.type /\ Calls[i].todo = todo
      BY <2>2
    <3> QED BY <2>4, <3>1, <3>4, <3>5
  <2>5. CASE f.type = t
    <3>1. events'[t] = Flagged(s, id)
      BY <1>1, <2>3
    <3>2. ASSUME NEW n \in {f.next, f.next + 1}
          PROVE  Alive(SubSeq(events'[t], n, f.end)) = D(Alive(SubSeq(s, n, f.end)))
      <4>1. n \in Nat \ {0} /\ f.end <= Len(s) /\ f.end \in Nat
        BY <2>1, <2>5
      <4> HIDE DEF f
      <4>a. \A q \in Seq(Listener) : \A a \in Nat \ {0}, b \in Nat :
              b <= Len(q) => SubSeq(Flagged(q, id), a, b) = Flagged(SubSeq(q, a, b), id)
        BY SubSeqFlagged
      <4>b. s \in Seq(Listener)
        BY <1>1
      <4> HIDE DEF s
      <4>c. SubSeq(Flagged(s, id), n, f.end) = Flagged(SubSeq(s, n, f.end), id)
        BY <4>1, <4>a, <4>b
      <4>2. SubSeq(events'[t], n, f.end) = Flagged(SubSeq(s, n, f.end), id)
        BY <3>1, <4>c
      <4>3. SubSeq(s, n, f.end) \in Seq(Listener)
        BY <1>1, <4>1
      <4> QED BY <4>2, <4>3, AliveFlagged
    <3>3. f.busy => events'[t][f.next].id = s[f.next].id
      <4> SUFFICES ASSUME f.busy PROVE events'[t][f.next].id = s[f.next].id
        OBVIOUS
      <4>1. f.next \in 1 .. Len(s) /\ s[f.next] \in Listener
        BY <1>1, <2>1, <2>5
      <4>2. events'[t][f.next] =
              IF s[f.next].id = id THEN [s[f.next] EXCEPT !.pending = TRUE] ELSE s[f.next]
        BY <3>1, <4>1 DEF Flagged
      <4> QED BY <4>1, <4>2 DEF Listener
    <3>4. CallOf(f)' = [type |-> f.type, todo |-> D(todo), running |-> run]
      BY <1>1, <2>5, <3>2, <3>3 DEF CallOf, Remaining
    <3> HIDE DEF todo, run, D
    <3>5. [Calls[i] EXCEPT !.todo = D(todo)] \in [type : {f.type}, todo : {D(todo)}, running : {run}]
      BY <2>2
    <3>6. Calls[i].type = f.type /\ Calls[i].todo = todo
      BY <2>2
    <3> QED BY <2>5, <3>4, <3>5, <3>6
  <2> QED BY <2>4, <2>5
<1>4. Calls' = [i \in 1 .. Len(Calls) |->
                  [Calls[i] EXCEPT !.todo = IF Calls[i].type = t THEN D(@) ELSE @]]
  <2> HIDE DEF D
  <2> QED BY <1>1, <1>3, CallsAre DEF Calls
<1> QED BY <1>1, <1>2, <1>4, ClientsRun DEF Abstract!Unsubscribe

LEMMA InitPubSub == Init => Abstract!Init
<1> SUFFICES ASSUME Init PROVE Abstract!Init
  OBVIOUS
<1>1. \A t \in Type : Alive(Listeners(t)) = <<>>
  BY AliveEmpty DEF Init, Listeners
<1>2. Calls = <<>>
  BY InitEInv, CallsAre DEF Init
<1> QED BY <1>1, <1>2 DEF Init, Abstract!Init, Subs

LEMMA NextPubSub == EInv /\ [Next]_vars => [Abstract!Next]_Abstract!pubSubVars
<1> SUFFICES ASSUME EInv, [Next]_vars PROVE [Abstract!Next]_Abstract!pubSubVars
  OBVIOUS
<1>1. CASE CallListener
  BY <1>1, CallListenerCalls DEF Abstract!Next
<1>2. CASE SkipPending
  BY <1>2, SkipStutters
<1>3. CASE CallbackReturns
  BY <1>3, CallbackReturnsReturns DEF Abstract!Next
<1>4. CASE DispatchEnds
  BY <1>4, DispatchEndsCompletes DEF Abstract!Next
<1>5. CASE \E t \in Type : AddEventListener(t)
  BY <1>5, AddSubscribes DEF Abstract!Next
<1>6. CASE \E t \in Type : Dispatch(t)
  BY <1>6, DispatchPublishes DEF Abstract!Next
<1>7. CASE \E t \in Type, id \in 0 .. nextID - 1 : RemoveEventListener(t, id)
  BY <1>7, RemoveUnsubscribes DEF Abstract!Next
<1>8. CASE UNCHANGED vars
  BY <1>8 DEF vars, Abstract!pubSubVars, Subs, Listeners, Calls, CallOf, Remaining
<1> QED BY <1>1, <1>2, <1>3, <1>4, <1>5, <1>6, <1>7, <1>8 DEF Next

\* Flags, nested loops and deferred erasure implement the abstract publisher: no
\* listener is called after its removal returned, and every other one is called once
\* per dispatch, in the order of subscription.
THEOREM SpecImplementsPubSub == Spec => ImplementsPubSub
BY InitPubSub, InitEInv, NextEInv, NextPubSub, PTL DEF Spec, ImplementsPubSub, Abstract!PubSubSpec

-----------------------------------------------------------------------------
\* Sequences that are pieces of one sequence.
LEMMA MoveOver ==
  ASSUME NEW X, NEW a \in Seq(X), NEW b \in Seq(X), b # <<>>
  PROVE  /\ Append(a, Head(b)) \in Seq(X) /\ Tail(b) \in Seq(X) /\ Head(b) \in X
         /\ Append(a, Head(b)) \o Tail(b) = a \o b
         /\ Len(Append(a, Head(b))) = Len(a) + 1 /\ Len(Tail(b)) = Len(b) - 1
         /\ (a \o b)[Len(a) + 1] = Head(b) /\ Len(a) + 1 <= Len(a \o b)
<1>1. /\ Len(a) \in Nat /\ Len(b) \in Nat \ {0} /\ Head(b) = b[1] /\ b[1] \in X
      /\ Tail(b) \in Seq(X) /\ Len(Tail(b)) = Len(b) - 1
      /\ \A i \in 1 .. Len(b) - 1 : Tail(b)[i] = b[i + 1]
  BY HeadTailProperties
<1>2. /\ Append(a, Head(b)) \in Seq(X) /\ Len(Append(a, Head(b))) = Len(a) + 1
      /\ Append(a, Head(b))[Len(a) + 1] = b[1]
      /\ \A i \in 1 .. Len(a) : Append(a, Head(b))[i] = a[i]
  BY <1>1
<1> DEFINE p == Append(a, Head(b))
           t == Tail(b)
<1>3. /\ a \o b \in Seq(X) /\ Len(a \o b) = Len(a) + Len(b)
      /\ \A i \in 1 .. Len(a) + Len(b) : (a \o b)[i] = IF i <= Len(a) THEN a[i] ELSE b[i - Len(a)]
  BY <1>1, ConcatProperties
<1> HIDE DEF p, t
<1>4. /\ p \o t \in Seq(X) /\ Len(p \o t) = Len(p) + Len(t)
      /\ \A i \in 1 .. Len(p) + Len(t) : (p \o t)[i] = IF i <= Len(p) THEN p[i] ELSE t[i - Len(p)]
  BY <1>1, <1>2, ConcatProperties DEF p, t
<1>5. Len(p) = Len(a) + 1 /\ Len(t) = Len(b) - 1 /\ Len(p) + Len(t) = Len(a) + Len(b)
  BY <1>1, <1>2 DEF p, t
<1>6. ASSUME NEW i \in 1 .. Len(a) + Len(b) PROVE (p \o t)[i] = (a \o b)[i]
  <2>1. CASE i <= Len(a)
    BY <1>1, <1>2, <1>3, <1>4, <1>5, <2>1 DEF p
  <2>2. CASE i = Len(a) + 1
    BY <1>1, <1>2, <1>3, <1>4, <1>5, <2>2 DEF p
  <2>3. CASE i > Len(a) + 1
    <3>1. i - Len(a) - 1 \in 1 .. Len(b) - 1
      BY <1>1, <2>3
    <3>2. (p \o t)[i] = t[i - (Len(a) + 1)]
      BY <1>1, <1>4, <1>5, <2>3
    <3>3. t[i - Len(a) - 1] = b[i - Len(a) - 1 + 1]
      BY <1>1, <3>1 DEF t
    <3> QED BY <1>1, <1>3, <2>3, <3>1, <3>2, <3>3
  <2>4. i <= Len(a) \/ i = Len(a) + 1 \/ i > Len(a) + 1
    BY <1>1
  <2> QED BY <2>1, <2>2, <2>3, <2>4
<1>7. p \o t = a \o b
  BY <1>3, <1>4, <1>5, <1>6, SeqEqual
<1> QED BY <1>1, <1>2, <1>3, <1>7 DEF p, t

LEMMA AppendSecond ==
  ASSUME NEW X, NEW a \in Seq(X), NEW x \in X
  PROVE  Len(a) = 1 => Len(Append(a, x)) = 2 /\ Append(a, x)[1] = a[1] /\ Append(a, x)[2] = x
<1> DEFINE t == Append(a, x)
<1>1. /\ t \in Seq(X) /\ Len(t) = Len(a) + 1
         /\ t[Len(a) + 1] = x
         /\ \A i \in 1 .. Len(a) : t[i] = a[i]
  OBVIOUS
<1> HIDE DEF t
<1> QED BY <1>1 DEF t

LEMMA ConcatAppend ==
  ASSUME NEW X, NEW a \in Seq(X), NEW b \in Seq(X), NEW x \in X
  PROVE  a \o Append(b, x) = Append(a \o b, x)
OBVIOUS

LEMMA ConcatIs ==
  ASSUME NEW X, NEW a \in Seq(X), NEW b \in Seq(X)
  PROVE  /\ a \o b \in Seq(X) /\ Len(a \o b) = Len(a) + Len(b)
         /\ \A i \in 1 .. Len(a) : (a \o b)[i] = a[i]
         /\ \A i \in 1 .. Len(b) : (a \o b)[Len(a) + i] = b[i]
OBVIOUS

LEMMA ConcatNone ==
  ASSUME NEW X, NEW a \in Seq(X) PROVE a \o <<>> = a /\ <<>> \o a = a
OBVIOUS

\* A sequence cut in two.
LEMMA CutIs ==
  ASSUME NEW X, NEW a \in Seq(X), NEW n \in 0 .. Len(a)
  PROVE  /\ SubSeq(a, 1, n) \in Seq(X) /\ Len(SubSeq(a, 1, n)) = n
         /\ SubSeq(a, n + 1, Len(a)) \in Seq(X) /\ Len(SubSeq(a, n + 1, Len(a))) = Len(a) - n
         /\ \A i \in 1 .. n : SubSeq(a, 1, n)[i] = a[i]
         /\ \A i \in 1 .. Len(a) - n : SubSeq(a, n + 1, Len(a))[i] = a[n + i]
         /\ SubSeq(a, 1, n) \o SubSeq(a, n + 1, Len(a)) = a
<1> DEFINE k == Len(a)
           p == SubSeq(a, 1, n)
           q == SubSeq(a, n + 1, k)
<1>1. k \in Nat /\ n \in Nat /\ n <= k /\ \A i \in 1 .. k : a[i] \in X
  OBVIOUS
<1>2. p \in Seq(X) /\ Len(p) = n /\ \A i \in 1 .. n : p[i] = a[i]
  <2>1. \A i \in 1 .. n : a[i] \in X
    BY <1>1
  <2>2. /\ p \in Seq(X) /\ Len(p) = (IF 1 <= n THEN n - 1 + 1 ELSE 0)
        /\ \A i \in 1 .. n - 1 + 1 : p[i] = a[1 + i - 1]
    BY <1>1, <2>1, SubSeqProperties
  <2> HIDE DEF p
  <2> QED BY <1>1, <2>2
<1>3. q \in Seq(X) /\ Len(q) = k - n /\ \A i \in 1 .. k - n : q[i] = a[n + i]
  <2>1. \A i \in n + 1 .. k : a[i] \in X
    BY <1>1
  <2>2. /\ q \in Seq(X) /\ Len(q) = (IF n + 1 <= k THEN k - (n + 1) + 1 ELSE 0)
        /\ \A i \in 1 .. k - (n + 1) + 1 : q[i] = a[n + 1 + i - 1]
    <3>1. n + 1 \in Int /\ k \in Int
      BY <1>1
    <3> HIDE DEF k
    <3> QED BY <2>1, <3>1, SubSeqProperties
  <2> HIDE DEF q, k
  <2> QED BY <1>1, <2>2
<1> HIDE DEF p, q, k
<1>4. /\ p \o q \in Seq(X) /\ Len(p \o q) = n + (k - n)
      /\ \A i \in 1 .. n : (p \o q)[i] = p[i]
      /\ \A i \in 1 .. k - n : (p \o q)[n + i] = q[i]
  <2>1. /\ p \o q \in Seq(X) /\ Len(p \o q) = Len(p) + Len(q)
        /\ \A i \in 1 .. Len(p) : (p \o q)[i] = p[i]
        /\ \A i \in 1 .. Len(q) : (p \o q)[Len(p) + i] = q[i]
    <3>1. p \in Seq(X) /\ q \in Seq(X)
      BY <1>2, <1>3
    <3> QED BY <3>1, ConcatIs
  <2> QED BY <1>2, <1>3, <2>1
<1>5. ASSUME NEW i \in 1 .. k PROVE (p \o q)[i] = a[i]
  <2>1. CASE i <= n
    BY <1>1, <1>2, <1>4, <2>1
  <2>2. CASE i > n
    <3>1. i - n \in 1 .. k - n /\ n + (i - n) = i
      BY <1>1, <2>2
    <3>2. (p \o q)[n + (i - n)] = q[i - n] /\ q[i - n] = a[n + (i - n)]
      BY <1>3, <1>4, <3>1
    <3> QED BY <3>1, <3>2
  <2>3. i <= n \/ i > n
    BY <1>1
  <2> QED BY <2>1, <2>2, <2>3
<1>6. Len(p \o q) = k
  BY <1>1, <1>4
<1>7. p \o q = a
  BY <1>4, <1>5, <1>6, SeqEqual DEF k
<1> QED BY <1>2, <1>3, <1>7 DEF p, q, k

-----------------------------------------------------------------------------
\* The dialogue with Home Assistant. What the service has seen or will see of the
\* server's messages, and the frames that it has sent or will send.
Seen == handled \o local \o m_MessageQueue \o inbound
Frames == answered \o writing \o spawned
Accepted == Len(handled) >= 2 /\ handled[2] = "auth_ok"

\* The server's messages come in one order only, and each thing the service has said
\* rests on one of them: there is never a second frame before the first is answered.
Dialogue ==
  /\ Len(served) <= 3
  /\ Len(served) >= 1 => served[1] = "auth_required"
  /\ Len(served) >= 2 => served[2] \in {"auth_ok", "auth_invalid"} /\ Len(answered) >= 1
  /\ Len(served) >= 3 => served[2] = "auth_ok" /\ served[3] = "result" /\ Len(answered) >= 2
  /\ Len(Frames) <= 2 /\ Len(spawned) + Len(writing) <= 1
  /\ Len(Frames) >= 1 => Frames[1] = HA!Auth /\ Len(handled) >= 1
  /\ Len(Frames) >= 2 => Frames[2] = HA!GetStates(1) /\ Accepted
  /\ m_MessageID = IF Accepted THEN 2 ELSE 1
  /\ m_Authenticated <=> Accepted

Delivery ==
  /\ Len(Seen) <= Len(served)
  /\ \A i \in 1 .. Len(Seen) : Seen[i] = served[i]
  /\ link = "up" => Len(Seen) = Len(served)
  /\ link = "none" => served = <<>>

ServiceInv == HA!TypeOK /\ Delivery /\ Dialogue

LEMMA Types ==
  ASSUME HA!TypeOK
  PROVE  /\ served \in Seq(HA!MessageType) /\ inbound \in Seq(HA!MessageType)
         /\ m_MessageQueue \in Seq(HA!MessageType) /\ local \in Seq(HA!MessageType)
         /\ handled \in Seq(HA!MessageType)
         /\ spawned \in Seq(HA!Frame) /\ writing \in Seq(HA!Frame) /\ answered \in Seq(HA!Frame)
         /\ m_IsConnected \in BOOLEAN /\ m_Authenticated \in BOOLEAN
BY DEF HA!TypeOK

LEMMA SeenIs ==
  ASSUME HA!TypeOK
  PROVE  /\ Seen \in Seq(HA!MessageType) /\ Len(served) \in Nat /\ Len(handled) \in Nat
         /\ Len(Seen) = Len(handled) + Len(local) + Len(m_MessageQueue) + Len(inbound)
         /\ Len(handled) + Len(local) <= Len(Seen) /\ Len(local) \in Nat
         /\ Len(m_MessageQueue) \in Nat /\ Len(inbound) \in Nat /\ Len(Seen) \in Nat
         /\ \A i \in 1 .. Len(handled) : Seen[i] = handled[i]
         /\ \A i \in 1 .. Len(local) : Seen[Len(handled) + i] = local[i]
<1> DEFINE M == HA!MessageType
           a == handled \o local
           b == a \o m_MessageQueue
<1>1. /\ served \in Seq(M) /\ handled \in Seq(M) /\ local \in Seq(M) /\ m_MessageQueue \in Seq(M)
      /\ inbound \in Seq(M)
  BY Types
<1>2. a \in Seq(M) /\ Len(a) = Len(handled) + Len(local)
      /\ (\A i \in 1 .. Len(handled) : a[i] = handled[i])
      /\ \A i \in 1 .. Len(local) : a[Len(handled) + i] = local[i]
  BY <1>1, ConcatIs
<1> HIDE DEF a, M
<1>3. b \in Seq(M) /\ Len(b) = Len(a) + Len(m_MessageQueue) /\ \A i \in 1 .. Len(a) : b[i] = a[i]
  <2>1. a \in Seq(M) /\ m_MessageQueue \in Seq(M)
    BY <1>1, <1>2
  <2> QED BY <2>1, ConcatIs
<1> HIDE DEF b
<1>4. Seen = b \o inbound
  BY DEF Seen, a, b
<1>5. Seen \in Seq(M) /\ Len(Seen) = Len(b) + Len(inbound) /\ \A i \in 1 .. Len(b) : Seen[i] = b[i]
  BY <1>1, <1>3, <1>4, ConcatIs
<1>6. /\ Len(served) \in Nat /\ Len(handled) \in Nat /\ Len(local) \in Nat
      /\ Len(m_MessageQueue) \in Nat /\ Len(inbound) \in Nat
  BY <1>1
<1>7. \A i \in 1 .. Len(a) : i \in 1 .. Len(b) /\ Seen[i] = a[i]
  BY <1>2, <1>3, <1>5, <1>6
<1>8. ASSUME NEW i \in 1 .. Len(local) PROVE Seen[Len(handled) + i] = local[i]
  <2>1. Len(handled) + i \in 1 .. Len(a)
    BY <1>2, <1>6
  <2> QED BY <1>2, <1>7, <2>1
<1>9. ASSUME NEW i \in 1 .. Len(handled) PROVE Seen[i] = handled[i]
  <2>1. i \in 1 .. Len(a)
    BY <1>2, <1>6
  <2> QED BY <1>2, <1>7, <2>1
<1> QED BY <1>2, <1>3, <1>5, <1>6, <1>8, <1>9 DEF M

LEMMA FramesIs ==
  ASSUME HA!TypeOK
  PROVE  /\ Frames \in Seq(HA!Frame) /\ Len(Frames) = Len(answered) + Len(writing) + Len(spawned)
         /\ Len(answered) \in Nat /\ Len(writing) \in Nat /\ Len(spawned) \in Nat
         /\ Len(Frames) \in Nat
         /\ \A i \in 1 .. Len(answered) : Frames[i] = answered[i]
<1> DEFINE F == HA!Frame
           a == answered \o writing
<1>1. answered \in Seq(F) /\ writing \in Seq(F) /\ spawned \in Seq(F)
  BY Types
<1>2. a \in Seq(F) /\ Len(a) = Len(answered) + Len(writing)
      /\ \A i \in 1 .. Len(answered) : a[i] = answered[i]
  BY <1>1, ConcatIs
<1> HIDE DEF a, F
<1>3. Frames = a \o spawned
  BY DEF Frames, a
<1>4. Frames \in Seq(F) /\ Len(Frames) = Len(a) + Len(spawned) /\ \A i \in 1 .. Len(a) : Frames[i] = a[i]
  BY <1>1, <1>2, <1>3, ConcatIs
<1>5. Len(answered) \in Nat /\ Len(writing) \in Nat /\ Len(spawned) \in Nat
  BY <1>1
<1>6. ASSUME NEW i \in 1 .. Len(answered) PROVE Frames[i] = answered[i]
  <2>1. i \in 1 .. Len(a)
    BY <1>2, <1>5
  <2> QED BY <1>2, <1>4, <2>1
<1> QED BY <1>2, <1>4, <1>5, <1>6 DEF F

LEMMA ServiceInit == HA!Init => ServiceInv
<1> SUFFICES ASSUME HA!Init PROVE ServiceInv
  OBVIOUS
<1>1. HA!TypeOK
  <2>1. <<>> \in Seq(HA!Frame) /\ <<>> \in Seq(HA!MessageType)
    OBVIOUS
  <2>2. {spawned, writing, answered} \subseteq Seq(HA!Frame)
    BY <2>1 DEF HA!Init
  <2>3. {served, inbound, m_MessageQueue, local, handled} \subseteq Seq(HA!MessageType)
    BY <2>1 DEF HA!Init
  <2>4. {m_IsConnected, m_Authenticated} \subseteq BOOLEAN
    <3>1. m_IsConnected = FALSE /\ m_Authenticated = FALSE
      BY DEF HA!Init
    <3> QED BY <3>1, Zenon
  <2>5. m_MessageID \in Nat \ {0}
    BY DEF HA!Init
  <2> QED BY <2>2, <2>3, <2>4, <2>5 DEF HA!Init, HA!TypeOK
<1>2. Len(Seen) = 0 /\ Len(Frames) = 0 /\ Len(served) = 0 /\ Len(handled) = 0
      /\ Len(spawned) = 0 /\ Len(writing) = 0
  <2>1. /\ handled = <<>> /\ local = <<>> /\ m_MessageQueue = <<>> /\ inbound = <<>> /\ served = <<>>
        /\ spawned = <<>> /\ writing = <<>> /\ answered = <<>>
    BY DEF HA!Init
  <2> QED BY <1>1, <2>1, SeenIs, FramesIs
<1>3. Delivery
  BY <1>2 DEF HA!Init, Delivery
<1>4. Dialogue
  BY <1>2 DEF HA!Init, Dialogue, Accepted
<1> QED BY <1>1, <1>3, <1>4 DEF ServiceInv

\* What reaches the wire is next in what the service is to see.
LEMMA Serving ==
  ASSUME ServiceInv, NEW m \in HA!MessageType, HA!Serves(m)
  PROVE  /\ HA!TypeOK' /\ Delivery' /\ Frames' = Frames /\ served' = Append(served, m)
         /\ UNCHANGED <<answered, writing, spawned, handled, m_MessageID, m_Authenticated>>
<1> DEFINE M == HA!MessageType
           b == handled \o local \o m_MessageQueue
<1>1. /\ link = "up" /\ served' = Append(served, m) /\ inbound' = Append(inbound, m)
      /\ UNCHANGED <<secrets, link, m_IsConnected, wsReader, spawned, writing, answered,
                     m_MessageQueue, local, handled, m_Authenticated, m_MessageID, service>>
  BY DEF HA!Serves, HA!clientVars, HA!sendVars, HA!serviceVars
<1>2. HA!TypeOK
  BY DEF ServiceInv
<1>3. /\ served \in Seq(M) /\ handled \in Seq(M) /\ local \in Seq(M) /\ m_MessageQueue \in Seq(M)
      /\ inbound \in Seq(M)
  BY <1>2, Types
<1>4. b \in Seq(M) /\ Seen = b \o inbound /\ Seen' = b \o Append(inbound, m)
  BY <1>1, <1>3 DEF Seen
<1>5. Seen' = Append(Seen, m)
  BY <1>3, <1>4, ConcatAppend
<1>6. HA!TypeOK'
  <2>1. inbound' \in Seq(M) /\ served' \in Seq(M)
    BY <1>1, <1>3
  <2> HIDE DEF M
  <2> QED BY <1>1, <2>1 DEF ServiceInv, HA!TypeOK, M
<1>7. Seen \in Seq(M) /\ Len(Seen) = Len(served) /\ \A i \in 1 .. Len(Seen) : Seen[i] = served[i]
  BY <1>1, <1>2, SeenIs DEF ServiceInv, Delivery
<1>8. /\ Len(Seen') = Len(Seen) + 1 /\ Len(served') = Len(served) + 1 /\ Len(Seen) \in Nat
      /\ \A i \in 1 .. Len(Seen) : Seen'[i] = Seen[i] /\ served'[i] = served[i]
      /\ Seen'[Len(Seen) + 1] = m /\ served'[Len(Seen) + 1] = m
  BY <1>1, <1>3, <1>5, <1>7
<1>9. \A i \in 1 .. Len(Seen') : i \in 1 .. Len(Seen) \/ i = Len(Seen) + 1
  BY <1>8
<1>10. Delivery'
  BY <1>1, <1>7, <1>8, <1>9 DEF Delivery
<1> QED BY <1>1, <1>6, <1>10 DEF Frames

LEMMA ServerStep == ASSUME ServiceInv, HA!Server PROVE ServiceInv'
<1>1. HA!TypeOK /\ Dialogue /\ Len(served) \in Nat /\ served \in Seq(HA!MessageType)
  BY SeenIs, Types DEF ServiceInv
<1>a. Len(served) \in Nat /\ Len(served) <= 3
  BY <1>1 DEF Dialogue
<1>b. Len(served) = 0 \/ Len(served) = 1 \/ Len(served) >= 2
  BY <1>a
<1>c. Len(served) >= 2 => Len(served) = 2 \/ Len(served) = 3
  <2> DEFINE n == Len(served)
  <2>1. n \in Nat /\ n <= 3
    BY <1>a
  <2> HIDE DEF n
  <2>2. n >= 2 => n = 2 \/ n = 3
    BY <2>1
  <2> QED BY <2>2 DEF n
<1>2. ASSUME NEW m \in HA!MessageType, HA!Serves(m),
             Len(served) = 0 => m = "auth_required",
             Len(served) = 1 => m \in {"auth_ok", "auth_invalid"} /\ Len(answered) >= 1,
             Len(served) >= 2 => Len(served) = 2 /\ served[2] = "auth_ok" /\ m = "result" /\ Len(answered) >= 2
      PROVE  ServiceInv'
  <2>1. /\ Len(served') = Len(served) + 1 /\ served'[Len(served) + 1] = m
        /\ \A i \in 1 .. Len(served) : served'[i] = served[i]
    BY <1>1, <1>2, Serving
  <2>2. Dialogue'
    <3>1. Accepted' <=> Accepted
      BY <1>2, Serving DEF Accepted
    <3>2. /\ Len(served') <= 3
          /\ Len(served') >= 1 => served'[1] = "auth_required"
          /\ Len(served') >= 2 => served'[2] \in {"auth_ok", "auth_invalid"} /\ Len(answered) >= 1
          /\ Len(served') >= 3 => served'[2] = "auth_ok" /\ served'[3] = "result" /\ Len(answered) >= 2
      <4>1. CASE Len(served) = 0
        BY <1>2, <2>1, <4>1
      <4>2. CASE Len(served) = 1
        BY <1>1, <1>2, <2>1, <4>2 DEF Dialogue
      <4>3. CASE Len(served) >= 2
        <5>1. Len(served) = 2 /\ m = "result" /\ Len(answered) >= 2
          BY <1>2, <4>3
        <5>2. Len(served') = 3 /\ served'[3] = m /\ served'[1] = served[1] /\ served'[2] = served[2]
          BY <2>1, <5>1
        <5> QED BY <1>1, <1>2, <5>1, <5>2, <4>3 DEF Dialogue
      <4> QED BY <1>b, <4>1, <4>2, <4>3
    <3> QED BY <1>1, <1>2, <3>1, <3>2, Serving DEF Dialogue
  <2> QED BY <1>2, <2>2, Serving DEF ServiceInv
<1>3. CASE HA!ServerChallenges
  BY <1>2, <1>3 DEF HA!ServerChallenges, HA!MessageType
<1>4. CASE HA!ServerAnswersToken
  <2>1. PICK m \in {"auth_ok", "auth_invalid"} : HA!Serves(m)
    BY <1>4 DEF HA!ServerAnswersToken
  <2>2. Len(served) = 1
    BY <1>4 DEF HA!ServerAnswersToken
  <2>3. Len(answered) >= 1
    <3>1. PICK i \in DOMAIN answered : TRUE
      BY <1>4 DEF HA!ServerAnswersToken, HA!Has
    <3> QED BY <1>1, <3>1, Types
  <2> QED BY <1>2, <2>1, <2>2, <2>3 DEF HA!MessageType
<1>5. CASE HA!ServerSendsStates
  <2>1. HA!Serves("result")
    BY <1>5 DEF HA!ServerSendsStates
  <2>2. Len(answered) >= 2
    <3>1. PICK n \in 1 .. m_MessageID : HA!Has(answered, HA!GetStates(n))
      BY <1>5 DEF HA!ServerSendsStates
    <3>2. PICK i \in DOMAIN answered : answered[i] = HA!GetStates(n)
      BY <3>1 DEF HA!Has
    <3>3. answered \in Seq(HA!Frame)
      BY <1>1, Types
    <3>4. i \in 1 .. Len(answered) /\ Len(answered) \in Nat /\ Frames[i] = HA!GetStates(n)
      BY <1>1, <3>2, <3>3, FramesIs
    <3>5. i # 1
      BY <1>1, <3>4, FramesIs DEF Dialogue, HA!Auth, HA!GetStates
    <3> QED BY <3>4, <3>5
  <2>3. PICK i \in DOMAIN served : served[i] = "auth_ok"
    BY <1>5 DEF HA!ServerSendsStates, HA!Has
  <2>4. Len(served) >= 2 /\ served[2] = "auth_ok"
    <3>1. i \in 1 .. Len(served)
      BY <1>1
    <3>2. i # 1
      BY <1>1, <2>3, <3>1 DEF Dialogue
    <3>3. i = 2 \/ i = 3
      BY <1>1, <3>1, <3>2 DEF Dialogue
    <3> QED BY <1>1, <2>3, <3>1, <3>3 DEF Dialogue
  <2>5. Len(served) = 2
    <3>1. Len(served) # 3
      <4> SUFFICES ASSUME Len(served) = 3 PROVE FALSE
        OBVIOUS
      <4>1. 3 \in DOMAIN served /\ served[3] = "result"
        BY <1>1 DEF Dialogue
      <4> QED BY <1>5, <4>1 DEF HA!ServerSendsStates, HA!Has
    <3> QED BY <1>c, <2>4, <3>1
  <2> QED BY <1>2, <2>1, <2>2, <2>4, <2>5 DEF HA!MessageType
<1> QED BY <1>3, <1>4, <1>5 DEF HA!Server

\* A step that changes nothing but flags.
LEMMA FlagStep ==
  ASSUME ServiceInv, HA!TypeOK', link' = link \/ link' = "lost" \/ link = "none",
         UNCHANGED <<served, answered, writing, spawned, handled, local, m_MessageQueue, inbound,
                     m_MessageID, m_Authenticated>>
  PROVE  ServiceInv'
<1>1. Seen' = Seen /\ Frames' = Frames /\ (Accepted' <=> Accepted)
  BY DEF Seen, Frames, Accepted
<1>2. Dialogue'
  BY <1>1 DEF ServiceInv, Dialogue
<1>3. link = "none" => Len(served) = 0 /\ Len(Seen) = 0
  BY SeenIs DEF ServiceInv, Delivery
<1>4. Delivery'
  BY <1>1, <1>3 DEF ServiceInv, Delivery
<1> QED BY <1>2, <1>4 DEF ServiceInv

LEMMA LinkLostStep == ASSUME ServiceInv, HA!LinkLost PROVE ServiceInv'
<1> DEFINE M == HA!MessageType
           b == handled \o local \o m_MessageQueue
<1>1. PICK n \in 0 .. Len(inbound) : inbound' = SubSeq(inbound, 1, n)
  BY DEF HA!LinkLost
<1>2. /\ link' = "lost"
      /\ UNCHANGED <<secrets, m_IsConnected, wsReader, spawned, writing, served, answered,
                     m_MessageQueue, local, handled, m_Authenticated, m_MessageID, service>>
  BY DEF HA!LinkLost, HA!clientVars, HA!sendVars, HA!serverVars, HA!serviceVars
<1>3. /\ handled \in Seq(M) /\ local \in Seq(M) /\ m_MessageQueue \in Seq(M) /\ inbound \in Seq(M)
  BY Types DEF ServiceInv
<1>4. inbound' \in Seq(M) /\ Len(inbound') = n /\ Len(inbound) \in Nat
      /\ \A i \in 1 .. n : inbound'[i] = inbound[i]
  <2>1. Len(inbound) \in Nat /\ n \in Nat /\ n <= Len(inbound)
    BY <1>3
  <2> QED BY <1>1, <1>3, <2>1
<1>5. HA!TypeOK'
  BY <1>2, <1>4 DEF ServiceInv, HA!TypeOK
<1>6. b \in Seq(M) /\ Seen = b \o inbound /\ Seen' = b \o inbound' /\ Len(b) \in Nat
  BY <1>2, <1>3 DEF Seen
<1> HIDE DEF b, M
<1>7. /\ Len(Seen') = Len(b) + n /\ Len(Seen) = Len(b) + Len(inbound)
      /\ \A i \in 1 .. Len(b) : Seen'[i] = b[i] /\ Seen[i] = b[i]
      /\ \A i \in 1 .. n : Seen'[Len(b) + i] = inbound'[i]
      /\ \A i \in 1 .. Len(inbound) : Seen[Len(b) + i] = inbound[i]
  <2> DEFINE x == inbound'
  <2>a. x \in Seq(M)
    BY <1>4
  <2> HIDE DEF x
  <2>b. /\ Len(b \o x) = Len(b) + Len(x)
        /\ \A i \in 1 .. Len(b) : (b \o x)[i] = b[i]
        /\ \A i \in 1 .. Len(x) : (b \o x)[Len(b) + i] = x[i]
    BY <1>6, <2>a, ConcatIs
  <2>1. /\ Len(b \o inbound') = Len(b) + Len(inbound')
        /\ \A i \in 1 .. Len(b) : (b \o inbound')[i] = b[i]
        /\ \A i \in 1 .. Len(inbound') : (b \o inbound')[Len(b) + i] = inbound'[i]
    BY <2>b DEF x
  <2>2. /\ Len(b \o inbound) = Len(b) + Len(inbound)
        /\ \A i \in 1 .. Len(b) : (b \o inbound)[i] = b[i]
        /\ \A i \in 1 .. Len(inbound) : (b \o inbound)[Len(b) + i] = inbound[i]
    BY <1>3, <1>6, ConcatIs
  <2> QED BY <1>4, <1>6, <2>1, <2>2
<1>8. ASSUME NEW i \in 1 .. Len(Seen') PROVE Seen'[i] = Seen[i] /\ i \in 1 .. Len(Seen)
  <2>1. CASE i <= Len(b)
    BY <1>4, <1>6, <1>7, <2>1
  <2>2. CASE i > Len(b)
    <3>1. i - Len(b) \in 1 .. n /\ i - Len(b) \in 1 .. Len(inbound) /\ Len(b) + (i - Len(b)) = i
      BY <1>4, <1>6, <1>7, <2>2
    <3> QED BY <1>4, <1>6, <1>7, <3>1
  <2> QED BY <1>6, <1>7, <2>1, <2>2
<1>9. Delivery'
  <2>1. Len(Seen') <= Len(Seen) /\ Len(Seen') \in Nat /\ Len(Seen) <= Len(served) /\ Len(served) \in Nat
    BY <1>4, <1>6, <1>7, SeenIs DEF ServiceInv, Delivery
  <2>2. Len(Seen') <= Len(served)
    BY <1>4, <1>6, <1>7, <2>1, SeenIs DEF ServiceInv
  <2> QED BY <1>2, <1>8, <2>2 DEF ServiceInv, Delivery
<1>10. Dialogue'
  BY <1>2 DEF ServiceInv, Dialogue, Frames, Accepted
<1> QED BY <1>5, <1>9, <1>10 DEF ServiceInv

\* A message moves on; what the service is to see stays.
LEMMA ReceiveStep == ASSUME ServiceInv, HA!ReadLoopReceives PROVE ServiceInv'
<1> DEFINE M == HA!MessageType
           a == handled \o local
<1>1. /\ inbound # <<>> /\ inbound' = Tail(inbound) /\ wsReader' = "check"
      /\ m_MessageQueue' = Append(m_MessageQueue, Head(inbound))
      /\ UNCHANGED <<secrets, spawned, writing, served, answered, link, m_IsConnected,
                     local, handled, m_Authenticated, m_MessageID, service>>
  BY DEF HA!ReadLoopReceives, HA!ReaderVars, HA!sendVars, HA!serverVars, HA!serviceVars
<1>2. /\ handled \in Seq(M) /\ local \in Seq(M) /\ m_MessageQueue \in Seq(M) /\ inbound \in Seq(M)
  BY Types DEF ServiceInv
<1>3. a \in Seq(M) /\ Seen = (a \o m_MessageQueue) \o inbound
      /\ Seen' = (a \o Append(m_MessageQueue, Head(inbound))) \o Tail(inbound)
  BY <1>1, <1>2 DEF Seen
<1> HIDE DEF a, M
<1>4. Head(inbound) \in M /\ Tail(inbound) \in Seq(M) /\ Append(m_MessageQueue, Head(inbound)) \in Seq(M)
      /\ a \o m_MessageQueue \in Seq(M)
  BY <1>1, <1>2, <1>3, MoveOver, ConcatIs
<1>5. a \o Append(m_MessageQueue, Head(inbound)) = Append(a \o m_MessageQueue, Head(inbound))
  BY <1>2, <1>3, <1>4, ConcatAppend
<1>6. Seen' = Seen
  <2>1. \A p \in Seq(M) : Append(p, Head(inbound)) \o Tail(inbound) = p \o inbound
    BY <1>1, <1>2, MoveOver
  <2> QED BY <1>3, <1>4, <1>5, <2>1
<1>7. HA!TypeOK'
  BY <1>1, <1>4 DEF ServiceInv, HA!TypeOK, M
<1> QED BY <1>1, <1>6, <1>7 DEF ServiceInv, Delivery, Dialogue, Frames, Accepted

LEMMA SendStartsStep == ASSUME ServiceInv, HA!SendStarts PROVE ServiceInv'
<1> DEFINE F == HA!Frame
<1>1. /\ spawned # <<>> /\ writing' = Append(writing, Head(spawned)) /\ spawned' = Tail(spawned)
      /\ UNCHANGED <<secrets, link, wsReader, served, inbound, m_MessageQueue, local, handled,
                     m_Authenticated, m_MessageID, service, m_IsConnected, answered>>
  BY DEF HA!SendStarts, HA!SenderVars, HA!serviceVars
<1>2. answered \in Seq(F) /\ writing \in Seq(F) /\ spawned \in Seq(F)
  BY Types DEF ServiceInv
<1> HIDE DEF F
<1>3. /\ Head(spawned) \in F /\ writing' \in Seq(F) /\ spawned' \in Seq(F)
      /\ Len(writing') = Len(writing) + 1 /\ Len(spawned') = Len(spawned) - 1
      /\ answered \o writing \in Seq(F)
  BY <1>1, <1>2, MoveOver, ConcatIs
<1>4. answered \o writing' = Append(answered \o writing, Head(spawned))
  BY <1>1, <1>2, <1>3, ConcatAppend
<1>5. Frames' = Frames
  <2>1. \A p \in Seq(F) : Append(p, Head(spawned)) \o Tail(spawned) = p \o spawned
    BY <1>1, <1>2, MoveOver
  <2>2. Frames' = (answered \o writing') \o spawned'
    BY <1>1 DEF Frames
  <2> QED BY <1>1, <1>3, <1>4, <2>1, <2>2 DEF Frames
<1>6. HA!TypeOK'
  BY <1>1, <1>3 DEF ServiceInv, HA!TypeOK, F
<1>7. Len(spawned') + Len(writing') = Len(spawned) + Len(writing)
  BY <1>3, FramesIs DEF ServiceInv
<1>8. Seen' = Seen /\ (Accepted' <=> Accepted)
  BY <1>1 DEF Seen, Accepted
<1> QED BY <1>1, <1>5, <1>6, <1>7, <1>8 DEF ServiceInv, Delivery, Dialogue

LEMMA SendEndsStep == ASSUME ServiceInv, HA!SendEnds PROVE ServiceInv'
<1> DEFINE F == HA!Frame
<1>1. /\ writing # <<>> /\ answered' = Append(answered, Head(writing)) /\ writing' = Tail(writing)
      /\ UNCHANGED <<secrets, link, wsReader, served, inbound, m_MessageQueue, local, handled,
                     m_Authenticated, m_MessageID, service, m_IsConnected, spawned>>
  BY DEF HA!SendEnds, HA!SenderVars, HA!serviceVars
<1>2. answered \in Seq(F) /\ writing \in Seq(F) /\ spawned \in Seq(F)
  BY Types DEF ServiceInv
<1> HIDE DEF F
<1>3. /\ answered' \in Seq(F) /\ writing' \in Seq(F)
      /\ Len(answered') = Len(answered) + 1 /\ Len(writing') = Len(writing) - 1
      /\ answered' \o writing' = answered \o writing
  BY <1>1, <1>2, MoveOver
<1>4. Frames' = Frames
  BY <1>1, <1>3 DEF Frames
<1>5. HA!TypeOK'
  BY <1>1, <1>2, <1>3 DEF ServiceInv, HA!TypeOK, F
<1>6. /\ Len(spawned') + Len(writing') <= 1
      /\ Len(answered) >= 1 => Len(answered') >= 1
      /\ Len(answered) >= 2 => Len(answered') >= 2
  BY <1>1, <1>3, FramesIs DEF ServiceInv, Dialogue
<1>7. Seen' = Seen /\ (Accepted' <=> Accepted)
  BY <1>1 DEF Seen, Accepted
<1>8. Dialogue'
  BY <1>1, <1>4, <1>6, <1>7 DEF ServiceInv, Dialogue
<1> QED BY <1>1, <1>5, <1>7, <1>8 DEF ServiceInv, Delivery

\* A frame that cannot be written was the last.
LEMMA SendFailsStep == ASSUME ServiceInv, HA!SendFails PROVE ServiceInv'
<1> DEFINE F == HA!Frame
<1>1. /\ writing # <<>> /\ writing' = Tail(writing) /\ m_IsConnected' = FALSE
      /\ UNCHANGED <<secrets, link, wsReader, served, inbound, m_MessageQueue, local, handled,
                     m_Authenticated, m_MessageID, service, spawned, answered>>
  BY DEF HA!SendFails, HA!SenderVars, HA!serviceVars
<1>2. answered \in Seq(F) /\ writing \in Seq(F) /\ spawned \in Seq(F)
  BY Types DEF ServiceInv
<1> HIDE DEF F
<1>3. writing' \in Seq(F) /\ Len(writing') = Len(writing) - 1 /\ Len(writing) \in Nat /\ Len(spawned) \in Nat
  BY <1>1, <1>2, MoveOver
<1>4. Len(spawned) = 0 /\ Len(writing') = 0
  BY <1>1, <1>2, <1>3 DEF ServiceInv, Dialogue
<1>5. HA!TypeOK'
  <2>1. {m_IsConnected', m_Authenticated'} \subseteq BOOLEAN
    <3>1. m_IsConnected' = FALSE /\ m_Authenticated' = m_Authenticated /\ {m_IsConnected, m_Authenticated} \subseteq BOOLEAN
      BY <1>1 DEF ServiceInv, HA!TypeOK
    <3> QED BY <3>1, Zenon
  <2> QED BY <1>1, <1>3, <2>1 DEF ServiceInv, HA!TypeOK, F
<1>6. Len(Frames') = Len(answered) /\ \A i \in 1 .. Len(answered) : Frames'[i] = answered[i]
  <2>1. answered \o writing' = answered /\ Frames' = (answered \o writing') \o spawned
    BY <1>1, <1>2, <1>3, <1>4, ConcatNone DEF Frames
  <2>2. Frames' = answered
    BY <1>2, <1>4, <2>1, ConcatNone
  <2> QED BY <2>2
<1>7. /\ Len(answered) <= Len(Frames) /\ Len(answered) \in Nat /\ Len(Frames) \in Nat
      /\ \A i \in 1 .. Len(answered) : Frames[i] = Frames'[i]
  BY <1>6, FramesIs DEF ServiceInv
<1>8. Seen' = Seen /\ (Accepted' <=> Accepted)
  BY <1>1 DEF Seen, Accepted
<1>9. Dialogue'
  <2>1. Len(Frames') <= 2 /\ Len(spawned') + Len(writing') <= 1
    BY <1>1, <1>4, <1>6, <1>7 DEF ServiceInv, Dialogue
  <2>2. Len(Frames') >= 1 => Frames'[1] = HA!Auth /\ Len(handled) >= 1
    BY <1>6, <1>7 DEF ServiceInv, Dialogue
  <2>3. Len(Frames') >= 2 => Frames'[2] = HA!GetStates(1) /\ Accepted
    BY <1>6, <1>7 DEF ServiceInv, Dialogue
  <2> QED BY <1>1, <1>8, <2>1, <2>2, <2>3 DEF ServiceInv, Dialogue
<1> QED BY <1>1, <1>5, <1>8, <1>9 DEF ServiceInv, Delivery

LEMMA SwapStep == ASSUME ServiceInv, HA!Update PROVE ServiceInv'
<1> DEFINE M == HA!MessageType
<1>1. /\ local = <<>> /\ local' = m_MessageQueue /\ m_MessageQueue' = <<>>
      /\ UNCHANGED <<secrets, link, m_IsConnected, wsReader, writing, served, answered, inbound,
                     spawned, handled, m_Authenticated, m_MessageID, service>>
  BY DEF HA!Update, HA!UpdateVars, HA!clientVars, HA!serverVars
<1>2. /\ handled \in Seq(M) /\ local \in Seq(M) /\ m_MessageQueue \in Seq(M) /\ inbound \in Seq(M)
  BY Types DEF ServiceInv
<1> HIDE DEF M
<1>3. /\ handled \o local = handled /\ handled \o m_MessageQueue \in Seq(M)
  BY <1>1, <1>2, ConcatNone, ConcatIs
<1>4. (handled \o m_MessageQueue) \o <<>> = handled \o m_MessageQueue
  BY <1>3, ConcatNone
<1>5. Seen' = Seen
  BY <1>1, <1>3, <1>4 DEF Seen
<1>6. HA!TypeOK'
  <2>1. <<>> \in Seq(M)
    OBVIOUS
  <2> QED BY <1>1, <1>2, <2>1 DEF ServiceInv, HA!TypeOK, M
<1>7. Frames' = Frames /\ (Accepted' <=> Accepted)
  BY <1>1 DEF Frames, Accepted
<1> QED BY <1>1, <1>5, <1>6, <1>7 DEF ServiceInv, Delivery, Dialogue

\* handleMessage: the message handled is the next one that the server sent.
LEMMA Handling ==
  ASSUME ServiceInv, NEW t, HA!Handles(t)
  PROVE  /\ Delivery' /\ t = served[Len(handled) + 1] /\ Len(handled) + 1 \in 1 .. Len(served)
         /\ Len(handled) \in Nat /\ Len(handled') = Len(handled) + 1
         /\ handled'[Len(handled) + 1] = t /\ \A i \in 1 .. Len(handled) : handled'[i] = served[i] /\ handled[i] = served[i]
         /\ local' \in Seq(HA!MessageType) /\ handled' \in Seq(HA!MessageType)
         /\ UNCHANGED <<secrets, link, m_IsConnected, wsReader, writing, served, answered, inbound,
                        m_MessageQueue>>
<1> DEFINE M == HA!MessageType
<1>1. /\ local # <<>> /\ Head(local) = t /\ local' = Tail(local) /\ handled' = Append(handled, t)
      /\ UNCHANGED <<secrets, link, m_IsConnected, wsReader, writing, served, answered, inbound,
                     m_MessageQueue>>
  BY DEF HA!Handles, HA!UpdateVars, HA!clientVars, HA!serverVars
<1>2. /\ handled \in Seq(M) /\ local \in Seq(M)
  BY Types DEF ServiceInv
<1> HIDE DEF M
<1>3. /\ handled' \in Seq(M) /\ local' \in Seq(M) /\ handled' \o local' = handled \o local
      /\ Len(handled') = Len(handled) + 1 /\ Len(handled) \in Nat /\ t = local[1]
      /\ Len(local) >= 1
  BY <1>1, <1>2, MoveOver
<1>4. /\ handled'[Len(handled) + 1] = t /\ \A i \in 1 .. Len(handled) : handled'[i] = handled[i]
  <2>1. t \in M
    BY <1>2, <1>3
  <2> QED BY <1>1, <1>2, <2>1
<1>5. Seen' = Seen
  BY <1>1, <1>3 DEF Seen
<1>6. Delivery'
  BY <1>1, <1>5 DEF ServiceInv, Delivery
<1>7. /\ 1 \in 1 .. Len(local) /\ Seen[Len(handled) + 1] = local[1] /\ Len(handled) + 1 \in 1 .. Len(Seen)
      /\ Len(Seen) <= Len(served) /\ Len(served) \in Nat /\ Len(Seen) \in Nat
      /\ \A i \in 1 .. Len(handled) : Seen[i] = handled[i] /\ i \in 1 .. Len(Seen)
  <2>1. HA!TypeOK /\ Len(Seen) <= Len(served)
    BY DEF ServiceInv, Delivery
  <2>2. 1 \in 1 .. Len(local)
    BY <1>3, <2>1, SeenIs
  <2> QED BY <1>3, <2>1, <2>2, SeenIs
<1>8. t = served[Len(handled) + 1] /\ Len(handled) + 1 \in 1 .. Len(served)
  BY <1>3, <1>7 DEF ServiceInv, Delivery
<1>9. \A i \in 1 .. Len(handled) : handled[i] = served[i]
  BY <1>7 DEF ServiceInv, Delivery
<1> QED BY <1>1, <1>3, <1>4, <1>6, <1>8, <1>9 DEF M

\* A frame spawned goes behind the others.
LEMMA Spawning ==
  ASSUME ServiceInv, NEW f \in HA!Frame, UNCHANGED <<answered, writing>>,
         spawned' = spawned \/ spawned' = HA!Sent(<<f>>)
  PROVE  /\ spawned' \in Seq(HA!Frame)
         /\ \/ Frames' = Frames /\ spawned' = spawned
            \/ Frames' = Append(Frames, f) /\ Len(spawned') = Len(spawned) + 1
<1> DEFINE F == HA!Frame
<1>1. answered \in Seq(F) /\ writing \in Seq(F) /\ spawned \in Seq(F)
  BY Types DEF ServiceInv
<1>2. CASE spawned' = spawned
  BY <1>1, <1>2 DEF Frames
<1>3. CASE spawned' = spawned \o <<f>>
  <2>1. spawned' = Append(spawned, f) /\ spawned' \in Seq(F) /\ Len(spawned') = Len(spawned) + 1
    BY <1>1, <1>3
  <2>2. answered \o writing \in Seq(F)
    BY <1>1
  <2>3. Frames' = Append(Frames, f)
    <3> HIDE DEF F
    <3>1. Frames' = (answered \o writing) \o Append(spawned, f)
      BY <2>1 DEF Frames
    <3>2. f \in F
      BY DEF F
    <3> QED BY <1>1, <2>2, <3>1, <3>2, ConcatAppend DEF Frames
  <2> QED BY <2>1, <2>3
<1> QED BY <1>2, <1>3 DEF HA!Sent

\* Which message is where.
LEMMA Position ==
  ASSUME ServiceInv, NEW i \in 1 .. Len(served)
  PROVE  \/ i = 1 /\ served[i] = "auth_required"
         \/ i = 2 /\ served[i] \in {"auth_ok", "auth_invalid"}
         \/ i = 3 /\ served[i] = "result" /\ served[2] = "auth_ok"
<1> DEFINE n == Len(served)
<1>1. n \in Nat /\ n <= 3
  BY SeenIs DEF ServiceInv, Dialogue
<1>2. /\ n >= 1 => served[1] = "auth_required"
      /\ n >= 2 => served[2] \in {"auth_ok", "auth_invalid"}
      /\ n >= 3 => served[2] = "auth_ok" /\ served[3] = "result"
  BY DEF ServiceInv, Dialogue
<1>3. i \in 1 .. n
  OBVIOUS
<1> HIDE DEF n
<1>4. (i = 1 /\ n >= 1) \/ (i = 2 /\ n >= 2) \/ (i = 3 /\ n >= 3)
  BY <1>1, <1>3
<1> QED BY <1>2, <1>4

\* The challenge is handled first: nothing has been said before.
LEMMA ChallengeHandled ==
  ASSUME ServiceInv, HA!Handles("auth_required"), service' \in {"running", "terminated"},
         UNCHANGED <<m_Authenticated, m_MessageID>>,
         spawned' = spawned \/ spawned' = HA!Sent(<<HA!Auth>>)
  PROVE  ServiceInv'
<1>1. HA!Auth \in HA!Frame
  BY DEF HA!Auth, HA!Frame
<1>2. Len(handled) + 1 \in 1 .. Len(served) /\ served[Len(handled) + 1] = "auth_required"
      /\ Len(handled) \in Nat
  BY Handling
<1>3. Len(handled) = 0
  <2>1. Len(handled) + 1 = 1
    BY <1>2, Position
  <2> QED BY <1>2, <2>1
<1>4. /\ Len(Frames) = 0 /\ Len(answered) = 0 /\ Len(writing) = 0 /\ Len(spawned) = 0
  <2>1. Len(Frames) = 0
    BY <1>3, FramesIs DEF ServiceInv, Dialogue
  <2> QED BY <2>1, FramesIs DEF ServiceInv
<1>5. ~Accepted /\ ~Accepted' /\ Len(handled') = 1
  BY <1>3, Handling DEF Accepted
<1>6. spawned' \in Seq(HA!Frame) /\ Len(Frames') <= 1 /\ Len(spawned') <= 1
      /\ (Len(Frames') >= 1 => Frames'[1] = HA!Auth)
  <2>1. CASE Frames' = Frames /\ spawned' = spawned
    BY <1>1, <1>4, <2>1, Spawning, Handling
  <2>2. CASE Frames' = Append(Frames, HA!Auth) /\ Len(spawned') = Len(spawned) + 1
    <3>1. Frames \in Seq(HA!Frame)
      BY FramesIs DEF ServiceInv
    <3>2. Len(Frames') = 1 /\ Frames'[1] = HA!Auth
      BY <1>1, <1>4, <2>2, <3>1
    <3> QED BY <1>1, <1>4, <2>2, <3>2, Spawning, Handling
  <2> QED BY <1>1, <2>1, <2>2, Spawning, Handling
<1>7. HA!TypeOK'
  BY <1>6, Handling DEF ServiceInv, HA!TypeOK
<1>8. Dialogue'
  BY <1>2, <1>3, <1>4, <1>5, <1>6, Handling DEF ServiceInv, Dialogue
<1> QED BY <1>7, <1>8, Handling DEF ServiceInv

\* The answer to the token is handled second, once the token has been written.
LEMMA AcceptanceHandled ==
  ASSUME ServiceInv, HA!Handles("auth_ok"), service' = service, m_Authenticated' = TRUE,
         m_MessageID' = m_MessageID + 1, spawned' = HA!Sent(<<HA!GetStates(m_MessageID)>>)
  PROVE  ServiceInv'
<1>1. Len(handled) + 1 \in 1 .. Len(served) /\ served[Len(handled) + 1] = "auth_ok"
      /\ Len(handled) \in Nat
  BY Handling
<1>2. Len(handled) = 1 /\ Len(served) >= 2 /\ Len(served) \in Nat
  <2> DEFINE n == Len(handled)
             k == Len(served)
  <2>1. n + 1 = 2
    BY <1>1, Position
  <2>2. n \in Nat /\ k \in Nat /\ n + 1 \in 1 .. k
    BY <1>1, SeenIs DEF ServiceInv
  <2> HIDE DEF n, k
  <2>3. n = 1 /\ k >= 2 /\ k \in Nat
    BY <2>1, <2>2
  <2> QED BY <2>3 DEF n, k
<1>3. ~Accepted /\ m_MessageID = 1 /\ Len(answered) >= 1
  BY <1>2 DEF Accepted, ServiceInv, Dialogue
<1>4. Accepted'
  BY <1>2, Handling DEF Accepted
<1>5. /\ Len(Frames) = 1 /\ Len(answered) = 1 /\ Len(writing) = 0 /\ Len(spawned) = 0
      /\ Frames[1] = HA!Auth
  <2>1. ~(Len(Frames) >= 2) /\ (Len(Frames) >= 1 => Frames[1] = HA!Auth)
    BY <1>3 DEF ServiceInv, Dialogue
  <2>2. /\ Len(Frames) = Len(answered) + Len(writing) + Len(spawned)
        /\ Len(answered) \in Nat /\ Len(writing) \in Nat /\ Len(spawned) \in Nat
    BY FramesIs DEF ServiceInv
  <2> QED BY <1>3, <2>1, <2>2
<1> DEFINE f == HA!GetStates(1)
<1>6. f \in HA!Frame /\ spawned' = HA!Sent(<<f>>)
  BY <1>3 DEF HA!GetStates, HA!Frame
<1> HIDE DEF f
<1>7. spawned' \in Seq(HA!Frame) /\ Len(Frames') <= 2 /\ Len(spawned') <= 1
      /\ Len(Frames') >= 1 /\ Frames'[1] = HA!Auth /\ (Len(Frames') >= 2 => Frames'[2] = f)
  <2>1. UNCHANGED <<answered, writing>> /\ (spawned' = spawned \/ spawned' = HA!Sent(<<f>>))
    BY <1>6, Handling
  <2>2. /\ spawned' \in Seq(HA!Frame)
        /\ \/ Frames' = Frames /\ spawned' = spawned
           \/ Frames' = Append(Frames, f) /\ Len(spawned') = Len(spawned) + 1
    BY <1>6, <2>1, Spawning
  <2>3. CASE Frames' = Frames /\ spawned' = spawned
    <3>1. Len(Frames') = 1 /\ Len(spawned') = 0 /\ Frames'[1] = Frames[1]
      BY <1>5, <2>3
    <3> QED BY <1>5, <2>2, <3>1
  <2>4. CASE Frames' = Append(Frames, f) /\ Len(spawned') = Len(spawned) + 1
    <3>1. Frames \in Seq(HA!Frame)
      BY FramesIs DEF ServiceInv
    <3> DEFINE F == HA!Frame
    <3> HIDE DEF F
    <3>a. \A q \in Seq(F), y \in F : Len(q) = 1 =>
            Len(Append(q, y)) = 2 /\ Append(q, y)[1] = q[1] /\ Append(q, y)[2] = y
      BY AppendSecond
    <3>2. Len(Frames') = 2 /\ Frames'[1] = Frames[1] /\ Frames'[2] = f
      BY <1>5, <1>6, <2>4, <3>1, <3>a DEF F
    <3>3. Len(spawned') = 1
      BY <1>5, <2>4
    <3> QED BY <1>5, <2>2, <3>2, <3>3
  <2> QED BY <2>2, <2>3, <2>4
<1>8. HA!TypeOK'
  <2>1. {m_IsConnected', m_Authenticated'} \subseteq BOOLEAN
    <3>1. m_IsConnected' \in BOOLEAN
      BY Types, Handling DEF ServiceInv
    <3> QED BY <3>1, Zenon
  <2>2. m_MessageID' \in Nat \ {0}
    BY <1>3
  <2> QED BY <1>7, <2>1, <2>2, Handling DEF ServiceInv, HA!TypeOK
<1>9. Dialogue'
  <2>1. m_MessageID' = 2 /\ m_Authenticated' /\ Len(handled') = 2
    BY <1>2, <1>3, Handling
  <2>2. Len(spawned') + Len(writing') <= 1
    BY <1>5, <1>7, Handling
  <2> QED BY <1>4, <1>7, <2>1, <2>2, Handling DEF ServiceInv, Dialogue, f
<1> QED BY <1>8, <1>9, Handling DEF ServiceInv

\* A refusal, or the states: nothing more is said.
LEMMA LastHandled ==
  ASSUME ServiceInv, NEW t \in {"auth_invalid", "result"}, HA!Handles(t), service' = service,
         UNCHANGED <<spawned, m_MessageID>>,
         m_Authenticated' = IF t = "auth_invalid" THEN FALSE ELSE m_Authenticated
  PROVE  ServiceInv'
<1>1. Len(handled) + 1 \in 1 .. Len(served) /\ served[Len(handled) + 1] = t /\ Len(handled) \in Nat
      /\ Len(handled') = Len(handled) + 1 /\ handled'[Len(handled) + 1] = t
  BY Handling
<1>2. \/ t = "auth_invalid" /\ Len(handled) = 1
      \/ t = "result" /\ Len(handled) = 2 /\ served[2] = "auth_ok"
  <2> DEFINE n == Len(handled)
  <2>1. \/ n + 1 = 2 /\ t = "auth_invalid"
        \/ n + 1 = 3 /\ t = "result" /\ served[2] = "auth_ok"
    BY <1>1, Position
  <2>2. n \in Nat
    BY <1>1
  <2> HIDE DEF n
  <2>3. (n + 1 = 2 => n = 1) /\ (n + 1 = 3 => n = 2)
    BY <2>2
  <2> QED BY <2>1, <2>3 DEF n
<1>3. Accepted' <=> Accepted
  BY <1>1, <1>2, Handling DEF Accepted
<1>4. m_Authenticated' <=> Accepted
  <2>1. CASE t = "auth_invalid"
    <3>1. ~Accepted
      BY <1>2, <2>1 DEF Accepted
    <3> QED BY <2>1, <3>1
  <2>2. CASE t = "result"
    BY <2>2 DEF ServiceInv, Dialogue
  <2> QED BY <2>1, <2>2
<1>5. HA!TypeOK'
  <2>1. {m_IsConnected', m_Authenticated'} \subseteq BOOLEAN
    <3>1. m_IsConnected' \in BOOLEAN /\ m_Authenticated' \in BOOLEAN
      BY Types, Handling DEF ServiceInv
    <3> QED BY <3>1, Zenon
  <2> QED BY <2>1, Handling DEF ServiceInv, HA!TypeOK
<1>6. Frames' = Frames /\ Len(handled) \in Nat
  BY Handling DEF Frames
<1>7. Len(handled) >= 1 => Len(handled') >= 1
  BY <1>1
<1>8. Dialogue'
  BY <1>3, <1>4, <1>6, <1>7, Handling DEF ServiceInv, Dialogue
<1> QED BY <1>5, <1>8, Handling DEF ServiceInv

LEMMA ServiceStep ==
  ASSUME ServiceInv, HA!Next \/ UNCHANGED serviceVars PROVE ServiceInv'
<1>1. CASE HA!Server
  BY <1>1, ServerStep
<1>2. CASE HA!LinkLost
  BY <1>2, LinkLostStep
<1>3. CASE HA!ReadLoopReceives
  BY <1>3, ReceiveStep
<1>4. CASE HA!SendStarts
  BY <1>4, SendStartsStep
<1>5. CASE HA!SendEnds
  BY <1>5, SendEndsStep
<1>6. CASE HA!SendFails
  BY <1>6, SendFailsStep
<1>7. CASE HA!Update
  BY <1>7, SwapStep
<1>8. CASE HA!HandleAuthRequired \/ HA!TokenReadThrows
  <2>1. HA!Handles("auth_required") /\ UNCHANGED <<m_Authenticated, m_MessageID>>
    BY <1>8 DEF HA!HandleAuthRequired, HA!TokenReadThrows
  <2>2. spawned' = spawned \/ spawned' = HA!Sent(<<HA!Auth>>)
    BY <1>8 DEF HA!HandleAuthRequired, HA!TokenReadThrows
  <2>3. service' \in {"running", "terminated"}
    BY <1>8 DEF HA!HandleAuthRequired, HA!TokenReadThrows, HA!Handles
  <2> QED BY <2>1, <2>2, <2>3, ChallengeHandled
<1>9. CASE HA!HandleAuthOk
  BY <1>9, AcceptanceHandled DEF HA!HandleAuthOk
<1>10. CASE HA!HandleAuthInvalid \/ HA!HandleResult
  BY <1>10, LastHandled DEF HA!HandleAuthInvalid, HA!HandleResult
<1>11. CASE \/ HA!Connected \/ HA!ConnectFails \/ HA!ReadLoopChecks \/ HA!ReadLoopFails \/ HA!Destroy
            \/ UNCHANGED serviceVars
  <2>1. /\ UNCHANGED <<served, answered, writing, spawned, handled, local, m_MessageQueue, inbound,
                       m_MessageID, m_Authenticated, secrets>>
        /\ link' = link \/ link' = "lost" \/ link = "none"
    BY <1>11 DEF HA!Connected, HA!ConnectFails, HA!ReadLoopChecks, HA!ReadLoopFails, HA!Destroy, serviceVars,
                 HA!ReaderVars, HA!sendVars, HA!serverVars, HA!serviceVars, HA!clientVars, HA!UpdateVars
  <2>2. /\ link' \in {"none", "up", "lost"} /\ wsReader' \in {"none", "check", "await", "ended"}
        /\ service' \in {"running", "stopped", "terminated"}
    BY <1>11 DEF HA!Connected, HA!ConnectFails, HA!ReadLoopChecks, HA!ReadLoopFails, HA!Destroy, serviceVars,
                 HA!ReaderVars, HA!sendVars, HA!serverVars, HA!serviceVars, HA!clientVars, HA!UpdateVars,
                 ServiceInv, HA!TypeOK
  <2>3. m_IsConnected' \in BOOLEAN
    <3>1. m_IsConnected' = m_IsConnected \/ m_IsConnected' = TRUE \/ m_IsConnected' = FALSE
      BY <1>11 DEF HA!Connected, HA!ConnectFails, HA!ReadLoopChecks, HA!ReadLoopFails, HA!Destroy, serviceVars,
                 HA!ReaderVars, HA!sendVars, HA!serverVars, HA!serviceVars, HA!clientVars, HA!UpdateVars
    <3> QED BY <3>1, Types DEF ServiceInv
  <2>4. {m_IsConnected', m_Authenticated'} \subseteq BOOLEAN
    <3>1. m_Authenticated' \in BOOLEAN
      BY <2>1, Types DEF ServiceInv
    <3> QED BY <2>3, <3>1, Zenon
  <2>5. HA!TypeOK'
    BY <2>1, <2>2, <2>4 DEF ServiceInv, HA!TypeOK
  <2> QED BY <2>1, <2>5, FlagStep
<1> QED BY <1>1, <1>2, <1>3, <1>4, <1>5, <1>6, <1>7, <1>8, <1>9, <1>10, <1>11
        DEF HA!Next, HA!Network, HA!Main

-----------------------------------------------------------------------------
\* Whatever the manager does is a step of the service or leaves the service alone.
LEMMA ManagerIsService ==
  [ManagerNext]_managerVars => HA!Next \/ UNCHANGED serviceVars
BY DEF ManagerNext, managerVars, Outside, SensorCoroutine, ServiceCoroutines, ManagerMain, UpdateService,
       UpdateSensor, ManagerDestroy, HA!Next

\* The service's part of the manager stays in the inductive invariant.
LEMMA ServiceInvariant == ManagerSpec => []ServiceInv
<1>1. ManagerInit => ServiceInv
  BY ServiceInit DEF ManagerInit
<1>2. ServiceInv /\ [ManagerNext]_managerVars => ServiceInv'
  BY ServiceStep, ManagerIsService
<1> QED BY <1>1, <1>2, PTL DEF ManagerSpec

\* A Beast stream allows one async_write at a time, and send does not queue: no second
\* payload is ever spawned before the first has been written and answered.
THEOREM SpecOneWriter == ManagerSpec => []OneWriter
<1>1. ServiceInv => OneWriter
  <2> SUFFICES ASSUME ServiceInv PROVE OneWriter
    OBVIOUS
  <2>1. spawned \in Seq(HA!Frame) /\ writing \in Seq(HA!Frame)
    BY Types DEF ServiceInv
  <2>2. Len(spawned \o writing) = Len(spawned) + Len(writing)
    BY <2>1
  <2> QED BY <2>2 DEF ServiceInv, Dialogue, OneWriter, HA!OneWriter
<1> QED BY <1>1, ServiceInvariant, PTL

\* However the network thread and update interleave, the service handles what the server
\* sends in order and once, and loses none while the link is up.
THEOREM SpecInOrder == ManagerSpec => []InOrder
<1>1. ServiceInv => InOrder
  <2> SUFFICES ASSUME ServiceInv PROVE InOrder
    OBVIOUS
  <2> DEFINE M == HA!MessageType
             n == Len(Seen)
             k == Len(served)
  <2>1. Seen \in Seq(M) /\ n \in Nat /\ served \in Seq(M) /\ k \in Nat /\ n <= k
    BY SeenIs, Types DEF ServiceInv, Delivery
  <2>2. \A i \in 1 .. n : Seen[i] = served[i]
    BY DEF ServiceInv, Delivery
  <2>3. link = "up" => n = k
    BY DEF ServiceInv, Delivery
  <2> HIDE DEF M, n, k
  <2>4. SubSeq(served, 1, n) \in Seq(M) /\ Len(SubSeq(served, 1, n)) = n
        /\ \A i \in 1 .. n : SubSeq(served, 1, n)[i] = served[i]
    BY <2>1 DEF k
  <2>5. Seen = SubSeq(served, 1, n)
    BY <2>1, <2>2, <2>4, SeqEqual DEF n
  <2>6. link = "up" => Seen = served
    BY <2>1, <2>2, <2>3, SeqEqual DEF n, k
  <2> QED BY <2>1, <2>5, <2>6 DEF InOrder, HA!InOrder, Seen, n, k
<1> QED BY <1>1, ServiceInvariant, PTL

\* A command is on its way only if the server has accepted the token and the service
\* knows it, and its id has not been used.
THEOREM SpecCommandsAuthenticated == ManagerSpec => []CommandsAuthenticated
<1>1. ServiceInv => CommandsAuthenticated
  <2> SUFFICES ASSUME ServiceInv PROVE CommandsAuthenticated
    OBVIOUS
  <2>1. Frames \in Seq(HA!Frame) /\ Len(Frames) \in Nat /\ Len(Frames) <= 2
    BY FramesIs DEF ServiceInv, Dialogue
  <2>2. \A i \in DOMAIN Frames : i = 1 \/ (i = 2 /\ Len(Frames) >= 2)
    <3> DEFINE n == Len(Frames)
    <3>1. n \in Nat /\ n <= 2 /\ DOMAIN Frames = 1 .. n
      BY <2>1
    <3> HIDE DEF n
    <3>2. \A i \in 1 .. n : i = 1 \/ (i = 2 /\ n >= 2)
      BY <3>1
    <3> QED BY <3>1, <3>2 DEF n
  <2>3. 1 \in DOMAIN Frames => Frames[1] = [type |-> "auth", id |-> 0]
    BY <2>1 DEF ServiceInv, Dialogue, HA!Auth
  <2>4. Len(Frames) >= 2 => /\ Frames[2] = [type |-> "get_states", id |-> 1] /\ Accepted
                            /\ m_MessageID = 2 /\ m_Authenticated
    BY DEF ServiceInv, Dialogue, HA!GetStates
  <2>5. Accepted => HA!Has(handled, "auth_ok")
    <3>1. handled \in Seq(HA!MessageType)
      BY Types DEF ServiceInv
    <3>2. Accepted => 2 \in DOMAIN handled /\ handled[2] = "auth_ok"
      BY <3>1 DEF Accepted
    <3> QED BY <3>2 DEF HA!Has
  <2>6. ASSUME NEW i \in DOMAIN Frames, Frames[i].type = "get_states"
        PROVE  /\ HA!Has(handled, "auth_ok") /\ m_Authenticated
               /\ Frames[i].id < m_MessageID
               /\ \A j \in DOMAIN Frames : Frames[j].id = Frames[i].id => j = i
    <3>1. i # 1
      BY <2>3, <2>6
    <3>2. i = 2 /\ Len(Frames) >= 2
      BY <2>2, <2>6, <3>1
    <3>3. Frames[i].id = 1
      BY <2>4, <3>2
    <3>4. \A j \in DOMAIN Frames : j # 2 => Frames[j].id = 0
      BY <2>2, <2>3
    <3> QED BY <2>4, <2>5, <3>2, <3>3, <3>4
  <2> QED BY <2>6 DEF CommandsAuthenticated, HA!CommandsAuthenticated, Frames
<1> QED BY <1>1, ServiceInvariant, PTL

-----------------------------------------------------------------------------
\* The sensor's stream.  The lines on the engine's side, oldest first, and the bytes
\* behind them.
Lines == dispatched \o batch \o queue
Bytes == buffer \o wire

\* The bytes of whole lines, from the line after number n on; the last may be cut.
Alternating(s, n) ==
  \A j \in 0 .. Len(s) :
    /\ 2 * j + 1 <= Len(s) => s[2 * j + 1] = Text(n + j + 1)
    /\ 2 * j + 2 <= Len(s) => s[2 * j + 2] = Newline(n + j + 1)

\* Line i is message i, and what is not a line yet is the bytes of the messages that follow.
StreamInv ==
  /\ StreamTypeOK
  /\ \A i \in 1 .. Len(sent) : sent[i] = i
  /\ \A i \in 1 .. Len(Lines) : Lines[i] = <<Text(i)>>
  /\ Alternating(Bytes, Len(Lines))
  /\ Len(Bytes) <= 2 * (Len(sent) - Len(Lines))
  /\ conn # "closed" => Len(Bytes) = 2 * (Len(sent) - Len(Lines))
  /\ conn \in {"none", "pending"} => sent = <<>>
  /\ reader = "connect" => conn = "none"

LEMMA BytesAre ==
  ASSUME NEW m
  PROVE  /\ IsNewline(Newline(m)) /\ ~IsNewline(Text(m)) /\ Newline(m)[1] = m /\ Text(m)[1] = m
         /\ m \in Message => Newline(m) \in Byte /\ Text(m) \in Byte /\ <<Text(m)>> \in Line
BY DEF IsNewline, Newline, Text, Byte, Line

LEMMA StreamTypes ==
  ASSUME StreamTypeOK
  PROVE  /\ sent \in Seq(Message) /\ wire \in Seq(Byte) /\ buffer \in Seq(Byte)
         /\ queue \in Seq(Line) /\ batch \in Seq(Line) /\ dispatched \in Seq(Line)
         /\ Len(sent) \in Nat
BY DEF StreamTypeOK

LEMMA LinesAre ==
  ASSUME StreamTypeOK
  PROVE  /\ Lines \in Seq(Line) /\ Len(Lines) = Len(dispatched) + Len(batch) + Len(queue)
         /\ Len(dispatched) \in Nat /\ Len(batch) \in Nat /\ Len(queue) \in Nat /\ Len(Lines) \in Nat
<1> DEFINE a == dispatched \o batch
<1>1. dispatched \in Seq(Line) /\ batch \in Seq(Line) /\ queue \in Seq(Line)
  BY StreamTypes
<1>2. a \in Seq(Line) /\ Len(a) = Len(dispatched) + Len(batch)
  BY <1>1, ConcatIs
<1> HIDE DEF a
<1>3. Lines = a \o queue
  BY DEF Lines, a
<1>4. Lines \in Seq(Line) /\ Len(Lines) = Len(a) + Len(queue)
  BY <1>1, <1>2, <1>3, ConcatIs
<1> QED BY <1>1, <1>2, <1>4

LEMMA BytesIs ==
  ASSUME StreamTypeOK
  PROVE  /\ Bytes \in Seq(Byte) /\ Len(Bytes) = Len(buffer) + Len(wire)
         /\ Len(buffer) \in Nat /\ Len(wire) \in Nat /\ Len(Bytes) \in Nat
         /\ \A i \in 1 .. Len(buffer) : Bytes[i] = buffer[i]
         /\ \A i \in 1 .. Len(wire) : Bytes[Len(buffer) + i] = wire[i]
BY StreamTypes, ConcatIs DEF Bytes

LEMMA StreamInitOK == StreamInit => StreamInv
<1> SUFFICES ASSUME StreamInit PROVE StreamInv
  OBVIOUS
<1>1. StreamTypeOK
  <2>1. <<>> \in Seq(Message) /\ <<>> \in Seq(Byte) /\ <<>> \in Seq(Line)
    OBVIOUS
  <2>2. {queue, batch, dispatched} \subseteq Seq(Line)
    BY <2>1 DEF StreamInit
  <2> QED BY <2>1, <2>2 DEF StreamInit, StreamTypeOK
<1>2. Len(Lines) = 0 /\ Len(Bytes) = 0 /\ Len(sent) = 0
  BY <1>1, LinesAre, BytesIs DEF StreamInit
<1>3. Alternating(Bytes, Len(Lines))
  BY <1>2 DEF Alternating
<1> QED BY <1>1, <1>2, <1>3 DEF StreamInv, StreamInit

\* A step that neither lines nor bytes move in.
LEMMA StillStep ==
  ASSUME StreamInv, StreamTypeOK', Lines' = Lines, Bytes' = Bytes, sent' = sent,
         conn' # "closed" => conn # "closed",
         conn' \in {"none", "pending"} => conn \in {"none", "pending"},
         reader' = "connect" => conn' = "none"
  PROVE  StreamInv'
<1>1. Alternating(Bytes, Len(Lines))'
  BY DEF StreamInv, Alternating
<1> QED BY <1>1 DEF StreamInv

LEMMA BroadcastStep == ASSUME StreamInv, ServerBroadcasts PROVE StreamInv'
<1> DEFINE n == Len(sent)
           k == Len(Lines)
           m == n + 1
<1>1. /\ conn = "accepted" /\ n < MaxMessages /\ sent' = Append(sent, m)
      /\ wire' = wire \o <<Text(m), Newline(m)>>
      /\ UNCHANGED <<server, conn, reader, buffer, queue, batch, dispatched, app>>
  BY DEF ServerBroadcasts, readerVars, mainVars
<1>2. /\ sent \in Seq(Message) /\ n \in Nat /\ wire \in Seq(Byte) /\ buffer \in Seq(Byte) /\ k \in Nat
  BY StreamTypes, LinesAre DEF StreamInv
<1>3. m \in Message
  BY <1>1, <1>2, StreamAssumption DEF Message
<1>4. Text(m) \in Byte /\ Newline(m) \in Byte
  BY <1>3, BytesAre
<1> DEFINE x == Text(m)
           y == Newline(m)
<1> HIDE DEF x, y
<1>5. /\ Bytes' = Append(Append(Bytes, x), y) /\ wire' \in Seq(Byte)
  <2>1. wire' = Append(Append(wire, x), y)
    BY <1>1, <1>2, <1>4 DEF x, y
  <2>2. Append(wire, x) \in Seq(Byte) /\ Append(Append(wire, x), y) \in Seq(Byte)
    BY <1>2, <1>4 DEF x, y
  <2>3. \A w \in Seq(Byte), z \in Byte : buffer \o Append(w, z) = Append(buffer \o w, z)
    BY <1>2, ConcatAppend
  <2> QED BY <1>1, <1>2, <1>4, <2>1, <2>2, <2>3 DEF Bytes, x, y
<1>6. Bytes \in Seq(Byte) /\ Len(Bytes) \in Nat /\ Len(Bytes) = 2 * (n - k)
  BY <1>1, BytesIs DEF StreamInv
<1>7. /\ Len(Bytes') = Len(Bytes) + 2 /\ Bytes'[Len(Bytes) + 1] = x /\ Bytes'[Len(Bytes) + 2] = y
      /\ \A i \in 1 .. Len(Bytes) : Bytes'[i] = Bytes[i]
  <2> DEFINE b == Append(Bytes, x)
  <2>1. /\ b \in Seq(Byte) /\ Len(b) = Len(Bytes) + 1 /\ b[Len(Bytes) + 1] = x
        /\ \A i \in 1 .. Len(Bytes) : b[i] = Bytes[i]
    BY <1>4, <1>6 DEF x
  <2> HIDE DEF b
  <2>2. Len(Append(b, y)) = Len(b) + 1 /\ Append(b, y)[Len(b) + 1] = y
        /\ \A i \in 1 .. Len(b) : Append(b, y)[i] = b[i]
    BY <1>4, <2>1 DEF y
  <2>3. Bytes' = Append(b, y)
    BY <1>5 DEF b
  <2> QED BY <1>6, <2>1, <2>2, <2>3
<1>8. Lines' = Lines
  BY <1>1 DEF Lines
<1>9. /\ sent' \in Seq(Message) /\ Len(sent') = n + 1 /\ sent'[n + 1] = m
      /\ \A i \in 1 .. n : sent'[i] = sent[i]
  BY <1>1, <1>2, <1>3
<1>10. \A i \in 1 .. Len(sent') : sent'[i] = i
  <2>1. \A i \in 1 .. n : sent[i] = i
    BY DEF StreamInv
  <2>2. \A i \in 1 .. n + 1 : i \in 1 .. n \/ i = n + 1
    BY <1>2
  <2> QED BY <1>9, <2>1, <2>2
<1>11. Alternating(Bytes', k)
  <2> SUFFICES ASSUME NEW j \in 0 .. Len(Bytes')
               PROVE  /\ 2 * j + 1 <= Len(Bytes') => Bytes'[2 * j + 1] = Text(k + j + 1)
                      /\ 2 * j + 2 <= Len(Bytes') => Bytes'[2 * j + 2] = Newline(k + j + 1)
    BY DEF Alternating
  <2>1. j \in Nat
    BY <1>6, <1>7
  <2>2. CASE j < n - k
    <3>1. j \in 0 .. Len(Bytes) /\ 2 * j + 1 \in 1 .. Len(Bytes) /\ 2 * j + 2 \in 1 .. Len(Bytes)
      BY <1>2, <1>6, <2>1, <2>2
    <3>2. Bytes[2 * j + 1] = Text(k + j + 1) /\ Bytes[2 * j + 2] = Newline(k + j + 1)
      BY <3>1 DEF StreamInv, Alternating
    <3> QED BY <1>7, <3>1, <3>2
  <2>3. CASE j = n - k
    <3>1. 2 * j + 1 = Len(Bytes) + 1 /\ 2 * j + 2 = Len(Bytes) + 2 /\ k + j + 1 = m
      BY <1>2, <1>6, <2>3
    <3> QED BY <1>7, <3>1 DEF x, y
  <2>4. CASE j > n - k
    <3>1. ~(2 * j + 1 <= Len(Bytes')) /\ ~(2 * j + 2 <= Len(Bytes'))
      BY <1>2, <1>6, <1>7, <2>1, <2>4
    <3> QED BY <3>1
  <2> QED BY <1>2, <2>1, <2>2, <2>3, <2>4
<1>12. Len(Bytes') = 2 * (Len(sent') - Len(Lines'))
  BY <1>2, <1>6, <1>7, <1>8, <1>9
<1>13. StreamTypeOK'
  BY <1>1, <1>5, <1>9 DEF StreamInv, StreamTypeOK
<1>14. Alternating(Bytes, Len(Lines))'
  BY <1>8, <1>11
<1>15. \A i \in 1 .. Len(Lines') : Lines'[i] = <<Text(i)>>
  BY <1>8 DEF StreamInv
<1> QED BY <1>1, <1>10, <1>12, <1>13, <1>14, <1>15 DEF StreamInv

\* Of the bytes on their way a prefix arrives.
LEMMA GoneStep == ASSUME StreamInv, ServerGone PROVE StreamInv'
<1>1. /\ server' = FALSE /\ conn' = (IF conn = "none" THEN "none" ELSE "closed")
      /\ UNCHANGED <<sent, reader, buffer, queue, batch, dispatched, app>>
  BY DEF ServerGone, readerVars, mainVars
<1>2. PICK n \in 0 .. Len(wire) : wire' = SubSeq(wire, 1, n)
  BY DEF ServerGone
<1>3. wire \in Seq(Byte) /\ buffer \in Seq(Byte) /\ wire' \in Seq(Byte) /\ Len(wire') = n
      /\ \A i \in 1 .. n : wire'[i] = wire[i]
  BY <1>2, StreamTypes, CutIs DEF StreamInv
<1>4. StreamTypeOK'
  BY <1>1, <1>3 DEF StreamInv, StreamTypeOK
<1>5. /\ Bytes \in Seq(Byte) /\ Len(Bytes) = Len(buffer) + Len(wire) /\ Len(Bytes') = Len(buffer) + n
      /\ Len(buffer) \in Nat /\ Len(wire) \in Nat /\ n \in Nat /\ n <= Len(wire)
      /\ \A i \in 1 .. Len(Bytes') : Bytes'[i] = Bytes[i] /\ i \in 1 .. Len(Bytes)
  <2>1. /\ Bytes \in Seq(Byte) /\ Len(Bytes) = Len(buffer) + Len(wire)
        /\ Len(buffer) \in Nat /\ Len(wire) \in Nat /\ n \in Nat /\ n <= Len(wire)
        /\ \A i \in 1 .. Len(buffer) : Bytes[i] = buffer[i]
        /\ \A i \in 1 .. Len(wire) : Bytes[Len(buffer) + i] = wire[i]
    BY BytesIs DEF StreamInv
  <2> DEFINE w == wire'
  <2>2. w \in Seq(Byte) /\ Len(w) = n /\ Bytes' = buffer \o w
    BY <1>1, <1>3 DEF Bytes
  <2> HIDE DEF w
  <2>3. /\ Len(Bytes') = Len(buffer) + n
        /\ \A i \in 1 .. Len(buffer) : Bytes'[i] = buffer[i]
        /\ \A i \in 1 .. n : Bytes'[Len(buffer) + i] = w[i]
    BY <1>3, <2>2, ConcatIs
  <2>4. ASSUME NEW i \in 1 .. Len(Bytes') PROVE Bytes'[i] = Bytes[i] /\ i \in 1 .. Len(Bytes)
    <3>1. CASE i <= Len(buffer)
      BY <2>1, <2>3, <3>1
    <3>2. CASE i > Len(buffer)
      <4>1. i - Len(buffer) \in 1 .. n /\ i - Len(buffer) \in 1 .. Len(wire)
            /\ Len(buffer) + (i - Len(buffer)) = i /\ i \in 1 .. Len(Bytes)
        BY <2>1, <2>3, <3>2
      <4>2. Bytes'[i] = w[i - Len(buffer)] /\ Bytes[i] = wire[i - Len(buffer)]
        BY <2>1, <2>3, <4>1
      <4> QED BY <1>3, <4>1, <4>2 DEF w
    <3> QED BY <2>1, <2>3, <3>1, <3>2
  <2> QED BY <2>1, <2>3, <2>4
<1>6. Lines' = Lines /\ sent' = sent
  BY <1>1 DEF Lines
<1>7. Alternating(Bytes', Len(Lines))
  <2> DEFINE b == Bytes'
  <2>1. /\ Len(b) \in Nat /\ Len(Bytes) \in Nat /\ Len(b) <= Len(Bytes)
        /\ \A i \in 1 .. Len(b) : b[i] = Bytes[i]
    BY <1>5
  <2>2. Alternating(Bytes, Len(Lines))
    BY DEF StreamInv
  <2> HIDE DEF b
  <2>3. ASSUME NEW j \in 0 .. Len(b)
        PROVE  /\ 2 * j + 1 <= Len(b) => b[2 * j + 1] = Text(Len(Lines) + j + 1)
               /\ 2 * j + 2 <= Len(b) => b[2 * j + 2] = Newline(Len(Lines) + j + 1)
    <3>1. j \in 0 .. Len(Bytes)
      BY <2>1
    <3>2. 2 * j + 1 <= Len(b) => 2 * j + 1 \in 1 .. Len(b) /\ 2 * j + 1 <= Len(Bytes)
      BY <2>1
    <3>3. 2 * j + 2 <= Len(b) => 2 * j + 2 \in 1 .. Len(b) /\ 2 * j + 2 <= Len(Bytes)
      BY <2>1
    <3>4. /\ 2 * j + 1 <= Len(Bytes) => Bytes[2 * j + 1] = Text(Len(Lines) + j + 1)
          /\ 2 * j + 2 <= Len(Bytes) => Bytes[2 * j + 2] = Newline(Len(Lines) + j + 1)
      BY <2>2, <3>1 DEF Alternating
    <3> QED BY <2>1, <3>2, <3>3, <3>4
  <2>4. Alternating(b, Len(Lines))
    BY <2>3 DEF Alternating
  <2> QED BY <2>4 DEF b
<1>8. /\ Len(Bytes') <= 2 * (Len(sent) - Len(Lines))
      /\ conn' # "closed" => Len(Bytes') = 2 * (Len(sent) - Len(Lines))
  <2>1. Len(Bytes') \in Nat /\ Len(Bytes') <= Len(Bytes) /\ Len(Bytes) \in Nat
    BY <1>5
  <2>2. Len(Lines) \in Nat /\ Len(sent) \in Nat /\ Len(Bytes) <= 2 * (Len(sent) - Len(Lines))
    BY LinesAre, StreamTypes DEF StreamInv
  <2>3. conn' # "closed" => Len(sent) = 0
    BY <1>1 DEF StreamInv
  <2> QED BY <2>1, <2>2, <2>3
<1>9. Alternating(Bytes, Len(Lines))'
  BY <1>6, <1>7
<1>10. /\ conn' \in {"none", "pending"} => conn = "none"
       /\ reader' = "connect" => conn' = "none"
  BY <1>1 DEF StreamInv
<1> QED BY <1>4, <1>6, <1>8, <1>9, <1>10 DEF StreamInv

LEMMA ReceivesStep == ASSUME StreamInv, ReaderReceives PROVE StreamInv'
<1>1. /\ reader = "read" /\ UNCHANGED <<server, sent, conn, reader, queue, batch, dispatched, app>>
  BY DEF ReaderReceives, serverVars, mainVars
<1>2. PICK n \in 1 .. Len(wire) : /\ buffer' = buffer \o SubSeq(wire, 1, n)
                                  /\ wire' = SubSeq(wire, n + 1, Len(wire))
  BY DEF ReaderReceives
<1>3. wire \in Seq(Byte) /\ buffer \in Seq(Byte) /\ n \in 0 .. Len(wire)
  BY StreamTypes DEF StreamInv
<1> DEFINE p == SubSeq(wire, 1, n)
           q == SubSeq(wire, n + 1, Len(wire))
<1>4. p \in Seq(Byte) /\ q \in Seq(Byte) /\ p \o q = wire
  BY <1>3, CutIs
<1> HIDE DEF p, q
<1>5. (buffer \o p) \o q = buffer \o (p \o q) /\ buffer \o p \in Seq(Byte)
  <2>1. p \in Seq(Byte) /\ q \in Seq(Byte) /\ buffer \in Seq(Byte)
    BY <1>3, <1>4
  <2>2. (buffer \o p) \o q = buffer \o (p \o q)
    BY <2>1, ConcatAssociative
  <2> QED BY <2>1, <2>2, ConcatIs
<1>6. Bytes' = Bytes
  BY <1>2, <1>4, <1>5 DEF Bytes, p, q
<1>7. StreamTypeOK'
  BY <1>1, <1>2, <1>4, <1>5 DEF StreamInv, StreamTypeOK, p, q
<1>8. Lines' = Lines
  BY <1>1 DEF Lines
<1> QED BY <1>1, <1>6, <1>7, <1>8, StillStep

\* getline takes out the first two bytes: the text of the next line and its newline.
LEMMA FirstLine ==
  ASSUME StreamInv, HasLine(buffer)
  PROVE  /\ FirstNewline(buffer) = 2 /\ Len(buffer) >= 2 /\ buffer[1] = Text(Len(Lines) + 1)
         /\ Len(Lines) + 1 <= Len(sent) /\ Len(Lines) + 1 \in Message
<1> DEFINE k == Len(Lines)
<1>1. /\ buffer \in Seq(Byte) /\ Len(buffer) \in Nat /\ Len(Bytes) \in Nat /\ Len(buffer) <= Len(Bytes)
      /\ k \in Nat /\ Len(sent) \in Nat /\ sent \in Seq(Message)
      /\ \A i \in 1 .. Len(buffer) : Bytes[i] = buffer[i]
  BY StreamTypes, BytesIs, LinesAre DEF StreamInv
<1>2. PICK i \in 1 .. Len(buffer) : IsNewline(buffer[i])
  BY DEF HasLine
<1>3. buffer[1] = Text(k + 1) /\ 1 \in 1 .. Len(buffer)
  <2>1. 1 \in 1 .. Len(buffer) /\ 2 * 0 + 1 <= Len(Bytes) /\ 0 \in 0 .. Len(Bytes)
    BY <1>1
  <2>2. Bytes[2 * 0 + 1] = Text(k + 0 + 1)
    BY <2>1 DEF StreamInv, Alternating
  <2> QED BY <1>1, <2>1, <2>2
<1>4. i # 1
  BY <1>2, <1>3, BytesAre
<1>5. Len(buffer) >= 2 /\ 2 \in 1 .. Len(buffer) /\ buffer[2] = Newline(k + 1)
  <2>1. 2 \in 1 .. Len(buffer) /\ 2 * 0 + 2 <= Len(Bytes) /\ 0 \in 0 .. Len(Bytes)
    BY <1>1, <1>4
  <2>2. Bytes[2 * 0 + 2] = Newline(k + 0 + 1)
    BY <2>1 DEF StreamInv, Alternating
  <2> QED BY <1>1, <2>1, <2>2
<1>6. ASSUME NEW m \in 1 .. Len(buffer)
      PROVE  (IsNewline(buffer[m]) /\ ~HasLine(SubSeq(buffer, 1, m - 1))) <=> m = 2
  <2>1. m \in Nat /\ m - 1 \in 0 .. Len(buffer)
    BY <1>1
  <2>2. /\ Len(SubSeq(buffer, 1, m - 1)) = m - 1
        /\ \A l \in 1 .. m - 1 : SubSeq(buffer, 1, m - 1)[l] = buffer[l]
    BY <1>1, <2>1, CutIs
  <2>a. ~IsNewline(buffer[1])
    BY <1>3, BytesAre
  <2>b. IsNewline(buffer[2])
    BY <1>5, BytesAre
  <2>3. CASE m = 1
    BY <2>a, <2>3
  <2>4. CASE m = 2
    <3>1. ~HasLine(SubSeq(buffer, 1, m - 1))
      <4> DEFINE p == SubSeq(buffer, 1, m - 1)
      <4>1. Len(p) = 1 /\ p[1] = buffer[1]
        BY <2>2, <2>4
      <4>2. \A l \in 1 .. 1 : l = 1
        OBVIOUS
      <4> HIDE DEF p
      <4>3. ~HasLine(p)
        BY <2>a, <4>1, <4>2 DEF HasLine
      <4> QED BY <4>3 DEF p
    <3> QED BY <2>b, <2>4, <3>1
  <2>5. CASE m > 2
    <3> DEFINE p == SubSeq(buffer, 1, m - 1)
    <3>1. 2 \in 1 .. m - 1
      BY <2>1, <2>5
    <3>a. 2 \in 1 .. Len(p) /\ p[2] = buffer[2]
      BY <2>2, <3>1
    <3> HIDE DEF p
    <3>b. HasLine(p)
      BY <2>b, <3>a DEF HasLine
    <3>2. HasLine(SubSeq(buffer, 1, m - 1))
      BY <3>b DEF p
    <3> QED BY <2>1, <2>5, <3>2
  <2> QED BY <2>1, <2>3, <2>4, <2>5
<1>7. FirstNewline(buffer) = 2
  BY <1>5, <1>6 DEF FirstNewline
<1>8. k + 1 <= Len(sent)
  <2>1. Len(Bytes) >= 2 /\ Len(Bytes) <= 2 * (Len(sent) - k)
    BY <1>1, <1>5 DEF StreamInv
  <2> QED BY <1>1, <2>1
<1>9. k + 1 \in Message
  <2>1. k + 1 \in 1 .. Len(sent) /\ sent[k + 1] = k + 1
    BY <1>1, <1>8 DEF StreamInv
  <2> QED BY <1>1, <2>1
<1> QED BY <1>3, <1>5, <1>7, <1>8, <1>9

LEMMA PushesStep == ASSUME StreamInv, ReaderPushesLine PROVE StreamInv'
<1> DEFINE k == Len(Lines)
           x == <<Text(k + 1)>>
<1>1. /\ HasLine(buffer) /\ reader = "read"
      /\ queue' = Append(queue, SubSeq(buffer, 1, FirstNewline(buffer) - 1))
      /\ buffer' = SubSeq(buffer, FirstNewline(buffer) + 1, Len(buffer))
      /\ UNCHANGED <<server, sent, conn, wire, reader, batch, dispatched, app>>
  BY DEF ReaderPushesLine, serverVars, mainVars
<1>2. /\ FirstNewline(buffer) = 2 /\ Len(buffer) >= 2 /\ buffer[1] = Text(k + 1)
      /\ k + 1 <= Len(sent) /\ k + 1 \in Message
  BY <1>1, FirstLine
<1>3. /\ queue \in Seq(Line) /\ batch \in Seq(Line) /\ dispatched \in Seq(Line) /\ wire \in Seq(Byte)
      /\ buffer \in Seq(Byte) /\ Len(buffer) \in Nat /\ Len(wire) \in Nat
      /\ Lines \in Seq(Line) /\ k \in Nat /\ Len(sent) \in Nat
  BY StreamTypes, LinesAre, BytesIs DEF StreamInv
<1>4. SubSeq(buffer, 1, 1) = x
  <2>1. 1 \in 0 .. Len(buffer)
    BY <1>2, <1>3
  <2>2. /\ SubSeq(buffer, 1, 1) \in Seq(Byte) /\ Len(SubSeq(buffer, 1, 1)) = 1
        /\ \A i \in 1 .. 1 : SubSeq(buffer, 1, 1)[i] = buffer[i]
    BY <1>3, <2>1, CutIs
  <2> DEFINE p == SubSeq(buffer, 1, 1)
  <2> HIDE DEF p
  <2>3. p \in Seq(Byte) /\ Len(p) = 1 /\ p[1] = Text(k + 1)
    BY <1>2, <2>2 DEF p
  <2>4. Text(k + 1) \in Byte
    BY <1>2, BytesAre
  <2>5. x \in Seq(Byte) /\ Len(x) = 1 /\ x[1] = Text(k + 1)
    BY <2>4
  <2> HIDE DEF x
  <2>6. p = x
    BY <2>3, <2>5, SeqEqual
  <2> QED BY <2>6 DEF p
<1>5. queue' = Append(queue, x) /\ x \in Line
  BY <1>1, <1>2, <1>4, BytesAre
<1> HIDE DEF x
<1>6. queue' \in Seq(Line) /\ Lines' = Append(Lines, x)
  <2>1. dispatched \o batch \in Seq(Line)
    BY <1>3
  <2>2. Lines' = (dispatched \o batch) \o Append(queue, x)
    BY <1>1, <1>5 DEF Lines
  <2> QED BY <1>3, <1>5, <2>1, <2>2, ConcatAppend DEF Lines
<1>7. /\ buffer' \in Seq(Byte) /\ Len(buffer') = Len(buffer) - 2
      /\ \A i \in 1 .. Len(buffer) - 2 : buffer'[i] = buffer[2 + i]
  <2>1. 2 \in 0 .. Len(buffer) /\ buffer' = SubSeq(buffer, 2 + 1, Len(buffer))
    BY <1>1, <1>2, <1>3
  <2> QED BY <1>3, <2>1, CutIs
<1>8. StreamTypeOK'
  BY <1>1, <1>6, <1>7 DEF StreamInv, StreamTypeOK
<1>9. /\ Len(Bytes') = Len(Bytes) - 2 /\ Len(Bytes') \in Nat /\ Len(Bytes) \in Nat
      /\ \A i \in 1 .. Len(Bytes') : Bytes'[i] = Bytes[2 + i]
  <2>1. /\ Len(Bytes) = Len(buffer) + Len(wire) /\ Len(Bytes) \in Nat
        /\ \A i \in 1 .. Len(buffer) : Bytes[i] = buffer[i]
        /\ \A i \in 1 .. Len(wire) : Bytes[Len(buffer) + i] = wire[i]
    BY BytesIs DEF StreamInv
  <2> DEFINE c == buffer'
  <2>2. c \in Seq(Byte) /\ Len(c) = Len(buffer) - 2 /\ Bytes' = c \o wire
    BY <1>1, <1>7 DEF Bytes
  <2> HIDE DEF c
  <2>a. /\ Len(c \o wire) = Len(c) + Len(wire)
        /\ \A i \in 1 .. Len(c) : (c \o wire)[i] = c[i]
        /\ \A i \in 1 .. Len(wire) : (c \o wire)[Len(c) + i] = wire[i]
    <3>1. c \in Seq(Byte) /\ wire \in Seq(Byte)
      BY <1>3, <2>2
    <3> QED BY <3>1, ConcatIs
  <2>3. /\ Len(Bytes') = Len(c) + Len(wire)
        /\ \A i \in 1 .. Len(c) : Bytes'[i] = c[i]
        /\ \A i \in 1 .. Len(wire) : Bytes'[Len(c) + i] = wire[i]
    BY <2>2, <2>a
  <2>4. ASSUME NEW i \in 1 .. Len(Bytes') PROVE Bytes'[i] = Bytes[2 + i]
    <3>1. CASE i <= Len(c)
      <4>1. i \in 1 .. Len(c) /\ i \in 1 .. Len(buffer) - 2 /\ 2 + i \in 1 .. Len(buffer)
        BY <1>3, <2>2, <3>1
      <4> QED BY <1>7, <2>1, <2>3, <4>1 DEF c
    <3>2. CASE i > Len(c)
      <4>1. i - Len(c) \in 1 .. Len(wire) /\ Len(c) + (i - Len(c)) = i
            /\ Len(buffer) + (i - Len(c)) = 2 + i
        BY <1>3, <2>2, <2>3, <3>2
      <4>2. Bytes'[i] = wire[i - Len(c)] /\ Bytes[2 + i] = wire[i - Len(c)]
        BY <2>1, <2>3, <4>1
      <4> QED BY <4>2
    <3>3. i <= Len(c) \/ i > Len(c)
      BY <1>2, <1>3, <2>2, <2>3
    <3> QED BY <3>1, <3>2, <3>3
  <2> QED BY <1>2, <1>3, <2>1, <2>2, <2>3, <2>4
<1>10. Len(Lines') = k + 1 /\ \A i \in 1 .. Len(Lines') : Lines'[i] = <<Text(i)>>
  <2>1. /\ Len(Lines') = k + 1 /\ Lines'[k + 1] = x /\ \A i \in 1 .. k : Lines'[i] = Lines[i]
    BY <1>3, <1>5, <1>6
  <2>2. \A i \in 1 .. k + 1 : i \in 1 .. k \/ i = k + 1
    BY <1>3
  <2> QED BY <2>1, <2>2 DEF StreamInv, x
<1>11. Alternating(Bytes', k + 1)
  <2> DEFINE b == Bytes'
  <2>1. /\ Len(b) \in Nat /\ Len(Bytes) = Len(b) + 2 /\ \A i \in 1 .. Len(b) : b[i] = Bytes[2 + i]
    BY <1>9
  <2>2. Alternating(Bytes, k)
    BY DEF StreamInv
  <2> HIDE DEF b, k
  <2>3. ASSUME NEW j \in 0 .. Len(b)
        PROVE  /\ 2 * j + 1 <= Len(b) => b[2 * j + 1] = Text(k + 1 + j + 1)
               /\ 2 * j + 2 <= Len(b) => b[2 * j + 2] = Newline(k + 1 + j + 1)
    <3>1. j + 1 \in 0 .. Len(Bytes) /\ k + (j + 1) + 1 = k + 1 + j + 1
      BY <1>3, <2>1 DEF k
    <3>2. 2 * j + 1 <= Len(b) => /\ 2 * j + 1 \in 1 .. Len(b) /\ 2 * (j + 1) + 1 <= Len(Bytes)
                                 /\ 2 + (2 * j + 1) = 2 * (j + 1) + 1
      BY <2>1
    <3>3. 2 * j + 2 <= Len(b) => /\ 2 * j + 2 \in 1 .. Len(b) /\ 2 * (j + 1) + 2 <= Len(Bytes)
                                 /\ 2 + (2 * j + 2) = 2 * (j + 1) + 2
      BY <2>1
    <3>4. /\ 2 * (j + 1) + 1 <= Len(Bytes) => Bytes[2 * (j + 1) + 1] = Text(k + (j + 1) + 1)
          /\ 2 * (j + 1) + 2 <= Len(Bytes) => Bytes[2 * (j + 1) + 2] = Newline(k + (j + 1) + 1)
      BY <2>2, <3>1 DEF Alternating
    <3>5. 2 * j + 1 <= Len(b) => b[2 * j + 1] = Bytes[2 * (j + 1) + 1]
      BY <2>1, <3>2
    <3>6. 2 * j + 2 <= Len(b) => b[2 * j + 2] = Bytes[2 * (j + 1) + 2]
      BY <2>1, <3>3
    <3> QED BY <3>1, <3>2, <3>3, <3>4, <3>5, <3>6
  <2>4. Alternating(b, k + 1)
    BY <2>3 DEF Alternating
  <2> QED BY <2>4 DEF b
<1>12. /\ Len(Bytes') <= 2 * (Len(sent') - Len(Lines'))
       /\ conn' # "closed" => Len(Bytes') = 2 * (Len(sent') - Len(Lines'))
  <2>1. /\ Len(Bytes) <= 2 * (Len(sent) - k)
        /\ conn # "closed" => Len(Bytes) = 2 * (Len(sent) - k)
    BY DEF StreamInv
  <2> QED BY <1>1, <1>3, <1>9, <1>10, <2>1
<1>13. Alternating(Bytes, Len(Lines))'
  BY <1>10, <1>11
<1> QED BY <1>1, <1>8, <1>10, <1>12, <1>13 DEF StreamInv

\* Lines move on from the queue to the batch and from there to the listeners.
LEMMA UpdateStep == ASSUME StreamInv, Update PROVE StreamInv'
<1>1. /\ batch = <<>> /\ batch' = queue /\ queue' = <<>>
      /\ UNCHANGED <<server, sent, conn, wire, reader, buffer, dispatched, app>>
  BY DEF Update, serverVars, readerVars
<1>2. dispatched \in Seq(Line) /\ queue \in Seq(Line)
  BY StreamTypes DEF StreamInv
<1>3. dispatched \o batch = dispatched /\ dispatched \o queue \in Seq(Line)
  BY <1>1, <1>2, ConcatNone, ConcatIs
<1>4. (dispatched \o queue) \o <<>> = dispatched \o queue
  BY <1>3, ConcatNone
<1>5. Lines' = Lines /\ Bytes' = Bytes
  BY <1>1, <1>3, <1>4 DEF Lines, Bytes
<1>6. StreamTypeOK'
  <2>1. <<>> \in Seq(Line)
    OBVIOUS
  <2> QED BY <1>1, <1>2, <2>1 DEF StreamInv, StreamTypeOK
<1>7. reader' = "connect" => conn' = "none"
  BY <1>1 DEF StreamInv
<1> QED BY <1>1, <1>5, <1>6, <1>7, StillStep

LEMMA DispatchStep == ASSUME StreamInv, DispatchNext PROVE StreamInv'
<1>1. /\ batch # <<>> /\ dispatched' = Append(dispatched, Head(batch)) /\ batch' = Tail(batch)
      /\ UNCHANGED <<server, sent, conn, wire, reader, buffer, queue, app>>
  BY DEF DispatchNext, serverVars, readerVars
<1>2. dispatched \in Seq(Line) /\ batch \in Seq(Line) /\ queue \in Seq(Line)
  BY StreamTypes DEF StreamInv
<1>3. /\ dispatched' \in Seq(Line) /\ batch' \in Seq(Line)
      /\ dispatched' \o batch' = dispatched \o batch
  BY <1>1, <1>2, MoveOver
<1>4. Lines' = Lines /\ Bytes' = Bytes
  BY <1>1, <1>3 DEF Lines, Bytes
<1>5. StreamTypeOK'
  BY <1>1, <1>2, <1>3 DEF StreamInv, StreamTypeOK
<1>6. reader' = "connect" => conn' = "none"
  BY <1>1 DEF StreamInv
<1> QED BY <1>1, <1>4, <1>5, <1>6, StillStep

\* The steps of the connection, of the reader's end and of the program's.
LEMMA QuietStep ==
  ASSUME StreamInv,
         \/ ServerAccepts \/ ReaderConnects \/ ReaderSendsHandshake \/ ReaderFails \/ Destroy \/ Joined
         \/ UNCHANGED streamVars
         \/ UpdateService
  PROVE  StreamInv'
<1>1. /\ UNCHANGED <<sent, wire, buffer, queue, batch, dispatched>>
      /\ conn' \in {conn, "accepted", "closed"} \/ (conn' = "pending" /\ reader = "connect")
      /\ conn' # "closed" => conn # "closed"
      /\ server' = server
      /\ reader' \in {reader, "handshake", "read", "ended"}
      /\ app' \in {"running", "stopping", "stopped"}
      /\ reader' = "connect" => reader = "connect" /\ (conn = "none" => conn' = "none")
  <2>1. CASE ServerAccepts
    BY <2>1 DEF ServerAccepts, serverVars, readerVars, mainVars, StreamInv, StreamTypeOK
  <2>2. CASE ReaderConnects
    BY <2>2 DEF ReaderConnects, serverVars, readerVars, mainVars, StreamInv, StreamTypeOK
  <2>3. CASE ReaderSendsHandshake
    BY <2>3 DEF ReaderSendsHandshake, serverVars, readerVars, mainVars, StreamInv, StreamTypeOK
  <2>4. CASE ReaderFails
    BY <2>4 DEF ReaderFails, serverVars, readerVars, mainVars, StreamInv, StreamTypeOK
  <2>5. CASE Destroy \/ Joined
    BY <2>5 DEF Destroy, Joined, serverVars, readerVars, mainVars, StreamInv, StreamTypeOK
  <2>6. CASE UNCHANGED streamVars
    BY <2>6 DEF streamVars, serverVars, readerVars, mainVars, StreamInv, StreamTypeOK
  <2>7. CASE UpdateService
    BY <2>7 DEF UpdateService, streamVars, serverVars, readerVars, mainVars, StreamInv, StreamTypeOK
  <2> QED BY <2>1, <2>2, <2>3, <2>4, <2>5, <2>6, <2>7
<1>2. Lines' = Lines /\ Bytes' = Bytes
  BY <1>1 DEF Lines, Bytes
<1>3. StreamTypeOK'
  <2>1. /\ conn' \in {"none", "pending", "accepted", "closed"}
        /\ reader' \in {"connect", "handshake", "read", "ended"}
    BY <1>1 DEF StreamInv, StreamTypeOK
  <2> QED BY <1>1, <2>1 DEF StreamInv, StreamTypeOK
<1>4. /\ reader' = "connect" => conn' = "none"
      /\ conn' \in {"none", "pending"} => conn \in {"none", "pending"}
  BY <1>1 DEF StreamInv
<1> QED BY <1>1, <1>2, <1>3, <1>4, StillStep

LEMMA StreamStep == ASSUME StreamInv, [ManagerNext]_managerVars PROVE StreamInv'
<1>1. CASE ServerBroadcasts
  BY <1>1, BroadcastStep
<1>2. CASE ServerGone
  BY <1>2, GoneStep
<1>3. CASE ReaderReceives
  BY <1>3, ReceivesStep
<1>4. CASE ReaderPushesLine
  BY <1>4, PushesStep
<1>5. CASE Update
  BY <1>5, UpdateStep
<1>6. CASE DispatchNext
  BY <1>6, DispatchStep
<1>7. CASE \/ ServerAccepts \/ ReaderConnects \/ ReaderSendsHandshake \/ ReaderFails \/ Destroy \/ Joined
           \/ UNCHANGED streamVars
           \/ UpdateService
  BY <1>7, QuietStep
<1>8. \/ ServerBroadcasts \/ ServerGone \/ ReaderReceives \/ ReaderPushesLine \/ Update \/ DispatchNext
      \/ ServerAccepts \/ ReaderConnects \/ ReaderSendsHandshake \/ ReaderFails \/ Destroy \/ Joined
      \/ UNCHANGED streamVars
      \/ UpdateService
  BY DEF ManagerNext, managerVars, Outside, SensorCoroutine, ServiceCoroutines, ManagerMain,
         UpdateSensor, ManagerDestroy, Network, Main
<1> QED BY <1>1, <1>2, <1>3, <1>4, <1>5, <1>6, <1>7, <1>8

LEMMA StreamInvariant == ManagerSpec => []StreamInv
<1>1. ManagerInit => StreamInv
  BY StreamInitOK DEF ManagerInit
<1>2. StreamInv /\ [ManagerNext]_managerVars => StreamInv'
  BY StreamStep
<1> QED BY <1>1, <1>2, PTL DEF ManagerSpec

\* Type correctness of the stream and of the service.
THEOREM SpecManagerTypeOK == ManagerSpec => []ManagerTypeOK
<1>1. StreamInv /\ ServiceInv => ManagerTypeOK
  BY DEF StreamInv, ServiceInv, ManagerTypeOK
<1> QED BY <1>1, StreamInvariant, ServiceInvariant, PTL

-----------------------------------------------------------------------------
\* Messages of lines, and of bytes.
LEMMA MessagesConcat ==
  ASSUME NEW a \in Seq(Line), NEW b \in Seq(Line)
  PROVE  /\ Messages(a) \in Seq(Message) /\ Len(Messages(a)) = Len(a)
         /\ Messages(a \o b) = Messages(a) \o Messages(b)
<1>1. /\ Len(a) \in Nat /\ Len(b) \in Nat /\ a \o b \in Seq(Line) /\ Len(a \o b) = Len(a) + Len(b)
      /\ \A i \in 1 .. Len(a) : (a \o b)[i] = a[i]
      /\ \A i \in 1 .. Len(b) : (a \o b)[Len(a) + i] = b[i]
  BY ConcatIs
<1>2. \A s \in Seq(Line) : \A i \in 1 .. Len(s) : s[i][1][1] \in Message
  <2> SUFFICES ASSUME NEW s \in Seq(Line), NEW i \in 1 .. Len(s) PROVE s[i][1][1] \in Message
    OBVIOUS
  <2>1. s[i] \in Line
    OBVIOUS
  <2>2. PICK m \in Message : s[i] = <<Text(m)>>
    BY <2>1 DEF Line
  <2> QED BY <2>2 DEF Text
<1>3. ASSUME NEW s \in Seq(Line)
      PROVE  /\ Messages(s) \in Seq(Message) /\ Len(Messages(s)) = Len(s)
             /\ \A i \in 1 .. Len(s) : Messages(s)[i] = s[i][1][1]
  <2>1. Messages(s) = [i \in 1 .. Len(s) |-> s[i][1][1]]
    BY DEF Messages
  <2>2. Messages(s) \in [1 .. Len(s) -> Message] /\ Len(s) \in Nat
    BY <1>2, <2>1
  <2> QED BY <2>1, <2>2
<1> DEFINE p == Messages(a)
           q == Messages(b)
           r == Messages(a \o b)
<1>4. /\ p \in Seq(Message) /\ q \in Seq(Message) /\ r \in Seq(Message)
      /\ Len(p) = Len(a) /\ Len(q) = Len(b) /\ Len(r) = Len(a) + Len(b)
      /\ \A i \in 1 .. Len(a) : p[i] = a[i][1][1]
      /\ \A i \in 1 .. Len(b) : q[i] = b[i][1][1]
      /\ \A i \in 1 .. Len(a) + Len(b) : r[i] = (a \o b)[i][1][1]
  BY <1>1, <1>3
<1> HIDE DEF p, q, r
<1>5. /\ p \o q \in Seq(Message) /\ Len(p \o q) = Len(a) + Len(b)
      /\ \A i \in 1 .. Len(a) : (p \o q)[i] = p[i]
      /\ \A i \in 1 .. Len(b) : (p \o q)[Len(a) + i] = q[i]
  <2>1. p \in Seq(Message) /\ q \in Seq(Message)
    BY <1>4
  <2>2. /\ p \o q \in Seq(Message) /\ Len(p \o q) = Len(p) + Len(q)
        /\ \A i \in 1 .. Len(p) : (p \o q)[i] = p[i]
        /\ \A i \in 1 .. Len(q) : (p \o q)[Len(p) + i] = q[i]
    BY <2>1, ConcatIs
  <2> QED BY <1>4, <2>2
<1>6. ASSUME NEW i \in 1 .. Len(a) + Len(b) PROVE r[i] = (p \o q)[i]
  <2>1. CASE i <= Len(a)
    <3>1. i \in 1 .. Len(a)
      BY <1>1, <2>1
    <3> QED BY <1>1, <1>4, <1>5, <3>1
  <2>2. CASE i > Len(a)
    <3>1. i - Len(a) \in 1 .. Len(b) /\ Len(a) + (i - Len(a)) = i
      BY <1>1, <2>2
    <3>2. (a \o b)[i] = b[i - Len(a)] /\ (p \o q)[i] = q[i - Len(a)]
      BY <1>1, <1>5, <3>1
    <3> QED BY <1>4, <3>1, <3>2
  <2>3. i <= Len(a) \/ i > Len(a)
    BY <1>1
  <2> QED BY <2>1, <2>2, <2>3
<1>7. r = p \o q
  <2>1. Len(r) = Len(p \o q) /\ Len(r) = Len(a) + Len(b)
    BY <1>4, <1>5
  <2> QED BY <1>4, <1>5, <1>6, <2>1, SeqEqual
<1> QED BY <1>4, <1>7 DEF p, q, r

\* Of bytes of whole lines half are newlines, of consecutive messages.
LEMMA NewlinesOf ==
  ASSUME NEW s \in Seq(Byte), NEW n \in Nat, Alternating(s, n)
  PROVE  LET t == Kept(s, {b \in Byte : IsNewline(b)})
         IN /\ t \in Seq(Byte) /\ 2 * Len(t) <= Len(s) /\ Len(s) <= 2 * Len(t) + 1
            /\ \A i \in 1 .. Len(t) : t[i] = Newline(n + i)
<1> DEFINE N == {b \in Byte : IsNewline(b)}
           Halved(s_, t) == /\ t \in Seq(Byte) /\ 2 * Len(t) <= Len(s_) /\ Len(s_) <= 2 * Len(t) + 1
                            /\ \A i \in 1 .. Len(t) : t[i] = Newline(n + i)
           G == {s_ \in Seq(Byte) : Alternating(s_, n) => Halved(s_, Kept(s_, N))}
<1>1. <<>> \in G
  <2>1. Kept(<<>>, N) = <<>>
    BY KeptEmpty
  <2> DEFINE e == <<>>
  <2>2. e \in Seq(Byte) /\ Len(e) = 0 /\ 1 .. 0 = {}
    OBVIOUS
  <2> HIDE DEF e
  <2>3. Halved(e, e)
    BY <2>2
  <2> QED BY <2>1, <2>2, <2>3 DEF e
<1>2. ASSUME NEW r \in Seq(Byte), NEW x \in Byte, r \in G PROVE Append(r, x) \in G
  <2> DEFINE v == Append(r, x)
             t == Kept(r, N)
             l == Len(r)
  <2>1. /\ v \in Seq(Byte) /\ Len(v) = l + 1 /\ v[l + 1] = x /\ l \in Nat
        /\ \A i \in 1 .. l : v[i] = r[i]
    OBVIOUS
  <2>2. Kept(v, N) = IF x \in N THEN Append(t, x) ELSE t
    <3> HIDE DEF N
    <3> QED BY KeptAppend
  <2> SUFFICES ASSUME Alternating(v, n) PROVE Halved(v, Kept(v, N))
    BY <2>1
  <2> HIDE DEF v, l
  <2>3. Alternating(r, n)
    <3> SUFFICES ASSUME NEW j \in 0 .. l
                 PROVE  /\ 2 * j + 1 <= l => r[2 * j + 1] = Text(n + j + 1)
                        /\ 2 * j + 2 <= l => r[2 * j + 2] = Newline(n + j + 1)
      BY DEF Alternating, l
    <3>1. j \in 0 .. Len(v)
      BY <2>1
    <3>2. /\ 2 * j + 1 <= Len(v) => v[2 * j + 1] = Text(n + j + 1)
          /\ 2 * j + 2 <= Len(v) => v[2 * j + 2] = Newline(n + j + 1)
      BY <3>1 DEF Alternating
    <3>3. /\ 2 * j + 1 <= l => 2 * j + 1 \in 1 .. l /\ 2 * j + 1 <= Len(v)
          /\ 2 * j + 2 <= l => 2 * j + 2 \in 1 .. l /\ 2 * j + 2 <= Len(v)
      BY <2>1
    <3> QED BY <2>1, <3>2, <3>3
  <2>4. Halved(r, t)
    BY <1>2, <2>3
  <2> HIDE DEF t
  <2>5. /\ t \in Seq(Byte) /\ Len(t) \in Nat /\ 2 * Len(t) <= l /\ l <= 2 * Len(t) + 1
        /\ \A i \in 1 .. Len(t) : t[i] = Newline(n + i)
    BY <2>4 DEF l
  <2>6. CASE l = 2 * Len(t)
    <3>1. 2 * Len(t) + 1 <= Len(v) /\ Len(t) \in 0 .. Len(v)
      BY <2>1, <2>5, <2>6
    <3>2. v[2 * Len(t) + 1] = Text(n + Len(t) + 1)
      BY <3>1 DEF Alternating
    <3>3. x = Text(n + Len(t) + 1)
      BY <2>1, <2>6, <3>2
    <3>4. x \notin N
      BY <3>3, BytesAre
    <3>5. Kept(v, N) = t
      BY <2>2, <3>4
    <3>6. 2 * Len(t) <= Len(v) /\ Len(v) <= 2 * Len(t) + 1
      BY <2>1, <2>5, <2>6
    <3>7. Halved(v, t)
      BY <2>5, <3>6
    <3> QED BY <3>5, <3>7
  <2>7. CASE l = 2 * Len(t) + 1
    <3>1. 2 * Len(t) + 2 <= Len(v) /\ Len(t) \in 0 .. Len(v) /\ 2 * Len(t) + 2 = l + 1
      BY <2>1, <2>5, <2>7
    <3>2. v[2 * Len(t) + 2] = Newline(n + Len(t) + 1)
      BY <3>1 DEF Alternating
    <3>3. x = Newline(n + Len(t) + 1)
      BY <2>1, <3>1, <3>2
    <3>4. x \in N
      BY <3>3, BytesAre
    <3> DEFINE u == Append(t, x)
    <3>5. /\ u \in Seq(Byte) /\ Len(u) = Len(t) + 1 /\ u[Len(t) + 1] = x
          /\ \A i \in 1 .. Len(t) : u[i] = t[i]
      BY <2>5
    <3>6. Kept(v, N) = u
      BY <2>2, <3>4
    <3> HIDE DEF u
    <3>7. ASSUME NEW i \in 1 .. Len(u) PROVE u[i] = Newline(n + i)
      <4>1. CASE i = Len(t) + 1
        BY <2>5, <3>3, <3>5, <4>1
      <4>2. CASE i # Len(t) + 1
        <5>1. i \in 1 .. Len(t)
          BY <2>5, <3>5, <4>2
        <5> QED BY <2>5, <3>5, <5>1
      <4> QED BY <4>1, <4>2
    <3>8. 2 * Len(u) <= Len(v) /\ Len(v) <= 2 * Len(u) + 1
      BY <2>1, <2>5, <2>7, <3>5
    <3>9. Halved(v, u)
      BY <3>5, <3>7, <3>8
    <3> QED BY <3>6, <3>9
  <2>8. l = 2 * Len(t) \/ l = 2 * Len(t) + 1
    <3> DEFINE h == Len(t)
    <3>1. l \in Nat /\ h \in Nat /\ 2 * h <= l /\ l <= 2 * h + 1
      BY <2>1, <2>5
    <3> HIDE DEF h
    <3>2. l = 2 * h \/ l = 2 * h + 1
      BY <3>1
    <3> QED BY <3>2 DEF h
  <2> QED BY <2>6, <2>7, <2>8
<1>3. Seq(Byte) \subseteq G
  <2> HIDE DEF G
  <2> QED BY <1>1, <1>2, SeqSetInduction
<1>4. Halved(s, Kept(s, N))
  <2>1. s \in G
    BY <1>3
  <2> QED BY <2>1
<1> QED BY <1>4

\* The messages of the lines are 1 up to their number.
LEMMA LinesNumbered ==
  ASSUME StreamInv
  PROVE  /\ Messages(Lines) \in Seq(Message) /\ Len(Messages(Lines)) = Len(Lines)
         /\ \A i \in 1 .. Len(Lines) : Messages(Lines)[i] = i
         /\ Messages(Lines) = Messages(dispatched) \o Messages(batch) \o Messages(queue)
<1> DEFINE a == dispatched \o batch
<1>1. dispatched \in Seq(Line) /\ batch \in Seq(Line) /\ queue \in Seq(Line)
  BY StreamTypes DEF StreamInv
<1>2. a \in Seq(Line) /\ Messages(a) = Messages(dispatched) \o Messages(batch)
  BY <1>1, ConcatIs, MessagesConcat
<1> HIDE DEF a
<1>3. Messages(a \o queue) = Messages(a) \o Messages(queue)
  BY <1>1, <1>2, MessagesConcat
<1>4. Lines = a \o queue /\ Lines \in Seq(Line)
  BY LinesAre DEF Lines, a, StreamInv
<1>5. Messages(Lines) \in Seq(Message) /\ Len(Messages(Lines)) = Len(Lines)
  BY <1>4, MessagesConcat
<1>6. ASSUME NEW i \in 1 .. Len(Lines) PROVE Messages(Lines)[i] = i
  <2>1. Messages(Lines)[i] = Lines[i][1][1]
    BY DEF Messages
  <2>2. Lines[i] = <<Text(i)>>
    BY DEF StreamInv
  <2> QED BY <2>1, <2>2 DEF Text
<1> QED BY <1>2, <1>3, <1>4, <1>5, <1>6

LEMMA BytesNumbered ==
  ASSUME StreamInv
  PROVE  /\ InBytes(Bytes) \in Seq(Nat) /\ 2 * Len(InBytes(Bytes)) <= Len(Bytes)
         /\ Len(Bytes) <= 2 * Len(InBytes(Bytes)) + 1
         /\ \A i \in 1 .. Len(InBytes(Bytes)) : InBytes(Bytes)[i] = Len(Lines) + i
<1> DEFINE t == Kept(Bytes, {b \in Byte : IsNewline(b)})
           k == Len(Lines)
<1>1. Bytes \in Seq(Byte) /\ k \in Nat /\ Alternating(Bytes, k)
  BY BytesIs, LinesAre DEF StreamInv
<1>2. /\ t \in Seq(Byte) /\ 2 * Len(t) <= Len(Bytes) /\ Len(Bytes) <= 2 * Len(t) + 1
      /\ \A i \in 1 .. Len(t) : t[i] = Newline(k + i)
  BY <1>1, NewlinesOf
<1>3. InBytes(Bytes) = [i \in 1 .. Len(t) |-> t[i][1]]
  BY DEF InBytes
<1> HIDE DEF t
<1>4. ASSUME NEW i \in 1 .. Len(t) PROVE t[i][1] = k + i /\ k + i \in Nat
  <2>1. t[i] = Newline(k + i)
    BY <1>2
  <2>2. i \in Nat
    BY <1>2
  <2> QED BY <1>1, <2>1, <2>2 DEF Newline
<1>5. InBytes(Bytes) \in [1 .. Len(t) -> Nat] /\ Len(t) \in Nat
  BY <1>2, <1>3, <1>4
<1>6. InBytes(Bytes) \in Seq(Nat) /\ Len(InBytes(Bytes)) = Len(t)
  BY <1>5
<1>7. \A i \in 1 .. Len(t) : InBytes(Bytes)[i] = k + i
  BY <1>3, <1>4
<1> QED BY <1>2, <1>6, <1>7

\* However reads cut the stream and the two threads interleave, every line sent is in
\* exactly one place, in order; only a connection that closes cuts off a tail.
THEOREM SpecConserved == ManagerSpec => []Conserved
<1>1. StreamInv => Conserved
  <2> SUFFICES ASSUME StreamInv PROVE Conserved
    OBVIOUS
  <2> DEFINE k == Len(Lines)
             h == Len(InBytes(Bytes))
             n == Len(sent)
             p == Messages(Lines)
             q == InBytes(Bytes)
  <2>1. p \in Seq(Nat) /\ Len(p) = k /\ \A i \in 1 .. k : p[i] = i
    <3>1. Message \subseteq Nat
      BY DEF Message
    <3> QED BY <3>1, LinesNumbered
  <2>2. /\ q \in Seq(Nat) /\ Len(q) = h /\ \A i \in 1 .. h : q[i] = k + i
    BY BytesNumbered
  <2>3. k \in Nat /\ h \in Nat /\ n \in Nat /\ sent \in Seq(Message) /\ \A i \in 1 .. n : sent[i] = i
    BY <2>2, LinesAre, StreamTypes DEF StreamInv
  <2>4. InFlight = p \o q
    BY LinesNumbered DEF InFlight, Bytes
  <2>5. k + h <= n
    BY <2>3, BytesNumbered, BytesIs DEF StreamInv
  <2>6. conn # "closed" => k + h = n
    <3> SUFFICES ASSUME conn # "closed" PROVE k + h = n
      OBVIOUS
    <3> DEFINE b == Len(Bytes)
    <3>1. b = 2 * (n - k) /\ 2 * h <= b /\ b <= 2 * h + 1 /\ b \in Nat
      BY BytesNumbered, BytesIs DEF StreamInv
    <3> HIDE DEF k, h, n, b
    <3> QED BY <2>3, <3>1
  <2> HIDE DEF k, h, n, p, q
  <2>7. /\ InFlight \in Seq(Nat) /\ Len(InFlight) = k + h
        /\ \A i \in 1 .. k : InFlight[i] = i
        /\ \A i \in 1 .. h : InFlight[k + i] = k + i
    <3>1. p \in Seq(Nat) /\ q \in Seq(Nat)
      BY <2>1, <2>2
    <3>2. /\ p \o q \in Seq(Nat) /\ Len(p \o q) = Len(p) + Len(q)
          /\ \A i \in 1 .. Len(p) : (p \o q)[i] = p[i]
          /\ \A i \in 1 .. Len(q) : (p \o q)[Len(p) + i] = q[i]
      BY <3>1, ConcatIs
    <3> QED BY <2>1, <2>2, <2>4, <3>2
  <2>8. ASSUME NEW i \in 1 .. k + h PROVE InFlight[i] = i
    <3>1. CASE i <= k
      BY <2>3, <2>7, <3>1
    <3>2. CASE i > k
      <4>1. i - k \in 1 .. h /\ k + (i - k) = i
        BY <2>3, <3>2
      <4> QED BY <2>7, <4>1
    <3>3. i <= k \/ i > k
      BY <2>3
    <3> QED BY <3>1, <3>2, <3>3
  <2> DEFINE s == SubSeq(sent, 1, k + h)
  <2>9. s \in Seq(Message) /\ Len(s) = k + h /\ \A i \in 1 .. k + h : s[i] = sent[i]
    <3>1. k + h \in 0 .. Len(sent)
      BY <2>3, <2>5 DEF n
    <3> QED BY <2>3, <3>1, CutIs
  <2> HIDE DEF s
  <2>10. Message \subseteq Nat
    BY DEF Message
  <2>11. ASSUME NEW i \in 1 .. k + h PROVE s[i] = i
    <3>1. i \in 1 .. n
      BY <2>3, <2>5
    <3> QED BY <2>3, <2>9, <3>1
  <2>12. InFlight = s
    BY <2>7, <2>8, <2>9, <2>10, <2>11, SeqEqual
  <2>13. conn # "closed" => InFlight = sent
    <3> SUFFICES ASSUME conn # "closed" PROVE InFlight = sent
      OBVIOUS
    <3>1. Len(sent) = Len(InFlight) /\ Len(InFlight) = k + h
      BY <2>6, <2>7 DEF n
    <3>2. \A i \in 1 .. Len(InFlight) : InFlight[i] = sent[i]
      BY <2>3, <2>6, <2>8, <3>1
    <3>3. sent \in Seq(Nat) /\ InFlight \in Seq(Nat)
      <4>1. sent \in Seq(Message)
        BY <2>3
      <4>2. sent \in [1 .. n -> Nat]
        BY <2>3, <2>10, <4>1 DEF n
      <4>3. sent \in Seq(Nat)
        BY <2>3, <4>2
      <4> QED BY <2>7, <4>3
    <3> QED BY <3>1, <3>2, <3>3, SeqEqual
  <2>14. Len(InFlight) = k + h
    BY <2>7
  <2> QED BY <2>12, <2>13, <2>14 DEF Conserved, s
<1> QED BY <1>1, StreamInvariant, PTL

-----------------------------------------------------------------------------
\* The engine's side of the connection implements the abstract feed.
LEMMA DispatchDelivers == ASSUME StreamInv, DispatchNext PROVE Feed!Deliver
<1> DEFINE n == Len(dispatched)
<1>1. /\ batch # <<>> /\ dispatched' = Append(dispatched, Head(batch)) /\ sent' = sent
  BY DEF DispatchNext, serverVars
<1>2. /\ dispatched \in Seq(Line) /\ batch \in Seq(Line) /\ queue \in Seq(Line) /\ n \in Nat
      /\ Len(batch) \in Nat /\ Len(queue) \in Nat /\ Len(sent) \in Nat
  BY StreamTypes, LinesAre DEF StreamInv
<1>3. Head(batch) = <<Text(n + 1)>> /\ n + 1 <= Len(Lines)
  <2> DEFINE a == dispatched \o batch
  <2>1. a \in Seq(Line) /\ Len(a) = n + Len(batch) /\ a[n + 1] = Head(batch) /\ n + 1 <= Len(a)
    BY <1>1, <1>2, MoveOver, ConcatIs
  <2> HIDE DEF a
  <2>2. Lines = a \o queue
    BY DEF Lines, a
  <2>3. Len(Lines) = Len(a) + Len(queue) /\ \A i \in 1 .. Len(a) : Lines[i] = a[i]
    <3>1. a \in Seq(Line) /\ queue \in Seq(Line)
      BY <1>2, <2>1
    <3> QED BY <2>2, <3>1, ConcatIs
  <2>4. n + 1 \in 1 .. Len(a) /\ n + 1 \in 1 .. Len(Lines)
    BY <1>2, <2>1, <2>3
  <2>5. Lines[n + 1] = <<Text(n + 1)>>
    BY <2>4 DEF StreamInv
  <2> QED BY <2>1, <2>3, <2>4, <2>5
<1>4. n + 1 <= Len(sent) /\ sent[n + 1] = n + 1
  <2>1. Len(Lines) <= Len(sent)
    BY BytesIs, LinesAre, StreamTypes DEF StreamInv
  <2>2. n + 1 <= Len(sent)
    BY <1>2, <1>3, <2>1, LinesAre DEF StreamInv
  <2>3. n + 1 \in 1 .. Len(sent)
    BY <1>2, <2>2
  <2> QED BY <2>2, <2>3 DEF StreamInv
<1> DEFINE x == Head(batch)
<1>5. x \in Line /\ Head(batch) = x
  BY <1>1, <1>2, MoveOver
<1>6. x[1][1] = n + 1
  BY <1>3 DEF Text
<1> HIDE DEF x
<1>7. /\ Messages(dispatched) \in Seq(Message) /\ Len(Messages(dispatched)) = n
      /\ Messages(dispatched \o <<x>>) = Messages(dispatched) \o Messages(<<x>>)
  <2>1. <<x>> \in Seq(Line)
    BY <1>5
  <2> QED BY <1>2, <2>1, MessagesConcat
<1>8. Messages(<<x>>) = <<n + 1>>
  <2> DEFINE s == <<x>>
  <2>1. Len(s) = 1 /\ s[1] = x
    OBVIOUS
  <2>2. Messages(s) = [i \in 1 .. 1 |-> s[i][1][1]]
    BY <2>1 DEF Messages
  <2> HIDE DEF s
  <2>3. Messages(s) = [i \in 1 .. 1 |-> n + 1]
    BY <1>6, <2>1, <2>2
  <2>4. <<n + 1>> = [i \in 1 .. 1 |-> n + 1]
    OBVIOUS
  <2> QED BY <2>3, <2>4 DEF s
<1>9. dispatched' = dispatched \o <<x>>
  BY <1>1, <1>2, <1>5
<1>10. Messages(dispatched)' = Append(Messages(dispatched), n + 1)
  <2>1. Messages(dispatched)' = Messages(dispatched')
    BY DEF Messages
  <2>2. Messages(dispatched') = Messages(dispatched) \o <<n + 1>>
    BY <1>7, <1>8, <1>9
  <2>3. \A s \in Seq(Message) : s \o <<n + 1>> = Append(s, n + 1)
    OBVIOUS
  <2> QED BY <1>7, <2>1, <2>2, <2>3
<1>11. Len(Messages(dispatched)) < Len(sent)
  BY <1>2, <1>4, <1>7
<1> QED BY <1>1, <1>4, <1>7, <1>10, <1>11 DEF Feed!Deliver

LEMMA InitFeed == StreamInit => Feed!Init
<1> SUFFICES ASSUME StreamInit PROVE Feed!Init
  OBVIOUS
<1>1. Messages(<<>>) = <<>>
  <2>1. Len(<<>>) = 0 /\ 1 .. 0 = {}
    OBVIOUS
  <2>2. <<>> \in Seq(Line)
    OBVIOUS
  <2>3. Messages(<<>>) \in Seq(Message) /\ Len(Messages(<<>>)) = 0
    BY <2>1, <2>2, MessagesConcat
  <2> QED BY <2>3
<1> QED BY <1>1 DEF StreamInit, Feed!Init

LEMMA NextFeed == ASSUME StreamInv, [ManagerNext]_managerVars PROVE [Feed!Next]_Feed!feedVars
<1>1. CASE DispatchNext
  BY <1>1, DispatchDelivers DEF Feed!Next
<1>2. CASE ServerBroadcasts
  <2> DEFINE m == Len(sent) + 1
  <2>1. sent' = Append(sent, m) /\ dispatched' = dispatched /\ Len(sent) < MaxMessages
    BY <1>2 DEF ServerBroadcasts, mainVars
  <2>2. m \in Message
    BY <2>1, StreamTypes, StreamAssumption DEF Message, StreamInv
  <2>3. Messages(dispatched)' = Messages(dispatched)
    BY <2>1 DEF Messages
  <2> QED BY <2>1, <2>2, <2>3 DEF Feed!Next, Feed!Send
<1>3. CASE UNCHANGED <<sent, dispatched>>
  BY <1>3 DEF Feed!feedVars, Messages
<1>4. DispatchNext \/ ServerBroadcasts \/ UNCHANGED <<sent, dispatched>>
  BY DEF ManagerNext, managerVars, Outside, SensorCoroutine, ServiceCoroutines, ManagerMain, UpdateService,
         UpdateSensor, ManagerDestroy, Network, Main, ServerAccepts, ServerGone, ReaderConnects,
         ReaderSendsHandshake, ReaderReceives, ReaderPushesLine, ReaderFails, Update, Destroy, Joined,
         streamVars, serverVars, readerVars, mainVars
<1> QED BY <1>1, <1>2, <1>3, <1>4

\* The connection implements the abstract feed: the listeners see a prefix of what the
\* sensor sent, message by message, whatever the reads, the threads and the link do.
THEOREM SpecImplementsFeed == ManagerSpec => ImplementsFeed
<1>1. ManagerInit => Feed!Init
  BY InitFeed DEF ManagerInit
<1>2. StreamInv /\ [ManagerNext]_managerVars => [Feed!Next]_Feed!feedVars
  BY NextFeed
<1> QED BY <1>1, <1>2, StreamInvariant, PTL DEF ManagerSpec, ImplementsFeed, Feed!FeedSpec
=============================================================================
