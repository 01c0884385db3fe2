---------------------------- MODULE Rooms_proofs ----------------------------
(***************************************************************************)
(* Theorems about Rooms, for any group, any number of posts and crashes    *)
(* and any limit on follow-ups.                                            *)
(***************************************************************************)
EXTENDS Rooms, SequenceTheorems, TLAPS

LEMMA PostAppended ==
    ASSUME NEW s \in Seq(Post), NEW e \in Post
    PROVE  /\ Append(s, e) \in Seq(Post)
           /\ Len(Append(s, e)) = Len(s) + 1
           /\ DOMAIN s = 1..Len(s) /\ DOMAIN Append(s, e) = 1..(Len(s) + 1)
           /\ \A i \in 1..Len(s) : Append(s, e)[i] = s[i]
           /\ Append(s, e)[Len(s) + 1] = e
           /\ Len(s) \in Nat
BY AppendProperties, LenProperties

-----------------------------------------------------------------------------
\* Type correctness.

LEMMA InitTyped == Init => TypeOK
BY RoomAssumption DEF Init, TypeOK, Deliveries, NoDelivery, Posts

LEMMA StoreTyped ==
    ASSUME TypeOK, NEW who \in Members \cup {User}, NEW mentioned \in SUBSET Members,
           StorePost(who, mentioned)
    PROVE  TypeOK'
<1> DEFINE e == [by |-> who, to |-> IF mentioned = {} THEN Members \ {who} ELSE mentioned]
<1>1. e \in Post /\ e.by \notin e.to /\ posts \in Seq(Post) /\ posts' = Append(posts, e)
    BY DEF StorePost, TypeOK, Post
<1> HIDE DEF e
<1>2. /\ posts' \in Seq(Post) /\ Len(posts') = Len(posts) + 1 /\ Len(posts) \in Nat
      /\ Posts = 1..Len(posts) /\ Posts' = 1..(Len(posts) + 1)
      /\ \A i \in Posts : posts'[i] = posts[i]
      /\ posts'[Len(posts) + 1] = e
    BY <1>1, PostAppended DEF Posts
<1>3. \A p \in Posts' : posts'[p].by \notin posts'[p].to
    BY <1>1, <1>2 DEF TypeOK
<1>4. toAdmit' \subseteq Posts' /\ admitted' \subseteq Posts' \ toAdmit'
    <2>1. /\ toAdmit \subseteq Posts /\ admitted \subseteq Posts \ toAdmit
          /\ toAdmit' = toAdmit \cup {Len(posts) + 1} /\ admitted' = admitted
        BY DEF TypeOK, StorePost
    <2>2. Len(posts) + 1 \in Posts' /\ Len(posts) + 1 \notin Posts /\ Posts \subseteq Posts'
        BY <1>2
    <2>3. QED
        BY <2>1, <2>2
<1>5. Deliveries \subseteq Deliveries'
    BY <1>2 DEF Deliveries, StorePost
<1>6. giving' \in [Members -> Deliveries']
    BY <1>5 DEF TypeOK, StorePost, deliveryVars
<1>7. \A m \in Members : (giving[m] = NoDelivery \/ UnderWay(m))'
    BY DEF TypeOK, StorePost, deliveryVars, UnderWay, NoDelivery
<1>8. Posts \subseteq Posts' /\ 0..Len(posts) \subseteq 0..Len(posts')
    BY <1>2
<1>9. QED
    BY <1>2, <1>3, <1>4, <1>6, <1>7, <1>8, RoomAssumption
    DEF TypeOK, StorePost, deliveryVars

LEMMA AdmitTyped ==
    ASSUME TypeOK, NEW p \in toAdmit, Admit(p)
    PROVE  TypeOK'
<1>1. Posts' = Posts /\ p \in Posts
    BY DEF TypeOK, Admit, Posts
<1>2. /\ admitted \subseteq admitted' /\ admitted' \subseteq Posts' \ toAdmit'
      /\ Deliveries \subseteq Deliveries'
    BY <1>1 DEF TypeOK, Admit, Deliveries
<1>3. coming' \in [Members -> SUBSET admitted']
    BY DEF TypeOK, Admit
<1>4. followUps' \in 0..MaxFollowUps
    BY RoomAssumption DEF TypeOK, Admit, Admits
<1>5. \A m \in Members : (giving[m] = NoDelivery \/ UnderWay(m))'
    BY DEF TypeOK, Admit, UnderWay, NoDelivery
<1>6. QED
    BY <1>1, <1>2, <1>3, <1>4, <1>5 DEF TypeOK, Admit

LEMMA BeginTyped ==
    ASSUME TypeOK, NEW m \in Members, NEW p \in coming[m], Begin(m, p)
    PROVE  TypeOK'
<1> DEFINE d == [at |-> "hand", post |-> p, batch |-> Unseen(m), upTo |-> Len(posts)]
<1>1. /\ Posts' = Posts /\ Posts = 1..Len(posts) /\ Len(posts) \in Nat
      /\ p \in admitted /\ p \in Posts /\ Deliveries' = Deliveries
    BY LenProperties DEF TypeOK, Begin, Posts, Deliveries
<1>2. Unseen(m) \subseteq Posts /\ LeftOut(m) \subseteq Posts
    BY <1>1 DEF Unseen, LeftOut, TypeOK
<1>3. coming' \in [Members -> SUBSET admitted] /\ failed' \in [Members -> SUBSET admitted]
      /\ passed' \in [Members -> SUBSET Posts]
    <2>1. coming' \in [Members -> SUBSET admitted]
        BY DEF TypeOK, Begin
    <2>2. failed' = failed \/ failed' = [failed EXCEPT ![m] = @ \cup {p}]
        BY DEF Begin
    <2>3. failed' \in [Members -> SUBSET admitted]
        <3>1. failed \in [Members -> SUBSET admitted]
            BY DEF TypeOK
        <3>2. failed[m] \cup {p} \in SUBSET admitted
            BY <1>1, <3>1
        <3>3. QED
            BY <2>2, <3>1, <3>2
    <2>4. passed' = passed \/ passed' = [passed EXCEPT ![m] = @ \cup LeftOut(m)]
        BY DEF Begin
    <2>5. passed' \in [Members -> SUBSET Posts]
        <3>1. passed \in [Members -> SUBSET Posts]
            BY DEF TypeOK
        <3>2. passed[m] \cup LeftOut(m) \in SUBSET Posts
            BY <1>2, <3>1
        <3>3. QED
            BY <2>4, <3>1, <3>2
    <2>6. QED
        BY <2>1, <2>3, <2>5
<1>4. d \in Deliveries
    BY <1>1, <1>2 DEF Deliveries
<1>5. seen[m] \in Nat /\ \A q \in Unseen(m) : seen[m] < q /\ q <= Len(posts)
    BY <1>1 DEF Unseen, TypeOK
<1>6. \/ giving' = giving
      \/ Unseen(m) # {} /\ giving' = [giving EXCEPT ![m] = d]
    BY DEF Begin
<1>7. d.at # "none" /\ d.post = p /\ d.batch = Unseen(m) /\ d.upTo = Len(posts)
    OBVIOUS
<1> HIDE DEF d
<1>8. giving' \in [Members -> Deliveries]
    BY <1>4, <1>6 DEF TypeOK
<1>9. \A o \in Members : (giving[o] = NoDelivery \/ UnderWay(o))'
    <2>1. CASE giving' = giving
        BY <2>1 DEF TypeOK, Begin, UnderWay, NoDelivery
    <2>2. CASE Unseen(m) # {} /\ giving' = [giving EXCEPT ![m] = d]
        <3>1. UnderWay(m)'
            <4>1. giving'[m] = d /\ seen'[m] = seen[m]
                BY <2>2 DEF TypeOK, Begin
            <4>2. seen[m] < Len(posts) /\ p \in 1..Len(posts)
                <5>1. PICK q \in Unseen(m) : seen[m] < q /\ q <= Len(posts)
                    BY <1>5, <2>2
                <5>2. q \in Nat
                    BY <1>1, <1>2
                <5>3. QED
                    BY <1>1, <1>5, <5>1, <5>2
            <4>3. /\ giving'[m].at # "none" /\ giving'[m].post = p
                  /\ giving'[m].batch = Unseen(m) /\ giving'[m].upTo = Len(posts)
                BY <1>7, <4>1
            <4>4. \A q \in giving'[m].batch : seen'[m] < q /\ q <= giving'[m].upTo
                BY <1>5, <4>1, <4>3
            <4>5. QED
                BY <4>1, <4>2, <4>3, <4>4 DEF UnderWay
        <3>2. \A o \in Members \ {m} : (giving[o] = NoDelivery \/ UnderWay(o))'
            BY <2>2 DEF TypeOK, Begin, UnderWay, NoDelivery
        <3>3. QED
            BY <3>1, <3>2
    <2>3. QED
        BY <1>6, <2>1, <2>2
<1>10. QED
    BY <1>1, <1>3, <1>8, <1>9 DEF TypeOK, Begin

\* What the delivery under way to m is about.
LEMMA Giving ==
    ASSUME TypeOK, NEW m \in Members, giving[m].at # "none"
    PROVE  /\ UnderWay(m)
           /\ giving[m] \in Deliveries /\ giving[m].post \in admitted
           /\ giving[m].batch \in SUBSET Posts /\ giving[m].upTo \in 0..Len(posts)
<1>1. UnderWay(m) /\ giving[m] \in Deliveries
    BY DEF TypeOK, NoDelivery
<1>2. giving[m].upTo \in Nat
    BY <1>1, LenProperties DEF TypeOK, Deliveries
<1>3. giving[m].post # 0
    BY <1>1, <1>2 DEF UnderWay
<1>4. QED
    BY <1>1, <1>3 DEF Deliveries

LEMMA HandOverTyped ==
    ASSUME TypeOK, NEW m \in Members, HandOver(m)
    PROVE  TypeOK'
<1> DEFINE d == [giving[m] EXCEPT !.at = "save"]
<1>1. /\ Posts' = Posts /\ Deliveries' = Deliveries /\ NoDelivery \in Deliveries
      /\ giving[m].at # "none"
    BY LenProperties DEF TypeOK, HandOver, Posts, Deliveries, NoDelivery
<1>2. /\ UnderWay(m) /\ giving[m] \in Deliveries /\ giving[m].post \in admitted
      /\ giving[m].batch \in SUBSET Posts
    BY <1>1, Giving
<1>3. /\ d \in Deliveries /\ d.at # "none" /\ d.post = giving[m].post
      /\ d.batch = giving[m].batch /\ d.upTo = giving[m].upTo
    BY <1>2 DEF Deliveries
<1>4. \/ giving' = [giving EXCEPT ![m] = NoDelivery]
      \/ giving' = [giving EXCEPT ![m] = d]
    BY DEF HandOver, Unreachable
<1> HIDE DEF d
<1>5. failed' \in [Members -> SUBSET admitted]
      /\ shown' \in [Members -> SUBSET Posts] /\ again' \in [Members -> SUBSET Posts]
    <2>1. \/ failed' = failed /\ Take(m)
          \/ /\ failed' = [failed EXCEPT ![m] = @ \cup {giving[m].post}]
             /\ UNCHANGED <<shown, again>>
        BY DEF HandOver, Unreachable
    <2>2. failed' \in [Members -> SUBSET admitted]
        <3>1. failed \in [Members -> SUBSET admitted]
            BY DEF TypeOK
        <3>2. failed[m] \cup {giving[m].post} \in SUBSET admitted
            BY <1>2, <3>1
        <3>3. QED
            BY <2>1, <3>1, <3>2
    <2>3. shown' \in [Members -> SUBSET Posts]
        <3>1. shown \in [Members -> SUBSET Posts]
            BY DEF TypeOK
        <3>2. shown[m] \cup giving[m].batch \in SUBSET Posts
            BY <1>2, <3>1
        <3>3. QED
            BY <2>1, <3>1, <3>2 DEF Take
    <2>4. again' \in [Members -> SUBSET Posts]
        <3>1. again \in [Members -> SUBSET Posts]
            BY DEF TypeOK
        <3>2. again[m] \cup (giving[m].batch \cap shown[m]) \in SUBSET Posts
            BY <1>2, <3>1
        <3>3. QED
            BY <2>1, <3>1, <3>2 DEF Take
    <2>5. QED
        BY <2>2, <2>3, <2>4
<1>6. giving' \in [Members -> Deliveries]
    BY <1>1, <1>3, <1>4 DEF TypeOK
<1>7. \A o \in Members : (giving[o] = NoDelivery \/ UnderWay(o))'
    <2>1. \A o \in Members \ {m} : (giving[o] = NoDelivery \/ UnderWay(o))'
        BY <1>4 DEF TypeOK, HandOver, UnderWay, NoDelivery
    <2>2. giving'[m] = NoDelivery \/ giving'[m] = d
        BY <1>4 DEF TypeOK
    <2>3. (giving[m] = NoDelivery \/ UnderWay(m))'
        BY <1>2, <1>3, <2>2 DEF TypeOK, HandOver, UnderWay, NoDelivery
    <2>4. QED
        BY <2>1, <2>3
<1>8. QED
    BY <1>1, <1>5, <1>6, <1>7 DEF TypeOK, HandOver

LEMMA SaveTyped ==
    ASSUME TypeOK, NEW m \in Members, SaveSeen(m)
    PROVE  TypeOK'
<1>1. /\ Posts' = Posts /\ Deliveries' = Deliveries /\ NoDelivery \in Deliveries
      /\ giving[m].at # "none"
    BY LenProperties DEF TypeOK, SaveSeen, Posts, Deliveries, NoDelivery
<1>2. /\ giving[m] \in Deliveries /\ giving[m].post \in admitted
      /\ giving[m].batch \in SUBSET Posts /\ giving[m].upTo \in 0..Len(posts)
    BY <1>1, Giving
<1>3. giving' = [giving EXCEPT ![m] = NoDelivery]
    BY DEF SaveSeen, Unreachable
<1>4. giving' \in [Members -> Deliveries]
    BY <1>1, <1>3 DEF TypeOK
<1>5. \A o \in Members \ {m} : seen'[o] = seen[o]
    BY DEF TypeOK, SaveSeen
<1>6. \A o \in Members : (giving[o] = NoDelivery \/ UnderWay(o))'
    BY <1>3, <1>5 DEF TypeOK, UnderWay, NoDelivery
<1>7. /\ failed' \in [Members -> SUBSET admitted]
      /\ unsaved' \in [Members -> SUBSET Posts]
      /\ seen' \in [Members -> 0..Len(posts)]
    <2>1. \/ failed' = failed /\ unsaved' = unsaved
             /\ seen' = [seen EXCEPT ![m] = giving[m].upTo]
          \/ /\ failed' = [failed EXCEPT ![m] = @ \cup {giving[m].post}]
             /\ unsaved' = [unsaved EXCEPT ![m] = @ \cup giving[m].batch]
             /\ seen' = seen
        BY DEF SaveSeen, Unreachable
    <2>2. failed' \in [Members -> SUBSET admitted]
        <3>1. failed \in [Members -> SUBSET admitted]
            BY DEF TypeOK
        <3>2. failed[m] \cup {giving[m].post} \in SUBSET admitted
            BY <1>2, <3>1
        <3>3. QED
            BY <2>1, <3>1, <3>2
    <2>3. unsaved' \in [Members -> SUBSET Posts]
        <3>1. unsaved \in [Members -> SUBSET Posts]
            BY DEF TypeOK
        <3>2. unsaved[m] \cup giving[m].batch \in SUBSET Posts
            BY <1>2, <3>1
        <3>3. QED
            BY <2>1, <3>1, <3>2
    <2>4. QED
        BY <1>2, <2>1, <2>2, <2>3 DEF TypeOK
<1>8. QED
    BY <1>1, <1>4, <1>6, <1>7 DEF TypeOK, SaveSeen

LEMMA CrashTyped == TypeOK /\ Crash => TypeOK'
<1> SUFFICES ASSUME TypeOK, Crash PROVE TypeOK'
    OBVIOUS
<1>1. /\ Posts' = Posts /\ Deliveries' = Deliveries /\ NoDelivery \in Deliveries
    BY LenProperties DEF TypeOK, Crash, Posts, Deliveries, NoDelivery
<1>2. \A m \in Members : giving[m].batch \in SUBSET Posts
    BY DEF TypeOK, Deliveries
<1>3. \A m \in Members : giving[m] # NoDelivery => giving[m].post \in admitted
    BY Giving DEF TypeOK, UnderWay
<1>4. failed' \in [Members -> SUBSET admitted] /\ unsaved' \in [Members -> SUBSET Posts]
    BY <1>2, <1>3 DEF TypeOK, Crash
<1>5. giving' \in [Members -> Deliveries] /\ \A m \in Members : giving'[m] = NoDelivery
    BY <1>1 DEF Crash
<1>6. QED
    BY <1>1, <1>4, <1>5, RoomAssumption DEF TypeOK, Crash, NoDelivery

LEMMA NextTyped == TypeOK /\ [Next]_vars => TypeOK'
<1> SUFFICES ASSUME TypeOK, [Next]_vars PROVE TypeOK'
    OBVIOUS
<1>1. CASE UNCHANGED vars
    BY <1>1 DEF TypeOK, vars, Posts, Deliveries, UnderWay, NoDelivery
<1>2. CASE Next
    BY <1>2, StoreTyped, AdmitTyped, BeginTyped, HandOverTyped, SaveTyped,
       CrashTyped DEF Next, Deliver
<1>3. QED
    BY <1>1, <1>2

\* The log, the deliveries and the memberships keep their types (rooms.go: post,
\* admit, deliver), and the follow-ups never exceed their limit.
THEOREM TypeCorrect == Spec => []TypeOK
BY InitTyped, NextTyped, PTL DEF Spec

-----------------------------------------------------------------------------
\* What a delivery under way to m knows.  What it hands over was new to m, or is shown
\* again because storing it failed; what it leaves out was left out for a reason; and
\* what counts as seen was shown.

KnownShown(m) ==
    \A p \in shown[m] :
        \/ p <= seen[m]
        \/ p \in unsaved[m]
        \/ giving[m].at = "save" /\ p \in giving[m].batch

Handed(m) == giving[m].at = "save" => giving[m].batch \subseteq shown[m]

Covered(m) ==
    giving[m].at # "none" =>
        \A p \in 1..giving[m].upTo :
            \/ p <= seen[m] \/ posts[p].by = m
            \/ p \in giving[m].batch \cup passed[m]

SeenShown(m) ==
    \A p \in 1..seen[m] : posts[p].by = m \/ p \in shown[m] \cup passed[m]

Once(m) == again[m] \subseteq unsaved[m]

Attended(m) ==
    \A p \in admitted :
        m \in posts[p].to =>
            Arrived(m, p) \/ p \in coming[m] \/ giving[m].post = p

Known(m) ==
    KnownShown(m) /\ Handed(m) /\ Covered(m) /\ SeenShown(m) /\ Once(m) /\ Attended(m)

DeliveryInv == TypeOK /\ \A m \in Members : Known(m)

LEMMA InitKnown == Init => DeliveryInv
<1> SUFFICES ASSUME Init PROVE DeliveryInv
    OBVIOUS
<1>1. TypeOK
    BY InitTyped
<1>2. \A m \in Members : Known(m)
    BY DEF Init, Known, KnownShown, Handed, Covered, SeenShown, Once, Attended, NoDelivery
<1>3. QED
    BY <1>1, <1>2 DEF DeliveryInv

\* A step that leaves m's delivery and memberships alone.
LEMMA KnownStays ==
    ASSUME TypeOK, NEW m \in Members, Known(m), \A p \in Posts : posts'[p] = posts[p],
           giving'[m] = giving[m], seen'[m] = seen[m], shown'[m] = shown[m],
           again'[m] = again[m], unsaved'[m] = unsaved[m], passed'[m] = passed[m],
           failed[m] \subseteq failed'[m],
           \A p \in admitted' : m \in posts'[p].to => p \in coming'[m] \/ p \in admitted,
           coming[m] \subseteq coming'[m] \cup failed'[m]
    PROVE  Known(m)'
<1>1. seen[m] \in 0..Len(posts) /\ giving[m] \in Deliveries /\ Posts = 1..Len(posts)
      /\ Len(posts) \in Nat /\ admitted \subseteq Posts
    BY LenProperties DEF TypeOK, Posts
<1>2. giving[m].upTo \in 0..Len(posts)
    BY <1>1 DEF Deliveries
<1>3. KnownShown(m)' /\ Handed(m)' /\ Once(m)'
    BY DEF Known, KnownShown, Handed, Once
<1>4. Covered(m)'
    BY <1>1, <1>2 DEF Known, Covered
<1>5. SeenShown(m)'
    BY <1>1 DEF Known, SeenShown
<1>6. Attended(m)'
    BY <1>1 DEF Known, Attended, Arrived
<1>7. QED
    BY <1>3, <1>4, <1>5, <1>6 DEF Known

LEMMA StoreKnown ==
    ASSUME DeliveryInv, NEW who \in Members \cup {User}, NEW mentioned \in SUBSET Members,
           StorePost(who, mentioned)
    PROVE  \A m \in Members : Known(m)'
<1> DEFINE e == [by |-> who, to |-> IF mentioned = {} THEN Members \ {who} ELSE mentioned]
<1>1. e \in Post /\ posts \in Seq(Post) /\ posts' = Append(posts, e)
    BY DEF StorePost, DeliveryInv, TypeOK, Post
<1> HIDE DEF e
<1>2. \A p \in Posts : posts'[p] = posts[p]
    BY <1>1, PostAppended DEF Posts
<1>3. QED
    BY <1>2, KnownStays DEF DeliveryInv, StorePost, deliveryVars

LEMMA AdmitKnown ==
    ASSUME DeliveryInv, NEW p \in toAdmit, Admit(p)
    PROVE  \A m \in Members : Known(m)'
<1>1. \A m \in Members :
        /\ coming[m] \subseteq coming'[m]
        /\ \A q \in admitted' : m \in posts[q].to => q \in coming'[m] \/ q \in admitted
    BY DEF DeliveryInv, TypeOK, Admit
<1>2. QED
    BY <1>1, KnownStays DEF DeliveryInv, Admit

LEMMA BeginKnown ==
    ASSUME DeliveryInv, NEW m \in Members, NEW p \in coming[m], Begin(m, p)
    PROVE  \A o \in Members : Known(o)'
<1>1. TypeOK /\ Known(m) /\ giving[m] = NoDelivery
    BY DEF DeliveryInv, Begin
<1>2. ASSUME NEW o \in Members, o # m
      PROVE  Known(o)'
    <2>1. giving'[o] = giving[o] /\ passed'[o] = passed[o] /\ failed'[o] = failed[o]
          /\ coming'[o] = coming[o]
        BY <1>1, <1>2 DEF TypeOK, Begin
    <2>2. QED
        BY <1>1, <2>1, KnownStays DEF DeliveryInv, Begin
<1>3. Known(m)'
    <2> DEFINE d == [at |-> "hand", post |-> p, batch |-> Unseen(m), upTo |-> Len(posts)]
    <2>1. /\ Posts = 1..Len(posts) /\ Len(posts) \in Nat /\ seen[m] \in 0..Len(posts)
          /\ p \in Posts /\ p \in admitted
        BY <1>1, LenProperties DEF TypeOK, Posts
    <2>2. /\ UNCHANGED <<posts, seen, admitted, shown, again, unsaved>>
          /\ coming'[m] = coming[m] \ {p}
        BY <1>1 DEF TypeOK, Begin
    <2>3. CASE UNCHANGED <<giving, passed>> /\ failed' = [failed EXCEPT ![m] = @ \cup {p}]
        <3>1. failed'[m] = failed[m] \cup {p}
            BY <1>1, <2>3 DEF TypeOK
        <3>2. QED
            BY <1>1, <2>2, <2>3, <3>1, KnownStays
    <2>4. CASE /\ passed' = [passed EXCEPT ![m] = @ \cup LeftOut(m)]
               /\ giving' = IF Unseen(m) = {} THEN giving ELSE [giving EXCEPT ![m] = d]
               /\ UNCHANGED failed
        <3>1. passed'[m] = passed[m] \cup LeftOut(m)
            BY <1>1, <2>4 DEF TypeOK
        <3>2. IF Unseen(m) = {} THEN giving'[m] = NoDelivery
              ELSE /\ giving'[m].at = "hand" /\ giving'[m].post = p
                   /\ giving'[m].batch = Unseen(m) /\ giving'[m].upTo = Len(posts)
            BY <1>1, <2>4 DEF TypeOK
        <3>3. \A q \in 1..Len(posts) :
                \/ q <= seen[m] \/ posts[q].by = m \/ q \in Unseen(m) \/ q \in LeftOut(m)
            BY <2>1 DEF LeftOut
        <3>4. giving'[m].at # "save"
            BY <3>2 DEF NoDelivery
        <3>5. KnownShown(m)' /\ Handed(m)' /\ Once(m)'
            BY <1>1, <2>2, <3>4 DEF Known, KnownShown, Handed, Once, NoDelivery
        <3>6. Covered(m)'
            BY <2>2, <3>1, <3>2, <3>3 DEF Covered, NoDelivery
        <3>7. SeenShown(m)'
            BY <1>1, <2>2, <3>1 DEF Known, SeenShown
        <3>8. Attended(m)'
            <4>1. giving'[m].post = p \/ (Unseen(m) = {} /\ giving'[m] = NoDelivery)
                BY <3>2
            <4>2. ASSUME m \in posts[p].to, Unseen(m) = {}
                  PROVE  p \in shown[m] \cup passed'[m]
                <5>1. posts[p].by # m
                    BY <1>1, <2>1, <4>2 DEF TypeOK
                <5>2. p <= seen[m] \/ p \in LeftOut(m)
                    BY <2>1, <3>3, <4>2, <5>1
                <5>3. p <= seen[m] => p \in shown[m] \cup passed[m]
                    BY <1>1, <2>1, <5>1 DEF Known, SeenShown
                <5>4. QED
                    BY <3>1, <5>2, <5>3
            <4>3. ASSUME NEW q \in admitted, m \in posts[q].to
                  PROVE  \/ q \in shown[m] \cup failed[m] \cup passed'[m]
                         \/ q \in coming'[m] \/ giving'[m].post = q
                <5>1. CASE q = p
                    BY <4>1, <4>2, <4>3, <5>1
                <5>2. CASE q # p
                    <6>1. giving[m].post = 0 /\ q # 0
                        BY <1>1, <2>1 DEF TypeOK, NoDelivery
                    <6>2. q \in shown[m] \cup failed[m] \cup passed[m] \cup coming[m]
                        BY <1>1, <4>3, <6>1 DEF Known, Attended, Arrived
                    <6>3. QED
                        BY <2>2, <3>1, <5>2, <6>2
                <5>3. QED
                    BY <5>1, <5>2
            <4>4. QED
                BY <2>2, <2>4, <4>3 DEF Attended, Arrived
        <3>9. QED
            BY <3>5, <3>6, <3>7, <3>8 DEF Known
    <2>5. QED
        BY <2>3, <2>4 DEF Begin
<1>4. QED
    BY <1>2, <1>3

LEMMA HandOverKnown ==
    ASSUME DeliveryInv, NEW m \in Members, HandOver(m)
    PROVE  \A o \in Members : Known(o)'
<1>1. /\ TypeOK /\ Known(m) /\ giving[m].at = "hand"
      /\ UnderWay(m) /\ giving[m] \in Deliveries
    BY Giving DEF DeliveryInv, HandOver
<1>2. ASSUME NEW o \in Members, o # m
      PROVE  Known(o)'
    <2>1. giving'[o] = giving[o] /\ shown'[o] = shown[o] /\ failed'[o] = failed[o]
          /\ again'[o] = again[o]
        BY <1>1, <1>2 DEF TypeOK, HandOver, Unreachable, Take
    <2>2. QED
        BY <1>1, <2>1, KnownStays DEF DeliveryInv, HandOver
<1>3. UNCHANGED <<posts, coming, seen, admitted, unsaved, passed>>
    BY DEF HandOver
<1>4. CASE Unreachable(m) /\ UNCHANGED <<shown, again>>
    <2>1. giving'[m] = NoDelivery /\ failed'[m] = failed[m] \cup {giving[m].post}
        BY <1>1, <1>4 DEF TypeOK, Unreachable
    <2>2. KnownShown(m)' /\ Handed(m)' /\ Covered(m)' /\ SeenShown(m)' /\ Once(m)'
        BY <1>1, <1>3, <1>4, <2>1
        DEF Known, KnownShown, Handed, Covered, SeenShown, Once, NoDelivery
    <2>3. Attended(m)'
        BY <1>1, <1>3, <1>4, <2>1 DEF Known, Attended, Arrived
    <2>4. QED
        BY <1>2, <2>2, <2>3 DEF Known
<1>5. CASE Take(m) /\ giving' = [giving EXCEPT ![m].at = "save"] /\ UNCHANGED failed
    <2>1. /\ giving'[m].at = "save" /\ giving'[m].post = giving[m].post
          /\ giving'[m].batch = giving[m].batch /\ giving'[m].upTo = giving[m].upTo
        BY <1>1, <1>5 DEF TypeOK, Deliveries
    <2>2. /\ shown'[m] = shown[m] \cup giving[m].batch
          /\ again'[m] = again[m] \cup (giving[m].batch \cap shown[m])
        BY <1>1, <1>5 DEF TypeOK, Take
    <2>3. KnownShown(m)' /\ Handed(m)'
        BY <1>1, <1>3, <2>1, <2>2 DEF Known, KnownShown, Handed
    <2>4. Covered(m)' /\ SeenShown(m)'
        BY <1>1, <1>3, <2>1, <2>2 DEF Known, Covered, SeenShown
    <2>5. \A p \in giving[m].batch \cap shown[m] : p \in unsaved[m]
        <3>1. \A p \in giving[m].batch : seen[m] < p /\ p \in Nat /\ seen[m] \in Nat
            BY <1>1, LenProperties DEF UnderWay, TypeOK, Deliveries, Posts
        <3>2. \A p \in giving[m].batch : ~(p <= seen[m])
            BY <3>1
        <3>3. QED
            BY <1>1, <3>2 DEF Known, KnownShown
    <2>6. Once(m)'
        BY <1>1, <1>3, <2>2, <2>5 DEF Known, Once
    <2>7. Attended(m)'
        BY <1>1, <1>3, <1>5, <2>1, <2>2 DEF Known, Attended, Arrived
    <2>8. QED
        BY <1>2, <2>3, <2>4, <2>6, <2>7 DEF Known
<1>6. QED
    BY <1>4, <1>5 DEF HandOver

LEMMA SaveKnown ==
    ASSUME DeliveryInv, NEW m \in Members, SaveSeen(m)
    PROVE  \A o \in Members : Known(o)'
<1>1. /\ TypeOK /\ Known(m) /\ giving[m].at = "save"
      /\ UnderWay(m) /\ giving[m] \in Deliveries
      /\ giving[m].upTo \in 0..Len(posts) /\ Len(posts) \in Nat /\ seen[m] \in Nat
      /\ giving[m].batch \subseteq shown[m]
    BY Giving, LenProperties DEF DeliveryInv, SaveSeen, Known, Handed, TypeOK
<1>2. ASSUME NEW o \in Members, o # m
      PROVE  Known(o)'
    <2>1. giving'[o] = giving[o] /\ seen'[o] = seen[o] /\ failed'[o] = failed[o]
          /\ unsaved'[o] = unsaved[o]
        BY <1>1, <1>2 DEF TypeOK, SaveSeen, Unreachable
    <2>2. QED
        BY <1>1, <2>1, KnownStays DEF DeliveryInv, SaveSeen
<1>3. /\ UNCHANGED <<posts, coming, admitted, shown, again, passed>>
      /\ giving'[m] = NoDelivery
    BY <1>1 DEF SaveSeen, Unreachable, TypeOK
<1>4. CASE seen' = [seen EXCEPT ![m] = giving[m].upTo] /\ UNCHANGED <<unsaved, failed>>
    <2>1. seen'[m] = giving[m].upTo
        BY <1>1, <1>4 DEF TypeOK
    <2>2. KnownShown(m)'
        <3>1. \A p \in giving[m].batch : p <= giving[m].upTo
            BY <1>1 DEF UnderWay
        <3>2. \A p \in shown[m] : p <= seen[m] => p <= giving[m].upTo
            BY <1>1 DEF UnderWay, TypeOK, Posts
        <3>3. QED
            BY <1>1, <1>3, <1>4, <2>1, <3>1, <3>2 DEF Known, KnownShown
    <2>3. SeenShown(m)'
        <3>1. ASSUME NEW p \in 1..giving[m].upTo
              PROVE  posts[p].by = m \/ p \in shown[m] \cup passed[m]
            <4>1. CASE p <= seen[m]
                BY <1>1, <4>1 DEF Known, SeenShown
            <4>2. CASE ~(p <= seen[m])
                BY <1>1, <4>2 DEF Known, Covered
            <4>3. QED
                BY <4>1, <4>2
        <3>2. QED
            BY <1>3, <2>1, <3>1 DEF SeenShown
    <2>4. Handed(m)' /\ Covered(m)' /\ Once(m)'
        BY <1>1, <1>3, <1>4 DEF Known, Handed, Covered, Once, NoDelivery
    <2>5. Attended(m)'
        <3>1. ASSUME NEW p \in admitted, m \in posts[p].to, giving[m].post = p
              PROVE  p \in shown[m] \cup passed[m]
            <4>1. p \in 1..giving[m].upTo /\ posts[p].by # m
                BY <1>1, <3>1 DEF TypeOK, UnderWay
            <4>2. QED
                BY <1>3, <2>1, <2>3, <4>1 DEF SeenShown
        <3>2. QED
            BY <1>1, <1>3, <1>4, <3>1 DEF Known, Attended, Arrived
    <2>6. QED
        BY <1>2, <2>2, <2>3, <2>4, <2>5 DEF Known
<1>5. CASE /\ unsaved' = [unsaved EXCEPT ![m] = @ \cup giving[m].batch]
           /\ failed' = [failed EXCEPT ![m] = @ \cup {giving[m].post}]
           /\ UNCHANGED seen
    <2>1. unsaved'[m] = unsaved[m] \cup giving[m].batch
          /\ failed'[m] = failed[m] \cup {giving[m].post}
        BY <1>1, <1>5 DEF TypeOK
    <2>2. KnownShown(m)' /\ Handed(m)' /\ Covered(m)' /\ SeenShown(m)' /\ Once(m)'
        BY <1>1, <1>3, <1>5, <2>1
        DEF Known, KnownShown, Handed, Covered, SeenShown, Once, NoDelivery
    <2>3. Attended(m)'
        BY <1>1, <1>3, <2>1 DEF Known, Attended, Arrived
    <2>4. QED
        BY <1>2, <2>2, <2>3 DEF Known
<1>6. QED
    BY <1>4, <1>5 DEF SaveSeen, Unreachable

LEMMA CrashKnown ==
    ASSUME DeliveryInv, Crash, NEW m \in Members
    PROVE  Known(m)'
<1>1. TypeOK /\ Known(m)
    BY DEF DeliveryInv
<1>2. /\ UNCHANGED <<posts, seen, admitted, shown, again, passed>>
      /\ giving'[m] = NoDelivery /\ coming'[m] = {}
      /\ failed'[m] = failed[m] \cup coming[m]
            \cup (IF giving[m] = NoDelivery THEN {} ELSE {giving[m].post})
      /\ unsaved'[m] =
            IF giving[m].at = "save" THEN unsaved[m] \cup giving[m].batch ELSE unsaved[m]
    BY DEF Crash
<1>3. KnownShown(m)' /\ Handed(m)' /\ Covered(m)' /\ SeenShown(m)' /\ Once(m)'
    BY <1>1, <1>2 DEF Known, KnownShown, Handed, Covered, SeenShown, Once, NoDelivery
<1>4. Attended(m)'
    <2>1. giving[m] = NoDelivery => giving[m].post = 0
        BY DEF NoDelivery
    <2>2. 0 \notin admitted
        BY <1>1, LenProperties DEF TypeOK, Posts
    <2>3. QED
        BY <1>1, <1>2, <2>1, <2>2 DEF Known, Attended, Arrived
<1>5. QED
    BY <1>3, <1>4 DEF Known

LEMMA NextKnown == DeliveryInv /\ [Next]_vars => DeliveryInv'
<1> SUFFICES ASSUME DeliveryInv, [Next]_vars PROVE \A m \in Members : Known(m)'
    BY NextTyped DEF DeliveryInv
<1>1. CASE UNCHANGED vars
    BY <1>1 DEF vars, DeliveryInv, Known, KnownShown, Handed, Covered, SeenShown, Once,
                Attended, Arrived
<1>2. CASE Next
    BY <1>2, StoreKnown, AdmitKnown, BeginKnown, HandOverKnown, SaveKnown, CrashKnown
    DEF Next, Deliver
<1>3. QED
    BY <1>1, <1>2

LEMMA Delivered == Spec => []DeliveryInv
BY InitKnown, NextKnown, PTL DEF Spec

\* No post is skipped: what a membership counts as seen was shown to the member or
\* left out for the member's own later post (rooms.go:unseen, deliverLocked).
THEOREM NoPostSkipped == Spec => []NothingSkipped
<1>1. DeliveryInv => NothingSkipped
    BY DEF DeliveryInv, Known, SeenShown, NothingSkipped
<1>2. QED
    BY <1>1, Delivered, PTL

\* The delivery lock and Seen keep a post from being shown twice, unless storing Seen
\* failed after the post was handed over (rooms.go:deliver, deliverLocked).
THEOREM NoPostTwice == Spec => []ShownOnce
<1>1. DeliveryInv => ShownOnce
    BY DEF DeliveryInv, Known, Once, ShownOnce
<1>2. QED
    BY <1>1, Delivered, PTL

\* An admitted post has arrived, failed audibly or has its goroutine (rooms.go:post).
THEOREM NoPostForgotten == Spec => []PostAttended
<1>1. DeliveryInv => PostAttended
    BY DEF DeliveryInv, Known, Attended, PostAttended
<1>2. QED
    BY <1>1, Delivered, PTL

=============================================================================
