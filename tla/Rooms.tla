-------------------------------- MODULE Rooms --------------------------------
(***************************************************************************)
(* Messages in a group of bots (internal/bots/rooms.go).                   *)
(*                                                                         *)
(* A post is stored in the group's event log, then admitted or not, and an *)
(* admitted post starts one goroutine for each member it is for.  The      *)
(* goroutines of one member take turns: each reads what the member has not *)
(* seen, hands it to the member's thread (into the turn it is taking, or   *)
(* as a turn in its queue) and stores how far the member has seen.  Posts, *)
(* deliveries to other members and a crash come between any two of these   *)
(* steps, and each of them can fail.                                       *)
(*                                                                         *)
(* A post is its place in the log.  What it says is left out, and so are   *)
(* the turns of the member's thread: a message counts as shown once the    *)
(* thread has taken it.                                                    *)
(***************************************************************************)
EXTENDS Naturals, Sequences, FiniteSets

CONSTANTS
    Members,       \* the bots in the group
    User,          \* the user, or a bot or thread that is not in the group
    MaxFollowUps,  \* maxFollowUps
    MaxPosts,      \* bound: posts
    MaxCrashes     \* bound: crashes of the server

ASSUME RoomAssumption ==
    /\ User \notin Members
    /\ MaxFollowUps \in Nat /\ MaxPosts \in Nat /\ MaxCrashes \in Nat

VARIABLES
    posts,      \* the group's room messages: who posted, whom it is for
    toAdmit,    \* posts that are stored and not yet admitted or kept back
    followUps,  \* Service.followUps of the group
    coming,     \* member -> posts whose goroutine waits for the delivery lock
    giving,     \* member -> the delivery that holds the lock
    seen,       \* member -> its membership's Seen, 0 without a membership
    \* Not in the program:
    admitted,   \* posts that were admitted
    shown,      \* member -> posts its thread has taken
    again,      \* member -> posts its thread has taken more than once
    unsaved,    \* member -> posts it was shown by a delivery that did not store it
    failed,     \* member -> posts whose delivery failed or was ended by a crash
    passed,     \* member -> posts a delivery left out for the member's own later one
    crashes

vars == <<posts, toAdmit, followUps, coming, giving, seen, admitted, shown, again,
          unsaved, failed, passed, crashes>>

Posts == DOMAIN posts
Post == [by : Members \cup {User}, to : SUBSET Members]

\* No delivery holds the lock.
NoDelivery == [at |-> "none", post |-> 0, batch |-> {}, upTo |-> 0]

Deliveries == [at : {"none", "hand", "save"}, post : admitted \cup {0},
               batch : SUBSET Posts, upTo : 0..Len(posts)]

\* What is being handed to m lies beyond what it has seen.
UnderWay(m) ==
    /\ giving[m].at # "none"
    /\ giving[m].post \in 1..giving[m].upTo
    /\ seen[m] < giving[m].upTo
    /\ \A p \in giving[m].batch : seen[m] < p /\ p <= giving[m].upTo

\* Besides the shapes: nobody posts to itself, and deliveries are for posts
\* that were admitted.
TypeOK ==
    /\ posts \in Seq(Post) /\ Len(posts) <= MaxPosts
    /\ \A p \in Posts : posts[p].by \notin posts[p].to
    /\ toAdmit \subseteq Posts /\ admitted \subseteq Posts \ toAdmit
    /\ followUps \in 0..MaxFollowUps
    /\ coming \in [Members -> SUBSET admitted]
    /\ giving \in [Members -> Deliveries]
    /\ \A m \in Members : giving[m] = NoDelivery \/ UnderWay(m)
    /\ seen \in [Members -> 0..Len(posts)]
    /\ shown \in [Members -> SUBSET Posts] /\ again \in [Members -> SUBSET Posts]
    /\ unsaved \in [Members -> SUBSET Posts] /\ passed \in [Members -> SUBSET Posts]
    /\ failed \in [Members -> SUBSET admitted]
    /\ crashes \in 0..MaxCrashes

Init ==
    /\ posts = << >>
    /\ toAdmit = {} /\ admitted = {}
    /\ followUps = 0
    /\ coming = [m \in Members |-> {}]
    /\ giving = [m \in Members |-> NoDelivery]
    /\ seen = [m \in Members |-> 0]
    /\ shown = [m \in Members |-> {}] /\ again = [m \in Members |-> {}]
    /\ unsaved = [m \in Members |-> {}] /\ failed = [m \in Members |-> {}]
    /\ passed = [m \in Members |-> {}]
    /\ crashes = 0

deliveryVars == <<coming, giving, seen, shown, again, unsaved, failed, passed>>

-----------------------------------------------------------------------------
\* post stores a message.  The user posts, and a member does from its thread in the
\* group or from any other of its threads.
StorePost(who, mentioned) ==
    /\ Len(posts) < MaxPosts
    /\ who \notin mentioned
    /\ posts' = Append(posts, [by |-> who,
          to |-> IF mentioned = {} THEN Members \ {who} ELSE mentioned])
    /\ toAdmit' = toAdmit \cup {Len(posts) + 1}
    /\ UNCHANGED <<followUps, admitted, crashes, deliveryVars>>

FromMember(p) == posts[p].by \in Members
AdmitsUnlessOver(p) == ~FromMember(p) \/ followUps <= MaxFollowUps
Admits(p) == ~FromMember(p) \/ followUps < MaxFollowUps

\* Deliveries to a member that has one under way are not started.
AdmitUnlessBusy(p) ==
    /\ p \in toAdmit
    /\ toAdmit' = toAdmit \ {p}
    /\ followUps' = IF ~FromMember(p) THEN 0
                    ELSE IF Admits(p) THEN followUps + 1 ELSE followUps
    /\ admitted' = IF Admits(p) THEN admitted \cup {p} ELSE admitted
    /\ coming' = [m \in Members |->
          IF Admits(p) /\ m \in posts[p].to /\ giving[m] = NoDelivery
          THEN coming[m] \cup {p} ELSE coming[m]]
    /\ UNCHANGED <<posts, giving, seen, shown, again, unsaved, failed, passed, crashes>>

\* admit, and the deliveries an admitted post starts.
Admit(p) ==
    /\ p \in toAdmit
    /\ toAdmit' = toAdmit \ {p}
    /\ followUps' = IF ~FromMember(p) THEN 0
                    ELSE IF Admits(p) THEN followUps + 1 ELSE followUps
    /\ admitted' = IF Admits(p) THEN admitted \cup {p} ELSE admitted
    /\ coming' = [m \in Members |->
          IF Admits(p) /\ m \in posts[p].to THEN coming[m] \cup {p} ELSE coming[m]]
    /\ UNCHANGED <<posts, giving, seen, shown, again, unsaved, failed, passed, crashes>>

-----------------------------------------------------------------------------
\* deliver

\* unseen: the posts of others after what the member has seen.  A member that was
\* shown nothing yet gets those after its own last post.
Unseen(m) ==
    {p \in (seen[m] + 1)..Len(posts) :
        /\ posts[p].by # m
        /\ seen[m] = 0 => \A q \in p..Len(posts) : posts[q].by # m}

LeftOut(m) == {p \in (seen[m] + 1)..Len(posts) : posts[p].by # m} \ Unseen(m)

\* A goroutine gets the lock, loads the membership (or joins the member) and reads
\* the log.  It ends when there is nothing to show, or with an error.
Begin(m, p) ==
    /\ giving[m] = NoDelivery
    /\ p \in coming[m]
    /\ coming' = [coming EXCEPT ![m] = @ \ {p}]
    /\ \/ /\ giving' = IF Unseen(m) = {} THEN giving
                       ELSE [giving EXCEPT ![m] = [at |-> "hand", post |-> p,
                               batch |-> Unseen(m), upTo |-> Len(posts)]]
          /\ passed' = [passed EXCEPT ![m] = @ \cup LeftOut(m)]
          /\ UNCHANGED failed
       \/ /\ failed' = [failed EXCEPT ![m] = @ \cup {p}]
          /\ UNCHANGED <<giving, passed>>
    /\ UNCHANGED <<posts, toAdmit, followUps, seen, admitted, shown, again, unsaved,
                   crashes>>

\* The delivery ends with an error: the group is told.
Unreachable(m) ==
    /\ failed' = [failed EXCEPT ![m] = @ \cup {giving[m].post}]
    /\ giving' = [giving EXCEPT ![m] = NoDelivery]

\* The thread takes the messages.
Take(m) ==
    /\ shown' = [shown EXCEPT ![m] = @ \cup giving[m].batch]
    /\ again' = [again EXCEPT ![m] = @ \cup (giving[m].batch \cap shown[m])]

\* The thread takes the messages and the delivery ends there.
HandOverOnly(m) ==
    /\ giving[m].at = "hand"
    /\ Take(m)
    /\ giving' = [giving EXCEPT ![m] = NoDelivery]
    /\ UNCHANGED failed
    /\ UNCHANGED <<posts, toAdmit, followUps, coming, seen, admitted, unsaved, passed,
                   crashes>>

\* The messages are steered into the running turn, or queued when there is none or it
\* cannot take them, or the queue refuses them.
HandOver(m) ==
    /\ giving[m].at = "hand"
    /\ \/ /\ Take(m)
          /\ giving' = [giving EXCEPT ![m].at = "save"]
          /\ UNCHANGED failed
       \/ Unreachable(m) /\ UNCHANGED <<shown, again>>
    /\ UNCHANGED <<posts, toAdmit, followUps, coming, seen, admitted, unsaved, passed,
                   crashes>>

\* SaveMembership marks everything in the log seen.
SaveAll(m) ==
    /\ giving[m].at = "save"
    /\ seen' = [seen EXCEPT ![m] = Len(posts)]
    /\ giving' = [giving EXCEPT ![m] = NoDelivery]
    /\ UNCHANGED <<unsaved, failed>>
    /\ UNCHANGED <<posts, toAdmit, followUps, coming, admitted, shown, again, passed,
                   crashes>>

\* SaveMembership marks what was read seen, or fails.
SaveSeen(m) ==
    /\ giving[m].at = "save"
    /\ \/ /\ seen' = [seen EXCEPT ![m] = giving[m].upTo]
          /\ giving' = [giving EXCEPT ![m] = NoDelivery]
          /\ UNCHANGED <<unsaved, failed>>
       \/ /\ unsaved' = [unsaved EXCEPT ![m] = @ \cup giving[m].batch]
          /\ Unreachable(m)
          /\ UNCHANGED seen
    /\ UNCHANGED <<posts, toAdmit, followUps, coming, admitted, shown, again, passed,
                   crashes>>

-----------------------------------------------------------------------------
\* The log and the memberships survive; nothing takes up the deliveries, and the
\* follow-ups are counted anew.
Crash ==
    /\ crashes < MaxCrashes
    /\ crashes' = crashes + 1
    /\ followUps' = 0
    /\ toAdmit' = {}
    /\ coming' = [m \in Members |-> {}]
    /\ giving' = [m \in Members |-> NoDelivery]
    /\ failed' = [m \in Members |-> failed[m] \cup coming[m]
            \cup (IF giving[m] = NoDelivery THEN {} ELSE {giving[m].post})]
    /\ unsaved' = [m \in Members |->
            IF giving[m].at = "save" THEN unsaved[m] \cup giving[m].batch ELSE unsaved[m]]
    /\ UNCHANGED <<posts, seen, admitted, shown, again, passed>>

Deliver(m) == (\E p \in coming[m] : Begin(m, p)) \/ HandOver(m) \/ SaveSeen(m)

Next ==
    \/ \E who \in Members \cup {User}, mentioned \in SUBSET Members :
          StorePost(who, mentioned)
    \/ \E p \in toAdmit : Admit(p)
    \/ \E m \in Members : Deliver(m)
    \/ Crash

Spec == Init /\ [][Next]_vars

\* Fairness: goroutines go on; the lock goes to those that wait for it.
FairSpec ==
    /\ Spec
    /\ WF_vars(\E p \in toAdmit : Admit(p))
    /\ \A m \in Members : WF_vars(Deliver(m))

-----------------------------------------------------------------------------
\* What counts as seen by a member was shown to it, also a post that was kept back
\* (the follow-ups ran out) or that was for others, and a post that came while the
\* delivery was on its way.  Excepted are the posts before one of its own that a
\* delivery left out because the member had seen nothing.
NothingSkipped ==
    \A m \in Members : \A p \in 1..seen[m] :
        posts[p].by = m \/ p \in shown[m] \cup passed[m]

\* A member is shown a post once, however many deliveries to it run: twice only when
\* the delivery that showed it could not store that it did.
ShownOnce == \A m \in Members : again[m] \subseteq unsaved[m]

\* Admitted posts reach every member they are for, or the group is told that the
\* member could not be reached, or the server crashed on the way; excepted is what
\* NothingSkipped excepts.
Arrived(m, p) == p \in shown[m] \cup failed[m] \cup passed[m]
EveryPostArrives ==
    <>[](\A m \in Members : \A p \in admitted : m \in posts[p].to => Arrived(m, p))

\* A delivery is not forgotten: an admitted post that has not arrived is being
\* delivered or waits for the lock, whatever became of the deliveries before it.
PostAttended ==
    \A m \in Members : \A p \in admitted :
        m \in posts[p].to =>
            Arrived(m, p) \/ p \in coming[m] \/ giving[m].post = p

=============================================================================
