----------------------------- MODULE UsersPage ------------------------------
(***************************************************************************)
(* The Users page: every process of the snapshot folded into the session   *)
(* it belongs to and into that session's row for its program, the group    *)
(* load of shared devices (BusiestShare in model.rs), and the rows, their  *)
(* order and the selection drawn from the result.                          *)
(***************************************************************************)
EXTENDS Naturals, Sequences, FiniteSets, FiniteSetsExt, SequencesExt

CONSTANTS
    UserPids,      \* processes, in snapshot order by number
    Sids,          \* sessions; UserOf gives their user
    UserOf(_),
    Programs,      \* program names, ordered by number
    Devices,       \* what a time slice is a share of: disks, GPU engines
    Whole,         \* 100 %
    NoSid          \* no session, no selection

\* Fixed inputs of a fold: how one process was measured.  "none": the trace
\* never saw it; "plain": its backend reports no share per device.
Measures ==
    [how : {"none"}, dev : {NoSid}, pct : {0}] \cup [how : {"plain"}, dev : {NoSid}, pct : {1}]
        \cup [how : {"share"}, dev : Devices, pct : {1}] \cup [how : {"share"}, dev : {Min(Devices)}, pct : {0}]

VARIABLES
    members,        \* the snapshot: session or user, program, measure of each process
    listing,        \* the session cache, in the system's order
    unfolded,       \* processes the frame has not reached
    rolls, apps,    \* Agg: per session, and per session and program
    query, order,   \* the search field; users_sort
    unfolds,        \* expanded_users
    usersPicked          \* selected_user

dataVars == <<members, listing>>
viewVars == <<query, order, unfolds, usersPicked>>
usersVars == <<dataVars, unfolded, rolls, apps, viewVars>>

NewRoll == [per |-> [d \in Devices |-> 0], plain |-> 0, known |-> FALSE, count |-> 0]

Added(roll, m) ==
    [roll EXCEPT !.count = @ + 1,
                 !.known = @ \/ m.how # "none",
                 !.plain = IF m.how = "plain" THEN @ + m.pct ELSE @,
                 !.per = IF m.how = "share" THEN [@ EXCEPT ![m.dev] = @ + m.pct] ELSE @]

\* BusiestShare::pct.
Percent(roll) == Min({Max({roll.per[d] : d \in Devices} \cup {roll.plain}), Whole})

\* The session a process is shown under: its own, or else the first listed one
\* of its user.  A session that is not listed shows nothing.
\* Mutation: the user decides even where the session is known.
HomeByUser(m) ==
    LET of == SelectSeq(listing, LAMBDA s : UserOf(s) = m.user)
    IN  IF of = <<>> THEN NoSid ELSE Head(of)
Home(m) ==
    LET of == SelectSeq(listing, LAMBDA s : UserOf(s) = m.user)
    IN  IF m.sid # NoSid THEN (IF m.sid \in ToSet(listing) THEN m.sid ELSE NoSid)
        ELSE IF of = <<>> THEN NoSid ELSE Head(of)

Users == {UserOf(s) : s \in Sids}
Listings == {SetToSeq(Sids), Reverse(SetToSeq(Sids))}

UsersInit ==
    /\ members \in [UserPids -> [sid : Sids \cup {NoSid}, user : Users, app : Programs, load : Measures]]
    /\ \A p \in UserPids : members[p].sid # NoSid => members[p].user = UserOf(members[p].sid)
    /\ listing \in Listings
    /\ unfolded = UserPids
    /\ rolls = [s \in Sids |-> NewRoll] /\ apps = [x \in Sids \X Programs |-> NewRoll]
    /\ query = 0 /\ order = "name" /\ unfolds = {} /\ usersPicked = NoSid

\* One step of the loop over the snapshot's processes, in its order.
Fold ==
    /\ unfolded # {}
    /\ LET p == Min(unfolded)
           m == members[p]
           s == Home(m)
       IN  /\ unfolded' = unfolded \ {p}
           /\ IF s = NoSid THEN UNCHANGED <<rolls, apps>>
              ELSE /\ rolls' = [rolls EXCEPT ![s] = Added(@, m.load)]
                   /\ apps' = [apps EXCEPT ![<<s, m.app>>] = Added(@, m.load)]
    /\ UNCHANGED <<dataVars, viewVars>>

SortKey(roll) == IF roll.known THEN Percent(roll) + 1 ELSE 0

\* compare_users and compare_user_apps; equal rows keep the system's order.
Precedes(ka, kb, na, nb, ia, ib) ==
    LET tie == na < nb \/ (na = nb /\ ia < ib)
    IN  CASE order = "name" -> tie
          [] order = "load down" -> ka > kb \/ (ka = kb /\ tie)

Indexed(s) == CHOOSE i \in DOMAIN listing : listing[i] = s
AppsOf(s) == {a \in Programs : apps[<<s, a>>].count > 0}
Sought(s) == query = 0 \/ query \in AppsOf(s)

UserRows ==
    SetToSortSeq({s \in ToSet(listing) : Sought(s)},
        LAMBDA a, b : Precedes(SortKey(rolls[a]), SortKey(rolls[b]), UserOf(a), UserOf(b), Indexed(a), Indexed(b)))
AppRows(s) ==
    IF s \notin unfolds THEN <<>>
    ELSE SetToSortSeq(AppsOf(s),
        LAMBDA a, b : Precedes(SortKey(apps[<<s, a>>]), SortKey(apps[<<s, b>>]), a, b, a, b))
UserLines ==
    LET users == UserRows
        under(s) == LET a == AppRows(s) IN [j \in DOMAIN a |-> <<s, a[j]>>]
    IN  FlattenSeq([i \in DOMAIN users |-> <<<<users[i], 0>>>> \o under(users[i])])

KeyStops == SelectSeq(UserLines, LAMBDA r : r[2] = 0)

\* The rest of a frame, with what the user did in it.
PaintedUsers == unfolded = {}
Picks(s) == usersPicked' = s /\ UNCHANGED <<query, order, unfolds>>

ClickUser == PaintedUsers /\ \E s \in ToSet(UserRows) : Picks(s)
Chevron ==
    /\ PaintedUsers /\ \E s \in ToSet(UserRows) : unfolds' = SymDiff(unfolds, {s})
    /\ UNCHANGED <<query, order, usersPicked>>
\* Where the arrow keys take the selection: from its row, or from the edge.
Stop(stops, up) ==
    LET at == {i \in DOMAIN stops : stops[i][1] = usersPicked}
        n == Len(stops)
    IN  stops[IF up THEN (IF at = {} THEN n ELSE Max({Min(at) - 1, 1}))
              ELSE IF at = {} THEN 1 ELSE Min({Min(at) + 1, n})][1]
ArrowKey == PaintedUsers /\ KeyStops # <<>> /\ \E up \in BOOLEAN : Picks(Stop(KeyStops, up))
\* first_search_match_session_id: Enter in the search field.
CommitSearch == PaintedUsers /\ UserRows # <<>> /\ Picks(Head(UserRows))
TypeQuery == PaintedUsers /\ query' \in {0, Min(Programs)} /\ UNCHANGED <<order, unfolds, usersPicked>>
HeaderClick ==
    /\ PaintedUsers
    /\ order' = IF order = "name" THEN "load down" ELSE "name"
    /\ UNCHANGED <<query, unfolds, usersPicked>>

UserInput ==
    /\ ClickUser \/ Chevron \/ ArrowKey \/ CommitSearch \/ TypeQuery \/ HeaderClick
    /\ UNCHANGED <<dataVars, unfolded, rolls, apps>>

\* The session cache was read again; the next frame folds from nothing.
Relist ==
    /\ PaintedUsers /\ listing # <<>>
    /\ listing' = Tail(listing)
    /\ unfolded' = UserPids
    /\ rolls' = [s \in Sids |-> NewRoll] /\ apps' = [x \in Sids \X Programs |-> NewRoll]
    /\ UNCHANGED <<members, viewVars>>

UsersNext == Fold \/ UserInput \/ Relist
UsersSpec == UsersInit /\ [][UsersNext]_usersVars

-----------------------------------------------------------------------------
(* Properties.                                                              *)

Belongs(s) == {p \in UserPids : Home(members[p]) = s}
LoadOn(S, d) == SumSet({10 * p + members[p].load.pct : p \in {q \in S : members[q].load.dev = d}})
                    - SumSet({10 * p : p \in {q \in S : members[q].load.dev = d}})
PlainOf(S) == LoadOn({p \in S : members[p].load.how = "plain"}, NoSid)

\* The rows of a session account for each of its processes exactly once, and a
\* process whose session is known is never counted under another session of
\* the same user (show, accumulate).
SessionsApart ==
    PaintedUsers => \A s \in ToSet(listing) :
        /\ rolls[s].count = Cardinality({p \in UserPids : members[p].sid = s}
                              \cup {p \in UserPids : members[p].sid = NoSid /\ Home(members[p]) = s})
        /\ rolls[s].count = MapThenSumSet(LAMBDA a : apps[<<s, a>>].count, Programs)

\* A group's load is the busiest device's, so it never exceeds the load of the
\* machine's busiest device ("a group can never exceed it", model.rs), unless a
\* backend gave no breakdown; and it is unknown exactly while no member was
\* measured ("an unmeasured group is not an idle one").
GroupWithinMachine ==
    PaintedUsers => \A s \in ToSet(listing) :
        /\ rolls[s].known = (\E p \in Belongs(s) : members[p].load.how # "none")
        /\ Percent(rolls[s]) <= Max({Min({LoadOn(UserPids, d), Whole}) : d \in Devices} \cup {Min({PlainOf(Belongs(s)), Whole})})

\* In a column sorted downwards no measured session stands below an unmeasured
\* one, not even one that measured zero (Roll::key).
UnmeasuredLast ==
    PaintedUsers /\ order = "load down" =>
        LET users == UserRows
        IN  \A i, j \in DOMAIN users : i < j /\ rolls[users[j]].known => rolls[users[i]].known

\* From any selected session, Down leads to the next session row however many
\* program rows are open between the two (show's user_positions).
ArrowsReachSessions ==
    PaintedUsers =>
        LET users == UserRows
        IN  \A i \in 1..Len(users) - 1 : users[i] = usersPicked => Stop(KeyStops, FALSE) = users[i + 1]

\* The Users page: a process counts for its own session, a user's share stays within the
\* machine, what nobody measured sorts last, and the arrows reach every session.
UsersTrue ==
  /\ SessionsApart /\ GroupWithinMachine /\ UnmeasuredLast /\ ArrowsReachSessions

=============================================================================
