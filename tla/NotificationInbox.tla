-------------------------- MODULE NotificationInbox --------------------------
(***************************************************************************)
(* The table notifications, behind InAppUseCase and NotificationRepo       *)
(* (internal/repo/persistent/notification_postgres.go), as a client that   *)
(* pages through a user's list by offset sees it while notifications       *)
(* arrive and are read.  Each statement on the database is one step.       *)
(***************************************************************************)
EXTENDS Integers, FiniteSets

CONSTANTS
    Ids,      \* notification identifiers
    Recipients, \* users who may be notified
    Reader,   \* the user whose client is paging
    Times,    \* values of created_at: replicas' clocks, so in any order
    Limit     \* the limit the client asks for

ASSUME IdsAssumption == IsFiniteSet(Ids)
ASSUME ReaderAssumption == Reader \in Recipients
ASSUME TimesAssumption == Times \subseteq Nat
ASSUME LimitAssumption == Limit \in Nat \ {0}

VARIABLES
    rows,      \* the table: id, user_id, read, created_at
    client,    \* the client: "idle", "paging" or "done"
    offset,    \* the offset of its next page
    seen,      \* the notifications its pages held
    initial,   \* history: the ids in the list when the client began
    broken,    \* history: a page was cut short by a lost connection
    cleared    \* history: ids in the table at a MarkAllAsRead of their user

inboxVars == <<rows, client, offset, seen, initial, broken, cleared>>

paging == <<client, offset, seen, initial, broken>>

Row == [id : Ids, user : Recipients, read : BOOLEAN, createdAt : Times]

IdsOf(R) == {r.id : r \in R}

Of(u) == {r \in rows : r.user = u}

-----------------------------------------------------------------------------
(* Statements that write *)

\* Store stamps created_at with the clock of the process that runs it; read is
\* what the caller has set.
Store(id, u, t) ==
    /\ id \notin IdsOf(rows)
    /\ \E read \in BOOLEAN :
          rows' = rows \cup {[id |-> id, user |-> u, read |-> read, createdAt |-> t]}
    /\ UNCHANGED <<paging, cleared>>

\* A faulty variant: read is toggled.
MarkAsReadToggling(id) ==
    /\ rows' = {IF r.id = id THEN [r EXCEPT !.read = ~r.read] ELSE r : r \in rows}
    /\ UNCHANGED <<paging, cleared>>

MarkAsRead(id) ==
    /\ rows' = {IF r.id = id THEN [r EXCEPT !.read = TRUE] ELSE r : r \in rows}
    /\ UNCHANGED <<paging, cleared>>

MarkAllAsRead(u) ==
    /\ rows' = {IF r.user = u THEN [r EXCEPT !.read = TRUE] ELSE r : r \in rows}
    /\ cleared' = cleared \cup IdsOf(Of(u))
    /\ UNCHANGED paging

GetUnreadCount(u) == Cardinality({r \in Of(u) : ~r.read})

-----------------------------------------------------------------------------
(* GetByUserID: ORDER BY created_at DESC LIMIT limit OFFSET offset *)

(***************************************************************************)
(* The sets of rows a page may hold: those that some order by created_at,  *)
(* latest first, puts at positions offset + 1 to offset + limit.  Rows     *)
(* with equal created_at come in any order, in each query anew.            *)
(***************************************************************************)
Pages(R, limit, off) ==
    { page \in SUBSET R :
        \E before \in SUBSET (R \ page) :
            LET after == (R \ page) \ before IN
            /\ Cardinality(before) = off \/ (Cardinality(before) < off /\ page \cup after = {})
            /\ Cardinality(page) = limit \/ (Cardinality(page) < limit /\ after = {})
            /\ \A b \in before, p \in page \cup after : b.createdAt >= p.createdAt
            /\ \A p \in page, a \in after : p.createdAt >= a.createdAt }

Begin ==
    /\ client = "idle"
    /\ client' = "paging"
    /\ initial' = IdsOf(Of(Reader))
    /\ UNCHANGED <<rows, offset, seen, broken, cleared>>

\* The client keeps what it gets and stops at a page that is not full.
Take(page) ==
    /\ seen' = seen \cup IdsOf(page)
    /\ offset' = offset + Limit
    /\ client' = IF Cardinality(page) < Limit THEN "done" ELSE "paging"
    /\ UNCHANGED <<rows, initial, cleared>>

\* A faulty variant: the list shows unread notifications only.
GetByUserIDUnread ==
    /\ client = "paging"
    /\ \E page \in Pages({r \in Of(Reader) : ~r.read}, Limit, offset) : Take(page)
    /\ UNCHANGED broken

GetByUserID ==
    /\ client = "paging"
    /\ \E page \in Pages(Of(Reader), Limit, offset) : Take(page)
    /\ UNCHANGED broken

\* rows.Next stops at a lost connection and rows.Err is not asked.
GetByUserIDCutShort ==
    /\ client = "paging"
    /\ \E page \in Pages(Of(Reader), Limit, offset) :
          \E part \in SUBSET page \ {page} : Take(part)
    /\ broken' = TRUE

-----------------------------------------------------------------------------
InboxInit ==
    /\ rows = {}
    /\ client = "idle"
    /\ offset = 0
    /\ seen = {}
    /\ initial = {}
    /\ broken = FALSE
    /\ cleared = {}

InboxNext ==
    \/ \E id \in Ids, u \in Recipients, t \in Times : Store(id, u, t)
    \/ \E id \in Ids : MarkAsRead(id)
    \/ \E u \in Recipients : MarkAllAsRead(u)
    \/ Begin
    \/ GetByUserID
    \/ GetByUserIDCutShort

InboxSpec == InboxInit /\ [][InboxNext]_inboxVars

-----------------------------------------------------------------------------
(* Properties *)

\* The variables keep their types.
InboxTypeOK ==
    /\ rows \subseteq Row
    /\ client \in {"idle", "paging", "done"}
    /\ offset \in Nat
    /\ seen \subseteq Ids
    /\ initial \subseteq Ids
    /\ broken \in BOOLEAN
    /\ cleared \subseteq Ids

\* Whether no two rows of the reader's list have the same created_at.
DistinctTimes ==
    \A r, q \in Of(Reader) : r.createdAt = q.createdAt => r = q

(***************************************************************************)
(* Paging by offset shows every notification that was in the list when it  *)
(* began, however many arrive, with whatever clock, or are read meanwhile  *)
(* (notification_postgres.go:77-133); a lost connection and equal          *)
(* timestamps are the exceptions.                                          *)
(***************************************************************************)
PagingMissesNothing ==
    client = "done" /\ ~broken /\ DistinctTimes => initial \subseteq seen

(***************************************************************************)
(* After MarkAllAsRead the count of unread notifications is that of the    *)
(* ones that came later, whatever was stored or marked at the same time    *)
(* (notification_postgres.go:133-172).                                     *)
(***************************************************************************)
UnreadAreNew ==
    \A u \in Recipients :
        GetUnreadCount(u) <= Cardinality(IdsOf(Of(u)) \ cleared)

-----------------------------------------------------------------------------
(* The inductive invariant *)

\* The id is the primary key, and no row goes away.
RowsInv ==
    /\ \A r, q \in rows : r.id = q.id => r = q
    /\ cleared \subseteq IdsOf(rows)
    /\ initial \subseteq IdsOf(Of(Reader))

\* Nothing makes a notification unread again.
ReadInv == \A r \in rows : r.id \in cleared => r.read

\* What comes before the row r in the reader's list.
Newer(r) == IdsOf({q \in Of(Reader) : q.createdAt > r.createdAt})

\* A notification the client is still to see comes after the pages it has
\* taken: what arrives in front of it pushes it further down only.
PageInv ==
    ~broken /\ DistinctTimes =>
        /\ \A r \in Of(Reader) :
              r.id \in initial \ seen => Cardinality(Newer(r)) >= offset
        /\ client = "done" => initial \subseteq seen

InboxInv ==
    /\ InboxTypeOK /\ RowsInv /\ ReadInv /\ PageInv
    /\ client = "idle" => offset = 0
=============================================================================
