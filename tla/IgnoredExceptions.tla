-------------------------- MODULE IgnoredExceptions --------------------------
(***************************************************************************)
(* The list of ignored exceptions: DbgHost's m_ignoredExceptions and       *)
(* m_seenExceptions, the verbs that edit the list (ignoreexc, catchexc,    *)
(* rmexc), the engine callback that consults it, how the target goes on    *)
(* from an exception, and the GUI page that removes a row by its number.   *)
(*                                                                         *)
(* SyncOptions_NoLock mirrors both lists in the handler of every command   *)
(* and event, and the page is drawn from the snapshot its frame began with *)
(* (a code seen meanwhile is mirrored later, which only delays a click).   *)
(* Commands wait in m_queue; one that removes a row carries, as ghosts,    *)
(* the range its sender meant and whether a removal comes between.         *)
(*                                                                         *)
(* No definition has a name that PersistedOptions has, so that one module  *)
(* can extend both.                                                        *)
(***************************************************************************)
EXTENDS Naturals, SequencesExt

CONSTANTS MaxCode,    \* exception codes are 0..MaxCode
          SeededCode, \* the code every DbgHost starts with, 406D1388
          MaxQueue    \* bound on the commands that wait

Codes == 0..MaxCode

ASSUME CodesAssumption ==
    /\ MaxCode \in Nat /\ SeededCode \in Codes
    /\ MaxQueue \in Nat

VARIABLES
    rows,    \* m_ignoredExceptions
    seen,    \* m_seenExceptions
    stopped, \* the target is paused at an exception
    passed,  \* the debuggee's own handler got the last exception
    waiting, \* commands on the list that wait
    page     \* both lists in the snapshot that is drawn

listVars == <<rows, seen, stopped, passed, waiting, page>>

Bounds   == [lo : Codes, hi : Codes]
Row      == {r \in Bounds : r.lo <= r.hi}
Only(c)  == [lo |-> c, hi |-> c]
Covers(r, c) == r.lo <= c /\ c <= r.hi
Has(list, x) == \E i \in DOMAIN list : list[i] = x

Add(r)   == [verb |-> "ignoreexc", range |-> r]
Catch(c) == [verb |-> "catchexc", range |-> Only(c)]
\* rmexc counts from 0, sequences from 1.
RemoveRow(i, late) ==
    [verb |-> "rmexc", index |-> i, range |-> page.rows[i], late |-> late]
Edits == {Add(r) : r \in Bounds} \cup {Catch(c) : c \in Codes}
            \cup [verb : {"rmexc"}, index : Nat, range : Row, late : BOOLEAN]

ListInit ==
    /\ rows = <<Only(SeededCode)>> /\ seen = <<>>
    /\ stopped = FALSE /\ passed = FALSE /\ waiting = <<>>
    /\ page = [rows |-> rows, seen |-> seen]

-----------------------------------------------------------------------------
(* DbgHost *)

Swapped(r) == IF r.hi < r.lo THEN [lo |-> r.hi, hi |-> r.lo] ELSE r

\* Variant: the bounds are left as given.
AddUnswapped(r) == IF Has(rows, r) THEN rows ELSE Append(rows, r)

AddIgnoredExceptionRange(r) ==
    IF Has(rows, Swapped(r)) THEN rows ELSE Append(rows, Swapped(r))

\* Variant: the row after the one that is meant.
RemoveNextAt(i) == IF i + 1 \in DOMAIN rows THEN RemoveAt(rows, i + 1) ELSE rows

RemoveIgnoredExceptionAt(i) == IF i \in DOMAIN rows THEN RemoveAt(rows, i) ELSE rows

\* erase(remove_if): no row is there twice, so one row at most goes.
RemoveIgnoredException(c) ==
    IF Has(rows, Only(c)) THEN RemoveAt(rows, CHOOSE i \in DOMAIN rows : rows[i] = Only(c))
                          ELSE rows

IsExceptionIgnored(c) == \E i \in DOMAIN rows : Covers(rows[i], c)

RecordSeenException(c) == IF Has(seen, c) THEN seen ELSE Append(seen, c)

\* HostCallbacks::Exception
Raise(c) ==
    /\ ~stopped
    /\ seen' = RecordSeenException(c)
    /\ stopped' = ~IsExceptionIgnored(c) /\ passed' = IsExceptionIgnored(c)
    /\ UNCHANGED <<rows, waiting, page>>

\* g: DEBUG_STATUS_GO leaves it to the engine whether the handler runs.
Go ==
    /\ stopped /\ stopped' = FALSE
    /\ passed' \in BOOLEAN
    /\ UNCHANGED <<rows, seen, waiting, page>>

\* ge: DEBUG_STATUS_GO_HANDLED says that the debugger has handled it.
GoPassException ==
    /\ stopped /\ stopped' = FALSE
    /\ passed' = FALSE
    /\ UNCHANGED <<rows, seen, waiting, page>>

-----------------------------------------------------------------------------
(* The verbs *)

Send(cmd) ==
    /\ Len(waiting) < MaxQueue
    /\ waiting' = Append(waiting, cmd)
    /\ UNCHANGED <<rows, seen, stopped, passed, page>>

\* Typed, piped, or the page's Ignore field; bounds in either order.
SendIgnore == \E r \in Bounds : Send(Add(r))
SendCatch  == \E c \in Codes : Send(Catch(c))

\* A frame takes the snapshot that it draws.
DrawPage ==
    /\ page' = [rows |-> rows, seen |-> seen]
    /\ UNCHANGED <<rows, seen, stopped, passed, waiting>>

\* The page's button at a code that was seen and is not ignored yet.
ClickIgnore ==
    \E i \in DOMAIN page.seen :
        /\ \A k \in DOMAIN page.rows : ~Covers(page.rows[k], page.seen[i])
        /\ Send(Add(Only(page.seen[i])))

\* Between the page and the command at its end a removal waits or has been done.
RemovalBetween ==
    \/ \E k \in DOMAIN waiting : waiting[k].verb # "ignoreexc"
    \/ ~IsPrefix(page.rows, rows)

\* The page's Remove button at a row, of whatever the page shows.
ClickRemove == \E i \in DOMAIN page.rows : Send(RemoveRow(i, RemovalBetween))

ExecuteEdit ==
    /\ waiting # <<>>
    /\ waiting' = Tail(waiting)
    /\ LET cmd == Head(waiting)
       IN  \/ /\ cmd.verb = "ignoreexc"
              /\ rows' = AddIgnoredExceptionRange(cmd.range)
           \/ /\ cmd.verb = "catchexc"
              /\ rows' = RemoveIgnoredException(cmd.range.lo)
           \/ /\ cmd.verb = "rmexc"
              /\ rows' = RemoveIgnoredExceptionAt(cmd.index)
    /\ UNCHANGED <<seen, stopped, passed, page>>

-----------------------------------------------------------------------------
ListNext ==
    \/ \E c \in Codes : Raise(c)
    \/ Go \/ GoPassException \/ DrawPage
    \/ SendIgnore \/ SendCatch \/ ClickIgnore \/ ClickRemove \/ ExecuteEdit

ListSpec == ListInit /\ [][ListNext]_listVars

-----------------------------------------------------------------------------
\* Types; every row is a range that something can match, and none is there twice.
TypeOK ==
    /\ rows \in Seq(Row) /\ \A i, j \in DOMAIN rows : rows[i] = rows[j] => i = j
    /\ seen \in Seq(Codes) /\ stopped \in BOOLEAN /\ passed \in BOOLEAN
    /\ waiting \in Seq(Edits) /\ Len(waiting) <= MaxQueue
    /\ page \in [rows : Seq(Row), seen : Seq(Codes)]

\* A click on Remove takes away the range at which it was made, and no other,
\* however many commands wait and run between the frame and the removal: unless a
\* removal is among them.
RemovesWhatWasMeant ==
    [][waiting # <<>> /\ waiting' = Tail(waiting)
         => LET cmd == Head(waiting)
            IN  cmd.verb = "rmexc" /\ ~cmd.late
                  => ToSet(rows') = ToSet(rows) \ {cmd.range}]_listVars

-----------------------------------------------------------------------------
(* Statements of the program's own that it does not keep *)

\* cmddispatch.cpp, the answer to rmexc: "removed ignored-exception row", the one with
\* the button.
TakesTheRowClicked ==
    [][waiting # <<>> /\ waiting' = Tail(waiting) /\ Head(waiting).verb = "rmexc"
         => ToSet(rows') = ToSet(rows) \ {Head(waiting).range}]_listVars

\* cmddispatch.cpp, the answer to catchexc: "no longer ignoring exception".
CatchTakesEffect ==
    [][\A c \in Codes :
          waiting # <<>> /\ Head(waiting) = Catch(c) /\ waiting' = Tail(waiting)
            => ~IsExceptionIgnored(c)']_listVars

\* cmddispatch.cpp, on ge: "passing the current first-chance exception to the
\* debuggee's own handler instead of stopping on it".
PassPasses == [][GoPassException => passed']_listVars
=============================================================================
