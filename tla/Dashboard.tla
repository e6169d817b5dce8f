----------------------------- MODULE Dashboard -----------------------------
(***************************************************************************)
(* The web dashboard of "HTTP multithread client to send and receive       *)
(* data": index.php, which answers polls with the device's row and stores  *)
(* what the forms send, and script.js, which polls from every open page    *)
(* and shows the row with the forms.                                       *)
(*                                                                         *)
(* A page polls again only after an answer with status 200 that is JSON:   *)
(* one failed poll, or one answer with the text of a database error, stops *)
(* it until its user does something.  Submitting a form is a navigation:   *)
(* the server stores the form, and only when its answer, a new page, is    *)
(* there does it replace the old one, which polls and shows what it gets   *)
(* until then, and with it a poll that is under way.                       *)
(***************************************************************************)
EXTENDS Naturals, FiniteSets

CONSTANTS
  Browsers,   \* the open pages
  Delays,     \* the delays users enter
  NoRow,      \* nothing is shown, the answer holds no row, or nothing is stored
  MaxLate     \* bound on the forms that may be stored late

Commands == {"", "0", "1"} \cup Delays

ASSUME NoRowAssumption == NoRow \notin Browsers \cup Commands
ASSUME MaxLateAssumption == MaxLate \in Nat

VARIABLES
  row,       \* of the device's row the Command, the column that forms write; the
             \*   others are fetched and shown with it
  online,    \* the web server can be reached
  database,  \* and its database
  page,      \* per browser: "timer", "requested", "answered", "stalled"
  reply,     \* the answer under way to a page
  shown,     \* the row in a page's table
  nav,       \* the navigation of a browser: "none", "sent" or "answered"
  post,      \* the Command in its form, NoRow if it stores none
  late,      \* the Commands of forms whose browser waits no longer
  author     \* the browser whose form was stored last

pollVars == <<page, reply, shown>>
navVars == <<nav, post, late>>
pageVars == <<row, online, database, pollVars, navVars, author>>

NoAuthor == NoRow

PageTypeOK ==
  /\ row \in Commands /\ online \in BOOLEAN /\ database \in BOOLEAN
  /\ page \in [Browsers -> {"timer", "requested", "answered", "stalled"}]
  /\ reply \in [Browsers -> Commands \cup {NoRow}]
  /\ shown \in [Browsers -> Commands \cup {NoRow}]
  /\ nav \in [Browsers -> {"none", "sent", "answered"}]
  /\ post \in [Browsers -> Commands \cup {NoRow}]
  /\ late \subseteq Commands
  /\ author \in Browsers \cup {NoAuthor}

PageInit ==
  /\ row = "" /\ online = TRUE /\ database = TRUE
  /\ page = [b \in Browsers |-> "timer"]
  /\ reply = [b \in Browsers |-> NoRow]
  /\ shown = [b \in Browsers |-> NoRow]
  /\ nav = [b \in Browsers |-> "none"]
  /\ post = [b \in Browsers |-> NoRow]
  /\ late = {} /\ author = NoAuthor

-----------------------------------------------------------------------------
(***************************************************************************)
(* A poll.                                                                 *)
(***************************************************************************)
LoadXMLDoc(b) ==
  /\ page[b] = "timer"
  /\ page' = [page EXCEPT ![b] = "requested"]
  /\ UNCHANGED <<row, online, database, reply, shown, navVars, author>>

\* index.php: SELECT and echo, or the text of the exception.
Request(b) ==
  /\ page[b] = "requested" /\ online
  /\ page' = [page EXCEPT ![b] = "answered"]
  /\ reply' = [reply EXCEPT ![b] = IF database THEN row ELSE NoRow]
  /\ UNCHANGED <<row, online, database, shown, navVars, author>>

\* Mutant: only a changed row arms the timer again.
OnReadyStateChangeOnce(b) ==
  /\ page[b] = "answered"
  /\ IF reply[b] = NoRow
       THEN page' = [page EXCEPT ![b] = "stalled"] /\ UNCHANGED shown
       ELSE /\ shown' = [shown EXCEPT ![b] = reply[b]]
            /\ page' = [page EXCEPT ![b] = IF reply[b] = shown[b] THEN "answered" ELSE "timer"]
  /\ UNCHANGED <<row, online, database, reply, navVars, author>>

\* The answer arrives: JSON.parse throws if there is no row in it.
OnReadyStateChange(b) ==
  /\ page[b] = "answered"
  /\ reply' = [reply EXCEPT ![b] = NoRow]
  /\ IF reply[b] = NoRow
       THEN page' = [page EXCEPT ![b] = "stalled"] /\ UNCHANGED shown
       ELSE /\ shown' = [shown EXCEPT ![b] = reply[b]]
            /\ page' = [page EXCEPT ![b] = "timer"]
  /\ UNCHANGED <<row, online, database, navVars, author>>

\* The request or its answer is lost: the status is not 200.
PollFails(b) ==
  /\ page[b] \in {"requested", "answered"} /\ ~online
  /\ page' = [page EXCEPT ![b] = "stalled"]
  /\ reply' = [reply EXCEPT ![b] = NoRow]
  /\ UNCHANGED <<row, online, database, shown, navVars, author>>

-----------------------------------------------------------------------------
(***************************************************************************)
(* The forms, which a page has once it shows the row, and their answers.   *)
(***************************************************************************)
\* A request that its browser no longer waits for may still reach the server.
Abandon(b) ==
  late' \in IF nav[b] = "sent" /\ post[b] # NoRow /\ Cardinality(late) < MaxLate
             THEN {late, late \cup {post[b]}} ELSE {late}

\* A click starts a navigation, in the place of one that is under way.  The page
\* stays until the answer is there.
Navigate(b, command) ==
  /\ nav' = [nav EXCEPT ![b] = "sent"] /\ post' = [post EXCEPT ![b] = command]
  /\ Abandon(b)
  /\ UNCHANGED <<row, online, database, pollVars, author>>

Submit(b, command) == shown[b] # NoRow /\ Navigate(b, command)

On(b) == Submit(b, "1")
\* Mutant: the wrong column.
OffMisspelt(b) == Submit(b, "off")
Off(b) == Submit(b, "0")
SetDelay(b) == \E d \in Delays : Submit(b, d)
\* The quote after the name is missing: MySQL refuses the statement, and the
\* name, which no property is about, stays as it is.
SetName(b) == Submit(b, NoRow)
Reload(b) == Navigate(b, NoRow)

\* index.php: UPDATE and the page, or the text of the exception and the page.
Update(b) ==
  /\ nav[b] = "sent" /\ online
  /\ nav' = [nav EXCEPT ![b] = "answered"] /\ post' = [post EXCEPT ![b] = NoRow]
  /\ IF database /\ post[b] # NoRow
       THEN row' = post[b] /\ author' = b
       ELSE UNCHANGED <<row, author>>
  /\ UNCHANGED <<online, database, pollVars, late>>

\* The browser shows another page, with nothing in its table.
Replaced(b, state) ==
  /\ page' = [page EXCEPT ![b] = state]
  /\ reply' = [reply EXCEPT ![b] = NoRow] /\ shown' = [shown EXCEPT ![b] = NoRow]
  /\ nav' = [nav EXCEPT ![b] = "none"] /\ post' = [post EXCEPT ![b] = NoRow]
  /\ UNCHANGED <<row, online, database, author>>

\* Mutant: the form is sent behind the page's back, which stays.
NewPageStays(b) ==
  /\ nav[b] = "answered"
  /\ nav' = [nav EXCEPT ![b] = "none"]
  /\ UNCHANGED <<row, online, database, pollVars, post, late, author>>

NewPage(b) == nav[b] = "answered" /\ Replaced(b, "timer") /\ UNCHANGED late

\* The request or its answer is lost, after the form was stored or before: the
\* browser shows its error page.
NavigationFails(b) ==
  /\ nav[b] # "none" /\ ~online
  /\ Replaced(b, "stalled") /\ Abandon(b)

\* A form that nobody waits for is stored, or lost.
LateUpdate ==
  /\ online
  /\ \E command \in late :
       /\ late' = late \ {command}
       /\ \/ database /\ row' = command /\ author' = NoAuthor
          \/ UNCHANGED <<row, author>>
  /\ UNCHANGED <<online, database, pollVars, nav, post>>

-----------------------------------------------------------------------------
\* The services' failures and returns.
ServiceComesOrGoes ==
  /\ \/ online' = ~online /\ UNCHANGED database
     \/ database' = ~database /\ UNCHANGED online
  /\ UNCHANGED <<row, pollVars, navVars, author>>

Poll(b) == LoadXMLDoc(b) \/ Request(b) \/ OnReadyStateChange(b) \/ PollFails(b)
User(b) == On(b) \/ Off(b) \/ SetDelay(b) \/ SetName(b) \/ Reload(b)

Answer(b) == Update(b) \/ NewPage(b) \/ NavigationFails(b)

PageNext ==
  \/ \E b \in Browsers : Poll(b) \/ User(b) \/ Answer(b)
  \/ LateUpdate \/ ServiceComesOrGoes

\* Timers expire, and requests come to an end.
PageSpec ==
  /\ PageInit /\ [][PageNext]_pageVars
  /\ \A b \in Browsers : WF_pageVars(Poll(b)) /\ WF_pageVars(Answer(b))

-----------------------------------------------------------------------------
(***************************************************************************)
(* Properties.                                                             *)
(***************************************************************************)
\* A user sees what the own form stored: from the moment its answer is there, the
\* page that stored the last form never shows a command from before it, whatever
\* polls were under way.  (Until then the old page may still show the older one; and
\* a form that was given up before may be stored after a newer one.)
ReadsOwnWrites ==
  \A b \in Browsers :
    author = b /\ nav[b] = "none" /\ shown[b] # NoRow => shown[b] = row

\* A page that is left open and never stalls again ends up with the row that
\* is in the database.
DashboardFollows ==
  \A b \in Browsers :
    (<>[](page[b] # "stalled") /\ <>[][~User(b)]_pageVars /\ <>[][UNCHANGED row]_pageVars)
      => <>[](shown[b] = row)
=============================================================================
