------------------------------- MODULE RunPanel -------------------------------
(***************************************************************************)
(* The page that shows agent runs: components/panels/AgentExecutionPanel,   *)
(* hooks/useAgentStream and hooks/useAgentRuns over the query client        *)
(* (TanStack Query), beside runs that go their own way on the server.       *)
(*                                                                         *)
(* The page never reads a run's row.  It reads the list a query keeps, and  *)
(* only a run the list shows as running or cancelling gets a live card.     *)
(* The card opens an EventSource, which cannot send the Authorization       *)
(* header the stream asks for and always fails; it then polls the run, and  *)
(* every answer only makes the list stale.                                  *)
(*                                                                         *)
(* Life is the status graph of RunLifecycle, which AgentRuns implements.    *)
(***************************************************************************)
EXTENDS Naturals, FiniteSets

CONSTANTS Runs, Nothing,
          Life,        \* pairs <<s, t>>: a run may go from status s to t by itself
          Slots,       \* 1..n: list requests the browser may have in flight, two at least
          MaxPolls,    \* bound: polls of one run under way
          MaxChanges,  \* bound: how often a run's row is written
          MaxFaults    \* bound: how many requests fail

Status == {"absent", "running", "cancelling", "completed", "cancelled",
           "interrupted", "failed", "timeout"}

ASSUME PanelAssumption ==
    /\ Nothing \notin Runs \cup Slots
    /\ Life \subseteq Status \X Status
    /\ Slots \subseteq Nat /\ 1 \in Slots
    /\ MaxPolls \in Nat /\ MaxChanges \in Nat \ {0} /\ MaxFaults \in Nat

VARIABLES row,      \* row[r]: the status of the run, and how often it was written
          list,     \* list[r]: what the query's data shows of the run
          loaded,   \* the query has data
          erred,    \* its last request failed for good (status "error")
          stale,    \* isInvalidated
          fetches,  \* fetches[i]: "free", "sent", or "read" with the rows the server saw
          current,  \* the request whose answer the query waits for, or Nothing
          mounted,  \* AgentsPanel is mounted
          stream,   \* stream[r]: useAgentStream of the run's card
          polls,    \* polls[r]: polls of the run under way
          submit,   \* the run of a submission that is not answered yet, or Nothing
          cancel,   \* the cancellation under way
          heard,    \* runs whose submission was answered while the page was open
          missed,   \* runs that an invalidation could not make the list show
          faults    \* requests that failed

panelVars == <<row, list, loaded, erred, stale, fetches, current, mounted, stream,
               polls, submit, cancel, heard, missed, faults>>

queryVars == <<list, loaded, erred, stale, fetches, current, missed>>

-----------------------------------------------------------------------------
Row == [status : Status, writes : 0..MaxChanges]

NoRow == [status |-> "absent", writes |-> 0]

Written(d, s) == [status |-> s, writes |-> d.writes + 1]

Request == [at : {"none", "accepted", "done"}, run : Runs \cup {Nothing}]

NoRequest == [at |-> "none", run |-> Nothing]

\* A list request: the rows the server has read, once it has.
Unread == [r \in Runs |-> NoRow]

Free == [at |-> "free", rows |-> Unread]

Sent == [at |-> "sent", rows |-> Unread]

\* runningRuns: the statuses that get a live card.
LiveStatus == {"running", "cancelling"}

(* What React mounts and unmounts when the list or the page changes.  A     *)
(* card that stays keeps its stream; one that goes closes it (stop).        *)
Cards(l, p) ==
    [r \in Runs |-> IF ~p \/ l[r].status \notin LiveStatus THEN "off"
                    ELSE IF stream[r] = "off" THEN "sse" ELSE stream[r]]

InitPanel ==
    /\ row \in [Runs -> {NoRow, Written(NoRow, "running")}]
    /\ list = [r \in Runs |-> NoRow]
    /\ loaded = FALSE /\ erred = FALSE /\ stale = FALSE
    /\ fetches = [j \in Slots |-> IF j = 1 THEN Sent ELSE Free]
    /\ current = 1
    /\ mounted = TRUE
    /\ stream = [r \in Runs |-> "off"]
    /\ polls = [r \in Runs |-> 0]
    /\ submit = Nothing /\ cancel = NoRequest
    /\ heard = {} /\ missed = {} /\ faults = 0

-----------------------------------------------------------------------------
(* The query client *)

\* The slots are alike: the first free one is taken.
StartFetch == \E i \in Slots : /\ fetches[i] = Free
                               /\ \A j \in Slots : j < i => fetches[j] # Free
                               /\ fetches' = [fetches EXCEPT ![i] = Sent]
                               /\ current' = i
                               /\ missed' = {}

KeepFetches == UNCHANGED <<fetches, current, missed>>

\* Runs the awaited request has read too early to see.
Overlooked == {r \in Runs : /\ fetches[current].at = "read"
                            /\ fetches[current].rows[r] = NoRow /\ row[r] # NoRow}

\* A request in flight is cancelled for a new one only if the query has data: the
\* first one is left to end, and its answer counts as fresh.
FetchAgain == IF current # Nothing /\ ~loaded
              THEN missed' = missed \cup Overlooked /\ UNCHANGED <<fetches, current>>
              ELSE StartFetch

FetchUnlessBusy == IF current # Nothing THEN KeepFetches ELSE StartFetch

InvalidateLater == stale' = TRUE /\ KeepFetches

(* invalidateQueries: active queries are fetched at once, others when they  *)
(* are next used.                                                           *)
Invalidate == /\ stale' = TRUE
              /\ IF mounted THEN FetchAgain ELSE KeepFetches

\* list_agent_runs: one SELECT of the user's runs; their scores are left out.
ListedRows == row

\* GET /agents/runs
ListRead(i) == /\ fetches[i].at = "sent"
               /\ fetches' = [fetches EXCEPT ![i] = [@ EXCEPT !.at = "read", !.rows = ListedRows]]
               /\ UNCHANGED <<row, list, loaded, erred, stale, current, mounted, stream, polls,
                              submit, cancel, heard, missed, faults>>

\* The answer to a cancelled request is ignored.
AnswerCounts(i) == i = current

ListAnswer(i) ==
    /\ fetches[i].at = "read"
    /\ fetches' = [fetches EXCEPT ![i] = Free]
    /\ IF AnswerCounts(i)
       THEN /\ list' = fetches[i].rows /\ loaded' = TRUE /\ erred' = FALSE /\ stale' = FALSE
            /\ current' = IF i = current THEN Nothing ELSE current
            /\ stream' = Cards(fetches[i].rows, mounted)
       ELSE UNCHANGED <<list, loaded, erred, stale, current, stream>>
    /\ UNCHANGED <<row, mounted, polls, submit, cancel, heard, missed, faults>>

(* The awaited list request fails: the query tries once more, and if that   *)
(* fails too it keeps its old data.  The page shows neither.                *)
ListFails ==
    /\ current # Nothing
    /\ faults < MaxFaults
    /\ faults' = faults + 1
    /\ \/ /\ fetches' = [fetches EXCEPT ![current] = Sent]
          /\ missed' = {}
          /\ UNCHANGED <<current, erred>>
       \/ /\ fetches' = [fetches EXCEPT ![current] = Free]
          /\ current' = Nothing
          /\ erred' = TRUE
          /\ UNCHANGED missed
    /\ UNCHANGED <<row, list, loaded, stale, mounted, stream, polls, submit, cancel, heard>>

-----------------------------------------------------------------------------
(* The page comes and goes *)

ClosePage == /\ mounted
             /\ mounted' = FALSE
             /\ stream' = Cards(list, FALSE)
             /\ UNCHANGED <<row, queryVars, polls, submit, cancel, heard, faults>>

(* Data younger than staleTime is shown as it is, unless it was invalidated. *)
OpenPage == /\ ~mounted
            /\ mounted' = TRUE
            /\ stream' = Cards(list, TRUE)
            /\ \/ FetchUnlessBusy
               \/ loaded /\ ~stale /\ KeepFetches
            /\ UNCHANGED <<row, list, loaded, erred, stale, polls, submit, cancel, heard, faults>>

(* The Refresh button. *)
Refresh == /\ mounted
           /\ Invalidate
           /\ UNCHANGED <<row, list, loaded, erred, mounted, stream, polls, submit, cancel, heard, faults>>

-----------------------------------------------------------------------------
(* A live card: useAgentStream *)

\* get_current_user: a request without a bearer token draws a 401.
Unauthorized(headers) == "Authorization" \notin headers

\* stream_agent_status asks for a user; an EventSource sends no header of a page's.
StreamOpens == ~Unauthorized({})

(* onerror: the EventSource is closed and the interval set. *)
SseFails(r) == /\ stream[r] = "sse"
               /\ ~StreamOpens
               /\ stream' = [stream EXCEPT ![r] = "poll"]
               /\ UNCHANGED <<row, queryVars, mounted, polls, submit, cancel, heard, faults>>

\* The interval does not wait for its last poll.
PollTick(r) == /\ stream[r] = "poll"
               /\ polls[r] < MaxPolls
               /\ polls' = [polls EXCEPT ![r] = @ + 1]
               /\ UNCHANGED <<row, queryVars, mounted, stream, submit, cancel, heard, faults>>

\* get_run: a run without a row is answered with 404.  What else it returns,
\* the stages and the evaluation, the card takes nothing from.
RunFound(r) == row[r] # NoRow

\* An onEvent that writes the polled run into the list instead.
PollPatches(r) == /\ polls[r] > 0
                  /\ RunFound(r)
                  /\ polls' = [polls EXCEPT ![r] = @ - 1]
                  /\ list' = [list EXCEPT ![r] = row[r]]
                  /\ stream' = Cards(list', mounted)
                  /\ KeepFetches
                  /\ UNCHANGED <<row, loaded, erred, stale, mounted, submit, cancel, heard, faults>>

(* The answer of a poll, whether or not the card is still there: onEvent.   *)
PollAnswer(r) == /\ polls[r] > 0
                 /\ RunFound(r)
                 /\ polls' = [polls EXCEPT ![r] = @ - 1]
                 /\ Invalidate
                 /\ UNCHANGED <<row, list, loaded, erred, mounted, stream, submit, cancel, heard, faults>>

\* A failed poll is ignored; the interval goes on.
PollFailureEnds(r) == /\ polls[r] > 0
                      /\ faults < MaxFaults
                      /\ faults' = faults + 1
                      /\ polls' = [polls EXCEPT ![r] = @ - 1]
                      /\ stream' = [stream EXCEPT ![r] = "dead"]
                      /\ UNCHANGED <<row, queryVars, mounted, submit, cancel, heard>>

PollFails(r) == /\ polls[r] > 0
                /\ faults < MaxFaults
                /\ faults' = faults + 1
                /\ polls' = [polls EXCEPT ![r] = @ - 1]
                /\ UNCHANGED <<row, queryVars, mounted, stream, submit, cancel, heard>>

-----------------------------------------------------------------------------
(* The user's requests *)

\* POST /agents/run
SubmitServed(r) == /\ row[r] = NoRow
                   /\ row' = [row EXCEPT ![r] = Written(@, "running")]

(* handleRun, or the retry button of a run that is completed or failed; a   *)
(* request the server refuses only shows a message.                         *)
Submit(r) == /\ mounted
             /\ submit = Nothing
             /\ SubmitServed(r)
             /\ submit' = r
             /\ UNCHANGED <<queryVars, mounted, stream, polls, cancel, heard, faults>>

(* The mutation without its onSuccess. *)
SubmitForgets ==
    /\ submit # Nothing
    /\ submit' = Nothing
    /\ heard' = IF mounted THEN heard \cup {submit} ELSE heard
    /\ UNCHANGED <<row, queryVars, mounted, stream, polls, cancel, faults>>

(* The mutation's onSuccess runs although the page may be gone by then.     *)
SubmitAnswer ==
    /\ submit # Nothing
    /\ submit' = Nothing
    /\ Invalidate
    /\ heard' = IF mounted THEN heard \cup {submit} ELSE heard
    /\ UNCHANGED <<row, list, loaded, erred, mounted, stream, polls, cancel, faults>>

\* The Cancel button of a live card, until its mutation is answered.
CancelButton(r) == mounted /\ list[r].status \in LiveStatus /\ cancel.run # r

(* cancel_run: its guard reads the row; the task is waited for; then the    *)
(* row is written whatever it has become.                                   *)
Cancel(r) == /\ CancelButton(r)
             /\ cancel = NoRequest
             /\ row[r].status \in LiveStatus
             /\ cancel' = [at |-> "accepted", run |-> r]
             /\ UNCHANGED <<row, queryVars, mounted, stream, polls, submit, heard, faults>>

CancelWrite == /\ cancel.at = "accepted"
               /\ row[cancel.run].writes < MaxChanges
               /\ row' = [row EXCEPT ![cancel.run] = Written(@, "cancelled")]
               /\ cancel' = [cancel EXCEPT !.at = "done"]
               /\ UNCHANGED <<queryVars, mounted, stream, polls, submit, heard, faults>>

CancelAnswer == /\ cancel.at = "done"
                /\ cancel' = NoRequest
                /\ Invalidate
                /\ UNCHANGED <<row, list, loaded, erred, mounted, stream, polls, submit, heard, faults>>

(* A run goes on by itself: it ends, is recovered, is resumed elsewhere.    *)
RunMoves(r) == /\ row[r].writes < MaxChanges
               /\ \E t \in {e[2] : e \in Life} :
                     /\ <<row[r].status, t>> \in Life
                     /\ row' = [row EXCEPT ![r] = Written(@, t)]
               /\ UNCHANGED <<queryVars, mounted, stream, polls, submit, cancel, heard, faults>>

-----------------------------------------------------------------------------
Network == \/ \E i \in Slots : ListRead(i) \/ ListAnswer(i)
           \/ ListFails
           \/ \E r \in Runs : SseFails(r) \/ PollTick(r) \/ PollAnswer(r) \/ PollFails(r)
           \/ SubmitAnswer \/ CancelWrite \/ CancelAnswer

User == \/ ClosePage \/ OpenPage \/ Refresh
        \/ \E r \in Runs : Submit(r) \/ Cancel(r)

NextPanel == Network \/ User \/ \E r \in Runs : RunMoves(r)

(* Timers fire, the server answers what it is asked, and a request that     *)
(* does not fail is answered.  That a list request is now and then answered *)
(* before the next poll cancels it is the network's promise, hence SF.      *)
FairnessPanel ==
    /\ \A i \in Slots : /\ WF_panelVars(ListRead(i)) /\ WF_panelVars(ListAnswer(i))
                        /\ SF_panelVars(i = current /\ ListRead(i))
                        /\ SF_panelVars(i = current /\ ListAnswer(i))
    /\ \A r \in Runs :
          WF_panelVars(SseFails(r)) /\ WF_panelVars(PollTick(r)) /\ WF_panelVars(PollAnswer(r))

SpecPanel == InitPanel /\ [][NextPanel]_panelVars /\ FairnessPanel
-----------------------------------------------------------------------------
(* Properties *)

\* Every variable has its type.
TypeOKPanel ==
    /\ row \in [Runs -> Row] /\ list \in [Runs -> Row]
    /\ loaded \in BOOLEAN /\ erred \in BOOLEAN /\ stale \in BOOLEAN /\ mounted \in BOOLEAN
    /\ fetches \in [Slots -> [at : {"free", "sent", "read"}, rows : [Runs -> Row]]]
    /\ current \in Slots \cup {Nothing}
    /\ stream \in [Runs -> {"off", "sse", "poll"}]
    /\ polls \in [Runs -> 0..MaxPolls]
    /\ submit \in Runs \cup {Nothing} /\ cancel \in Request
    /\ heard \subseteq Runs /\ missed \subseteq Runs /\ faults \in 0..MaxFaults

(* What the page shows of a run never goes back in the run's history: the   *)
(* list is fetched again on every poll, and answers overtake each other.    *)
NeverBack == [][\A r \in Runs : list'[r].writes >= list[r].writes]_panelVars

(* A live card follows its run: every change of the row is shown at last,   *)
(* or an earlier end of the run took the card away, although the stream     *)
(* never works, polls and list requests fail, and each poll cancels the     *)
(* list request before it.                                                  *)
CardsFollow == \A r \in Runs, n \in 1..MaxChanges :
    stream[r] # "off" /\ row[r].writes >= n ~> stream[r] = "off" \/ list[r].writes >= n

(* A run whose submission is answered while the page is open is shown at     *)
(* last, even if the answer comes while a list request that has read too    *)
(* early is under way, unless the page goes away or the list fails twice.   *)
(* The one exception is in missed: if that request is the first, which has  *)
(* no data yet, the code does not start another, and the run stays unseen   *)
(* until the list is asked for again, by the Refresh button or any change.  *)
SubmittedShows == \A r \in Runs :
    r \in heard /\ mounted ~> list[r] # NoRow \/ ~mounted \/ erred \/ r \in missed

=============================================================================
