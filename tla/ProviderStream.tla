--------------------------- MODULE ProviderStream ---------------------------
(***************************************************************************)
(* One model request of the Codex adapter: credentials, the HTTP loop with *)
(* its retries and its 401 refresh, the replay of a response that failed   *)
(* before any output, and the processor that assembles the events of a     *)
(* Responses stream into the blocks of an assistant message.               *)
(*                                                                         *)
(* The items of a response are numbered in the server's order.  A text is  *)
(* the number of pieces of it.  A server speaks one of Dialects: whether   *)
(* its events carry item ids and output indexes, and whether the final     *)
(* event lists the items again.                                            *)
(***************************************************************************)
EXTENDS Integers, FiniteSets, SequencesExt

CONSTANTS ItemCount,  \* items of a response
          MaxPieces,  \* pieces of an item's text
          MaxRetries, \* config.maxRetries
          Dialects,
          Responses   \* the kinds of the items, of each response tried

ItemKinds == {"reasoning", "message", "function_call", "web_search_call"}

\* An item without an id is known by its index, and is announced once.
ASSUME ProviderAssumption ==
  /\ ItemCount \in Nat \ {0} /\ MaxPieces \in Nat /\ MaxRetries \in Nat
  /\ Dialects \subseteq [ids : BOOLEAN, indexes : BOOLEAN, lists : BOOLEAN]
  /\ Responses \subseteq [1..ItemCount -> ItemKinds]
  /\ \A d \in Dialects : d.ids \/ (d.indexes /\ ~d.lists)

VARIABLES
  request,   \* the awaits of the adapter, and its counters
  signal,    \* of the request: "none" until created, "live", "aborted", "timed_out"
  providerAborted,   \* context.signal.aborted
  processor, \* of the current response; its blocks are the message's
  server,    \* its dialect, and the items of the current response
  fetched    \* history: requests sent, and credential refreshes

providerVars == <<request, signal, providerAborted, processor, server, fetched>>

ResponseItems == 1..ItemCount

(* The processor.  An entry of pending stands for the entries of
   pendingByIndex and pendingById of one block. *)

FreshProcessor(blocks) ==
  [blocks |-> blocks, pending |-> {}, completedItemIds |-> {},
   nextSyntheticIndex |-> 0, outputStarted |-> FALSE, stopReason |-> "none"]

Announced(i) == IF server.dialect.indexes THEN i - 1 ELSE -1
ItemId(i) == IF server.dialect.ids THEN i ELSE 0

\* The block that an event with this index and this id belongs to, or 0.
FindPending(p, index, id) ==
  LET at == {e \in p.pending : e.index = index}
      as == {e \in p.pending : id # 0 /\ e.id = id}
  IN  IF index # -1 /\ at # {} THEN (CHOOSE e \in at : TRUE).block
      ELSE IF as # {} THEN (CHOOSE e \in as : TRUE).block
      ELSE 0

\* The argument of readOutputIndex is evaluated for every item.
Counted(p) == [p EXCEPT !.nextSyntheticIndex = @ + 1]

AddItem(p, i, given, arguments) ==
  LET index == IF given = -1 THEN p.nextSyntheticIndex ELSE given
      text == IF server.kind[i] = "function_call" THEN arguments ELSE 0
      counted == Counted(p)
  IN  IF \/ ItemId(i) # 0 /\ i \in p.completedItemIds
         \/ \E e \in p.pending : e.index = index
      THEN counted
      ELSE [counted EXCEPT
             !.outputStarted = TRUE,
             !.blocks = Append(@, [kind |-> server.kind[i], item |-> i, text |-> text,
                                   shown |-> 0, ends |-> 0]),
             !.pending = @ \cup {[block |-> Len(p.blocks) + 1, index |-> index,
                                  id |-> ItemId(i)]}]

\* The text an item leaves in a block: a message's content replaces what was
\* streamed even when it is empty, the others only when there is some.
FinalText(block, full) ==
  IF block.kind = "message" \/ full > 0 THEN full ELSE block.text

\* Mutant of FinishPending: the item is not remembered as completed.
FinishPendingForgotten(p, b, i, full) ==
  [p EXCEPT
    !.blocks[b] = [@ EXCEPT !.item = i, !.text = FinalText(p.blocks[b], full), !.ends = @ + 1],
    !.pending = {e \in @ : e.block # b}]

FinishPending(p, b, i, full) ==
  [p EXCEPT
    !.blocks[b] = [@ EXCEPT !.item = i, !.text = FinalText(p.blocks[b], full), !.ends = @ + 1],
    !.pending = {e \in @ : e.block # b},
    !.completedItemIds = IF ItemId(i) = 0 THEN @ ELSE @ \cup {i}]

\* The item is complete, announced or not.
CompleteItem(p, i, given, full) ==
  LET added == IF FindPending(p, given, ItemId(i)) # 0 THEN p
               ELSE AddItem(p, i, given, full)
      b == FindPending(added, given, ItemId(i))
  IN  IF b = 0 THEN added ELSE FinishPending(added, b, i, full)

\* completeResponse: an item listed at the end is matched by its id alone.
ListedItem(p, i) ==
  LET known == {e \in p.pending : ItemId(i) # 0 /\ e.id = i}
      index == p.nextSyntheticIndex
      added == AddItem(Counted(p), i, index, server.item[i].sent)
      b == FindPending(added, index, ItemId(i))
  IN  IF i \in p.completedItemIds THEN p
      ELSE IF known # {}
           THEN FinishPending(p, (CHOOSE e \in known : TRUE).block, i, server.item[i].sent)
      ELSE IF b = 0 THEN added
      ELSE FinishPending(added, b, i, server.item[i].sent)

\* What is still pending ends as the item it was announced with.
FinishRest(p) ==
  FoldLeft(LAMBDA q, b : IF \E e \in q.pending : e.block = b
                         THEN FinishPending(q, b, q.blocks[b].item, 0) ELSE q,
           p, [b \in 1..Len(p.blocks) |-> b])

CompleteResponse(p, listed) ==
  FinishRest(IF listed THEN FoldLeft(ListedItem, p, [i \in ResponseItems |-> i]) ELSE p)

StopReason(p, status) ==
  IF status = "incomplete" THEN "length"
  ELSE IF \E b \in DOMAIN p.blocks : p.blocks[b].kind = "function_call" THEN "toolUse"
  ELSE "stop"

(* The life of the request. *)

NoItem == [state |-> "new", sent |-> 0]

ProviderInit ==
  /\ request = [phase |-> "credentials", attempt |-> 0, budget |-> MaxRetries, used |-> 0,
                recoveries |-> 0, refreshed |-> FALSE, status |-> "none",
                outcome |-> "none"]
  /\ signal = "none" /\ providerAborted = FALSE
  /\ processor = FreshProcessor(<<>>)
  /\ server \in [dialect : Dialects, kind : Responses,
                 item : {[i \in ResponseItems |-> NoItem]}]
  /\ fetched = [requests |-> 0, refreshes |-> 0]

\* A failure ends the stream.  An abort of the caller names it aborted.
Throws(failure) ==
  /\ request' = [request EXCEPT
       !.phase = "settled",
       !.outcome = IF failure = "aborted" \/ providerAborted THEN "aborted" ELSE failure]
  /\ UNCHANGED <<signal, providerAborted, processor, server, fetched>>

SendsRequest(r) ==
  /\ request' = [r EXCEPT !.phase = "fetch"]
  /\ fetched' = [fetched EXCEPT !.requests = @ + 1]
  /\ UNCHANGED <<providerAborted, processor, server>>

\* The credentials are there, or the process has none; then the signal exists.
CredentialsReturn ==
  /\ request.phase = "credentials"
  /\ \/ Throws("error")
     \/ providerAborted /\ Throws("aborted")
     \/ ~providerAborted /\ signal' = "live" /\ SendsRequest(request)

\* The shared signal is gone: whatever awaits it fails with its reason.
SignalEnds ==
  /\ signal \in {"aborted", "timed_out"}
  /\ request.phase \in {"fetch", "backoff", "recover", "stream"}
  /\ Throws(IF signal = "timed_out" THEN "timed_out" ELSE "aborted")

\* Mutant of ProviderAttemptFails: each round has the whole budget.
AttemptFailsAfresh(retryable) ==
  \/ /\ ~retryable \/ request.attempt >= MaxRetries
     /\ Throws("error")
  \/ /\ retryable /\ request.attempt < MaxRetries
     /\ request' = [request EXCEPT !.phase = "backoff", !.used = @ + 1]
     /\ UNCHANGED <<signal, providerAborted, processor, server, fetched>>

\* A failed attempt is repeated after a delay while the budget lasts.
ProviderAttemptFails(retryable) ==
  \/ /\ ~retryable \/ request.attempt >= request.budget
     /\ Throws("error")
  \/ /\ retryable /\ request.attempt < request.budget
     /\ request' = [request EXCEPT !.phase = "backoff", !.used = @ + 1]
     /\ UNCHANGED <<signal, providerAborted, processor, server, fetched>>

NetworkFails ==
  request.phase = "fetch" /\ signal = "live" /\ ProviderAttemptFails(TRUE)

\* Headers: a stream begins, or the body of an error is read.
ResponseArrives(status) ==
  /\ request.phase = "fetch" /\ signal = "live"
  /\ request' = [request EXCEPT !.status = status,
                   !.phase = IF status = "ok" THEN "stream" ELSE "body"]
  /\ IF status = "ok"
     THEN /\ processor' = FreshProcessor(processor.blocks)
          /\ server' = [server EXCEPT !.item = [i \in ResponseItems |-> NoItem]]
     ELSE UNCHANGED <<processor, server>>
  /\ UNCHANGED <<signal, providerAborted, fetched>>

\* The body is read, or could not be: the first 401 refreshes the credentials.
BodyRead ==
  /\ request.phase = "body"
  /\ IF request.status = "unauthorized" /\ ~request.refreshed
     THEN /\ request' = [request EXCEPT !.phase = "refresh", !.refreshed = TRUE]
          /\ fetched' = [fetched EXCEPT !.refreshes = @ + 1]
          /\ UNCHANGED <<signal, providerAborted, processor, server>>
     ELSE ProviderAttemptFails(request.status = "unavailable")

\* Mutant of RefreshReturns: the signal is not asked again.
RefreshReturnsAnyway ==
  /\ request.phase = "refresh"
  /\ Throws("error") \/ (SendsRequest(request) /\ UNCHANGED signal)

\* A refreshed request does not spend a retry.
RefreshReturns ==
  /\ request.phase = "refresh"
  /\ \/ Throws("error")
     \/ signal # "live" /\ Throws(IF signal = "timed_out" THEN "timed_out" ELSE "aborted")
     \/ signal = "live" /\ SendsRequest(request) /\ UNCHANGED signal

BackoffEnds ==
  /\ request.phase = "backoff" /\ signal = "live"
  /\ SendsRequest([request EXCEPT !.attempt = @ + 1])
  /\ UNCHANGED signal

\* A replay begins a new round of the HTTP loop with what is left to retry.
RecoveryBegins ==
  /\ request.phase = "recover" /\ signal = "live"
  /\ SendsRequest([request EXCEPT !.attempt = 0, !.refreshed = FALSE,
                                  !.budget = MaxRetries - request.used])
  /\ UNCHANGED signal

CallerAborts ==
  /\ ~providerAborted /\ request.phase # "settled"
  /\ providerAborted' = TRUE
  /\ signal' = IF signal = "live" THEN "aborted" ELSE signal
  /\ UNCHANGED <<request, processor, server, fetched>>

\* No byte for timeoutMs.
InactivityElapses ==
  /\ signal = "live" /\ request.phase # "settled"
  /\ signal' = "timed_out"
  /\ UNCHANGED <<request, providerAborted, processor, server, fetched>>

(* The events of a response, in the order of a server. *)

Streaming == request.phase = "stream" /\ signal = "live" /\ processor.stopReason = "none"

ServerItem(i, item) ==
  /\ server' = [server EXCEPT !.item[i] = item]
  /\ UNCHANGED <<request, signal, providerAborted, fetched>>

\* Items are announced in their order.
MayAnnounce(i) ==
  server.item[i].state = "new" /\ \A j \in 1..(i - 1) : server.item[j].state # "new"

ItemAdded(i) ==
  /\ Streaming /\ MayAnnounce(i)
  /\ processor' = AddItem(processor, i, Announced(i), 0)
  /\ ServerItem(i, [state |-> "open", sent |-> 0])

\* Another piece of an item's text, sent as a delta or kept for its end.
ItemGrows(i, asDelta) ==
  LET b == FindPending(processor, Announced(i), ItemId(i)) IN
  /\ Streaming /\ server.kind[i] # "web_search_call"
  /\ server.item[i].state = "open" /\ server.item[i].sent < MaxPieces
  /\ processor' = IF asDelta /\ b # 0 /\ processor.blocks[b].kind = server.kind[i]
                  THEN [processor EXCEPT !.blocks[b].text = @ + 1, !.blocks[b].shown = @ + 1]
                  ELSE processor
  /\ ServerItem(i, [server.item[i] EXCEPT !.sent = @ + 1])

\* The whole arguments: what they add to the streamed ones is a delta.
ArgumentsDone(i) ==
  LET b == FindPending(processor, Announced(i), ItemId(i))
      sent == server.item[i].sent
  IN  /\ Streaming /\ server.kind[i] = "function_call" /\ server.item[i].state = "open"
      /\ sent > 0 /\ b # 0
      /\ processor' = [processor EXCEPT
           !.blocks[b].text = sent,
           !.blocks[b].shown = IF sent > processor.blocks[b].text
                               THEN @ + sent - processor.blocks[b].text ELSE @]
      /\ UNCHANGED <<request, signal, providerAborted, server, fetched>>

\* An item that was not announced may have a text.  With ids the event may
\* come twice (bound: once more).
ItemDone(i, sent) ==
  /\ Streaming
  /\ \/ MayAnnounce(i) /\ sent \in 0..MaxPieces
     \/ server.item[i].state = "open" /\ sent = server.item[i].sent
     \/ server.item[i].state = "done" /\ server.dialect.ids /\ sent = server.item[i].sent
  /\ processor' = CompleteItem(processor, i, Announced(i), sent)
  /\ ServerItem(i, [state |-> IF server.item[i].state = "done" THEN "repeated" ELSE "done",
                    sent |-> sent])

\* The final event.  A server that lists nothing has ended its messages.
ResponseCompletes(status, listed) ==
  LET p == CompleteResponse(processor, listed) IN
  /\ Streaming
  /\ listed => server.dialect.lists
  /\ listed \/ \A i \in ResponseItems :
                 server.kind[i] = "message" => server.item[i].state # "open"
  /\ IF status = "failed"
     THEN /\ processor' = p
          /\ request' = [request EXCEPT !.phase = "settled",
                           !.outcome = IF providerAborted THEN "aborted" ELSE "error"]
          /\ UNCHANGED server
     ELSE /\ processor' = [p EXCEPT !.stopReason = StopReason(p, status)]
          /\ server' = [server EXCEPT !.item = [i \in ResponseItems |->
               IF listed THEN [@[i] EXCEPT !.state = "done"] ELSE @[i]]]
          /\ UNCHANGED request
  /\ UNCHANGED <<signal, providerAborted, fetched>>

\* Mutant of MayReplay: a replay after output.
MayReplayVisible(retryable) == retryable /\ request.used < MaxRetries

\* An error of the stream: replayed only while nothing is visible.
MayReplay(retryable) ==
  retryable /\ ~processor.outputStarted /\ request.used < MaxRetries

StreamFails(retryable) ==
  /\ request.phase = "stream" /\ signal = "live"
  /\ \/ ~MayReplay(retryable) /\ Throws("error")
     \/ /\ MayReplay(retryable)
        /\ request' = [request EXCEPT !.phase = "recover", !.used = @ + 1,
                                      !.recoveries = @ + 1]
        /\ UNCHANGED <<signal, providerAborted, processor, server, fetched>>

\* The body ends: done only behind a terminal event.
StreamEnds ==
  /\ request.phase = "stream" /\ signal = "live"
  /\ \/ processor.stopReason = "none" /\ Throws("error")
     \/ /\ processor.stopReason # "none"
        /\ request' = [request EXCEPT !.phase = "settled", !.outcome = "done"]
        /\ UNCHANGED <<signal, providerAborted, processor, server, fetched>>

ProviderNext ==
  \/ CredentialsReturn \/ SignalEnds \/ NetworkFails \/ BodyRead \/ RefreshReturns
  \/ BackoffEnds \/ RecoveryBegins \/ CallerAborts \/ InactivityElapses \/ StreamEnds
  \/ \E status \in {"ok", "unauthorized", "unavailable", "refused"} : ResponseArrives(status)
  \/ \E i \in ResponseItems :
       \/ ItemAdded(i) \/ ArgumentsDone(i)
       \/ \E asDelta \in BOOLEAN : ItemGrows(i, asDelta)
       \/ \E sent \in 0..MaxPieces : ItemDone(i, sent)
  \/ \E status \in {"completed", "incomplete", "failed"}, listed \in BOOLEAN :
       ResponseCompletes(status, listed)
  \/ \E retryable \in BOOLEAN : StreamFails(retryable)

ProviderSpec == ProviderInit /\ [][ProviderNext]_providerVars

(* Properties. *)

RequestPhases == {"credentials", "fetch", "body", "refresh", "backoff", "recover",
                  "stream", "settled"}

ProviderTypeOK ==
  /\ request.phase \in RequestPhases
  /\ request.outcome \in {"none", "done", "aborted", "timed_out", "error"}
  /\ (request.outcome = "none") = (request.phase # "settled")
  /\ signal \in {"none", "live", "aborted", "timed_out"}
  /\ request.attempt \in 0..request.budget

(* The message of a finished request has each item of the response that     *)
(* answered it once, in the server's order, as what it is, with its whole   *)
(* text and ended once, whether it was announced, streamed, completed twice *)
(* or only listed at the end.                                               *)
ItemsAreAssembledOnce ==
  request.outcome = "done" =>
    LET b == processor.blocks
        seen == {i \in ResponseItems : server.item[i].state # "new"}
    IN  /\ {b[k].item : k \in DOMAIN b} = seen /\ Len(b) = Cardinality(seen)
        /\ \A j, k \in DOMAIN b : j < k => b[j].item < b[k].item
        /\ \A k \in DOMAIN b :
             /\ b[k].kind = server.kind[b[k].item] /\ b[k].ends = 1
             /\ b[k].kind # "reasoning" => b[k].text = server.item[b[k].item].sent
                                            \/ server.item[b[k].item].state = "open"

\* What a frontend was shown is a part of what the server sent, also when the
\* request fails, and nothing grows behind its end.
NothingIsShownTwice ==
  \A k \in DOMAIN processor.blocks :
    LET block == processor.blocks[k] IN
    /\ block.ends <= 1
    /\ block.shown <= server.item[block.item].sent
    /\ (\E e \in processor.pending : e.block = k) = (block.ends = 0)

\* HTTP retries and replays share one budget; only a refresh comes on top.
RetriesShareABudget ==
  /\ request.used <= MaxRetries
  /\ fetched.requests <= 1 + request.used + fetched.refreshes
  /\ fetched.refreshes <= 1 + request.recoveries

\* An end is named for what caused it.
EndsAreNamed ==
  /\ request.outcome = "aborted" => providerAborted
  /\ request.outcome = "done" => processor.stopReason # "none"
  /\ request.outcome = "timed_out" => signal = "timed_out" /\ ~providerAborted

ProviderIsSafe ==
  /\ ProviderTypeOK /\ ItemsAreAssembledOnce /\ NothingIsShownTwice
  /\ RetriesShareABudget /\ EndsAreNamed

\* No request is sent for a cancelled or timed-out one, and a request ends
\* whatever the server does.
RequestsAreLive ==
  [][fetched.requests' > fetched.requests => signal' = "live"]_providerVars

ProviderBehaves == RequestsAreLive /\ <>(request.phase = "settled")

\* docs/configuration.md: a model request refreshes and retries once.
RefreshedOnce == fetched.refreshes <= 1
=============================================================================
