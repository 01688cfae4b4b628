----------------------------- MODULE LspSession -----------------------------
(***************************************************************************)
(* One language server of a pool                                           *)
(* (crates/codelens-engine/src/lsp/session.rs, session_requests.rs).  The  *)
(* pool's mutex is held for a whole call, so calls follow one another; the *)
(* server reads, answers, publishes and dies meanwhile, and the files      *)
(* change.  A call sends the texts the server does not have yet, asks, and *)
(* reads what comes until the answer with its id, a timeout or the end of  *)
(* the stream.  What nobody read stays in the pipe for the next call.      *)
(*                                                                         *)
(* A text is the number of the change of its file.  Answers stand for the  *)
(* text they were computed from.  Requests of the server to the client are *)
(* answered in place without touching any of this state and are left out,  *)
(* and so is the server's readiness report.                                *)
(***************************************************************************)
EXTENDS Naturals, Sequences, FiniteSets, SequencesExt

CONSTANTS
  Docs,           \* source files in the server's language
  Imports,        \* the project files each of them imports
  MaxLspCalls,    \* bound: calls of the pool
  MaxTexts,       \* bound: changes of the files
  MaxServerFaults,\* bound: deaths of the server, failed starts and timeouts
  MaxPublishes    \* bound: diagnostics the server sends on its own

ASSUME LspAssumption ==
  /\ IsFiniteSet(Docs) /\ Docs # {} /\ Imports \in [Docs -> SUBSET Docs]
  /\ {MaxLspCalls, MaxTexts, MaxServerFaults, MaxPublishes} \subseteq Nat

VARIABLES
  text,           \* the files on the disk
  client,         \* LspSession: what the pool keeps for the server
  server,         \* the server's process
  toServer,       \* its stdin
  toClient,       \* its stdout
  query,          \* the call that holds the pool's mutex
  lspLeft         \* what is left of the bounds

lspVars == <<text, client, server, toServer, toClient, query, lspLeft>>

Closed == 0                 \* not open, nothing published
Versions == 1..MaxTexts + 1
Held == {Closed} \cup Versions

NoClient == [present |-> FALSE, nextId |-> 0, documents |-> [d \in Docs |-> Closed],
             published |-> [d \in Docs |-> Closed], pushOnly |-> FALSE]

(* A slip: the notes of the server that exited are taken over. *)
FreshClientWithOldNotes == [client EXCEPT !.present = TRUE, !.nextId = 2]

FreshClient == [NoClient EXCEPT !.present = TRUE, !.nextId = 2]   \* 1 was initialize

NoServer == [alive |-> FALSE, pulls |-> FALSE, texts |-> [d \in Docs |-> Closed], asked |-> {}]

NoQuery == [at |-> "idle", kind |-> "probe", doc |-> CHOOSE d \in Docs : TRUE, text |-> Closed,
            id |-> 0, retried |-> FALSE, reply |-> Closed, pushed |-> FALSE]

QuerySteps == {"idle", "ensure", "prepare", "imports", "ask", "await", "push",
               "answered", "failed"}
QueryKinds == {"probe", "references", "diagnostics"}

(* A message: a document's "text", a request of that kind, an "answer", the "refusal" of a
   method the server does not have, or diagnostics it publishes. *)
Message(kind, d, v, id) == [kind |-> kind, doc |-> d, text |-> v, id |-> id]
Messages == [kind : {"text", "answer", "refusal", "publish"} \cup QueryKinds, doc : Docs,
             text : Held, id : Nat]

Clients == [present : BOOLEAN, nextId : Nat, documents : [Docs -> Held],
            published : [Docs -> Held], pushOnly : BOOLEAN]

ServerStates == [alive : BOOLEAN, pulls : BOOLEAN, texts : [Docs -> Held], asked : SUBSET Messages]

Queries == [at : QuerySteps, kind : QueryKinds, doc : Docs, text : Held, id : Nat,
            retried : BOOLEAN, reply : Held, pushed : BOOLEAN]

(* Every variable holds a value of its kind. *)
LspTypeOK ==
  /\ text \in [Docs -> Versions]
  /\ client \in Clients /\ server \in ServerStates /\ query \in Queries
  /\ toServer \in Seq(Messages) /\ toClient \in Seq(Messages)
  /\ lspLeft \in [calls : Nat, texts : Nat, faults : Nat, publishes : Nat]

LspInit ==
  /\ text = [d \in Docs |-> 1]
  /\ client = NoClient /\ server = NoServer
  /\ toServer = <<>> /\ toClient = <<>>
  /\ query = NoQuery
  /\ lspLeft = [calls |-> MaxLspCalls, texts |-> MaxTexts, faults |-> MaxServerFaults,
                publishes |-> MaxPublishes]

SpendLsp(what) == lspLeft[what] > 0 /\ lspLeft' = [lspLeft EXCEPT ![what] = @ - 1]

(***************************************************************************)
(* The pool                                                                *)
(***************************************************************************)
QueryOver == query.at \in {"idle", "answered", "failed"}

(* A caller takes the mutex: a request for a document, or has_warm_session,
   which also reaps a server that has exited. *)
StartQuery(k, d) ==
  /\ QueryOver /\ SpendLsp("calls")
  /\ query' = [NoQuery EXCEPT !.at = IF k = "probe" THEN "answered" ELSE "ensure",
                              !.kind = k, !.doc = d]
  /\ client' = IF k = "probe" /\ ~server.alive THEN NoClient ELSE client
  /\ UNCHANGED <<text, server, toServer, toClient>>

EndQuery(at) == query' = [query EXCEPT !.at = at]

(* ensure_validated_session finds the server running... *)
ReuseSession ==
  /\ query.at = "ensure" /\ client.present /\ server.alive
  /\ EndQuery("prepare")
  /\ UNCHANGED <<text, client, server, toServer, toClient, lspLeft>>

(* ... or removes the session of one that has exited and starts another, whose
   handshake ends before anything else is sent. *)
StartSession ==
  /\ query.at = "ensure" /\ ~(client.present /\ server.alive)
  /\ \E p \in BOOLEAN :
       server' = [NoServer EXCEPT !.alive = TRUE, !.pulls = p]
  /\ client' = FreshClient
  /\ toServer' = <<>> /\ toClient' = <<>>
  /\ EndQuery("prepare")
  /\ UNCHANGED <<text, lspLeft>>

(* The binary is missing, or the handshake fails: nothing is kept. *)
StartSessionFails ==
  /\ query.at = "ensure" /\ ~(client.present /\ server.alive)
  /\ SpendLsp("faults")
  /\ client' = NoClient /\ server' = NoServer
  /\ toServer' = <<>> /\ toClient' = <<>>
  /\ EndQuery("failed")
  /\ UNCHANGED text

(* shutdown, reset and register_trusted_lsp_binary drop every session; the process
   is asked to end, and killed. *)
DropSessions ==
  /\ QueryOver /\ client.present
  /\ client' = NoClient /\ server' = NoServer
  /\ toServer' = <<>> /\ toClient' = <<>>
  /\ query' = NoQuery
  /\ UNCHANGED <<text, lspLeft>>

(***************************************************************************)
(* A call                                                                  *)
(***************************************************************************)
(* A broken pipe or the end of the stream: diagnostics are asked again, once, of a
   new session; any other call fails and leaves the session, as noted, to the next call. *)
TransportFails(noted) ==
  IF query.kind = "diagnostics" /\ ~query.retried
  THEN /\ client' = NoClient /\ server' = NoServer
       /\ toServer' = <<>> /\ toClient' = <<>>
       /\ query' = [query EXCEPT !.at = "ensure", !.retried = TRUE]
  ELSE EndQuery("failed") /\ client' = noted /\ UNCHANGED <<server, toServer, toClient>>

(* sync_document of each of ds: a text the server was not sent yet is noted and sent,
   and every diagnosis kept is dropped with it. *)
Stale(ds) == {d \in ds : client.documents[d] # text[d]}

Synced(ds) ==
  [client EXCEPT !.documents = [d \in Docs |-> IF d \in ds THEN text[d] ELSE @[d]],
                 !.published = IF Stale(ds) = {} THEN @ ELSE [d \in Docs |-> Closed]]

(* The note is made before the message is sent, and stays when that fails. *)
SendAll(messages, noted, next) ==
  IF server.alive \/ messages = <<>>
  THEN /\ toServer' = toServer \o messages
       /\ client' = noted /\ query' = next
       /\ UNCHANGED <<server, toClient>>
  ELSE TransportFails(noted)

SyncDocuments(ds, next) ==
  /\ SendAll(SetToSeq({Message("text", d, text[d], 0) : d \in Stale(ds)}), Synced(ds), next)
  /\ UNCHANGED <<text, lspLeft>>

Prepare ==
  /\ query.at = "prepare"
  /\ SyncDocuments({query.doc},
       [query EXCEPT !.at = IF query.kind = "diagnostics" THEN "imports" ELSE "ask",
                     !.text = text[query.doc]])

SyncImports ==
  /\ query.at = "imports"
  /\ SyncDocuments(Imports[query.doc] \ {query.doc},
                   [query EXCEPT !.at = IF client.pushOnly THEN "push" ELSE "ask"])

Ask ==
  /\ query.at = "ask"
  /\ SendAll(<<Message(query.kind, query.doc, Closed, client.nextId)>>,
          [client EXCEPT !.nextId = @ + 1],
          [query EXCEPT !.at = "await", !.id = client.nextId])
  /\ UNCHANGED <<text, lspLeft>>

(* A slip: any answer is taken for this one. *)
AnswersAnything(m) == m.kind \in {"answer", "refusal"}

(* The answer with this id ends the wait: with the answer, or, where the server cannot be
   asked for diagnostics, with a wait for those it publishes. *)
Answers(m) == m.kind \in {"answer", "refusal"} /\ m.id = query.id

Receive(m) == IF m.kind = "publish" THEN client' = [client EXCEPT !.published[m.doc] = m.text]
                                    ELSE client' = client

ReadAnswer ==
  /\ query.at = "await" /\ toClient # <<>>
  /\ LET m == Head(toClient)
         refused == Answers(m) /\ m.kind = "refusal"
     IN /\ query' = [query EXCEPT !.at = IF refused THEN "push"
                                         ELSE IF Answers(m) THEN "answered" ELSE @,
                                  !.reply = IF Answers(m) /\ ~refused THEN m.text ELSE @]
        /\ IF refused THEN client' = [client EXCEPT !.pushOnly = TRUE] ELSE Receive(m)
  /\ toClient' = Tail(toClient)
  /\ UNCHANGED <<text, server, toServer, lspLeft>>

(* wait_for_published_diagnostics returns what is kept already, or reads on; an answer to
   a request given up earlier is passed over. *)
TakePublished ==
  /\ query.at = "push" /\ client.published[query.doc] # Closed
  /\ query' = [query EXCEPT !.at = "answered", !.reply = client.published[query.doc],
                            !.pushed = TRUE]
  /\ UNCHANGED <<text, client, server, toServer, toClient, lspLeft>>

ReadPublished ==
  /\ query.at = "push" /\ client.published[query.doc] = Closed /\ toClient # <<>>
  /\ Receive(Head(toClient))
  /\ toClient' = Tail(toClient)
  /\ UNCHANGED <<text, server, toServer, query, lspLeft>>

Waiting ==
  \/ query.at = "await"
  \/ query.at = "push" /\ client.published[query.doc] = Closed

(* 30 s without the answer, 500 other messages, or 10 s without diagnostics: the call is
   given up, its request is not.  The bound is on those that are too early. *)
NothingToCome == toClient = <<>> /\ toServer = <<>> /\ server.asked = {}

GiveUp ==
  /\ Waiting /\ EndQuery("failed")
  /\ IF NothingToCome THEN UNCHANGED lspLeft ELSE SpendLsp("faults")
  /\ UNCHANGED <<text, client, server, toServer, toClient>>

EndOfStream ==
  /\ Waiting /\ ~server.alive /\ toClient = <<>>
  /\ TransportFails(client)
  /\ UNCHANGED <<text, lspLeft>>

(***************************************************************************)
(* The server and the files                                                *)
(***************************************************************************)
ServerReads ==
  /\ server.alive /\ toServer # <<>>
  /\ LET m == Head(toServer)
     IN server' = IF m.kind = "text" THEN [server EXCEPT !.texts[m.doc] = m.text]
                                     ELSE [server EXCEPT !.asked = @ \cup {m}]
  /\ toServer' = Tail(toServer)
  /\ UNCHANGED <<text, client, toClient, query, lspLeft>>

(* In its own order, maybe long after the client gave the request up. *)
ServerAnswers(r) ==
  /\ server.alive /\ r \in server.asked
  /\ server' = [server EXCEPT !.asked = @ \ {r}]
  /\ LET refuses == r.kind = "diagnostics" /\ ~server.pulls
     IN toClient' = Append(toClient, Message(IF refuses THEN "refusal" ELSE "answer",
                                             r.doc, server.texts[r.doc], r.id))
  /\ UNCHANGED <<text, client, toServer, query, lspLeft>>

(* Diagnostics of an open document, as often as the server likes. *)
ServerPublishes(d) ==
  /\ server.alive /\ server.texts[d] # Closed /\ SpendLsp("publishes")
  /\ toClient' = Append(toClient, Message("publish", d, server.texts[d], 0))
  /\ UNCHANGED <<text, client, server, toServer, query>>

ServerDies ==
  /\ server.alive /\ SpendLsp("faults")
  /\ server' = [server EXCEPT !.alive = FALSE]
  /\ UNCHANGED <<text, client, toServer, toClient, query>>

Edit(d) ==
  /\ SpendLsp("texts")
  /\ text' = [text EXCEPT ![d] = @ + 1]
  /\ UNCHANGED <<client, server, toServer, toClient, query>>

LspAtRest ==
  /\ QueryOver /\ lspLeft.calls = 0
  /\ UNCHANGED lspVars

LspNext ==
  \/ \E k \in QueryKinds, d \in Docs : StartQuery(k, d)
  \/ ReuseSession \/ StartSession \/ StartSessionFails \/ DropSessions
  \/ Prepare \/ SyncImports \/ Ask
  \/ ReadAnswer \/ TakePublished \/ ReadPublished \/ GiveUp \/ EndOfStream
  \/ ServerReads \/ \E r \in server.asked : ServerAnswers(r)
  \/ \E d \in Docs : ServerPublishes(d) \/ Edit(d)
  \/ ServerDies \/ LspAtRest

LspSpec == LspInit /\ [][LspNext]_lspVars

(***************************************************************************)
(* Properties                                                              *)
(***************************************************************************)
(* A call that asked the server is answered about the text it read from the disk,
   whatever earlier requests were given up and are answered late, and whichever
   server process answers (read_response_for_id, sync_document, the retry of
   get_diagnostics). *)
AnswersAreAboutTheTextRead ==
  query.at = "answered" /\ query.kind # "probe" /\ ~query.pushed => query.reply = query.text

(* Once a living server has read its input, it holds of every document the text the session
   notes for it: no death, no failed send and no new session may leave the note of a text
   the server was never told, which no later call would send (sync_document sends only
   what differs from the note). *)
NotesMatchServer ==
  client.present /\ server.alive /\ toServer = <<>> => server.texts = client.documents

(* session.rs:67-68 "Cleared whenever any document is re-synced, so an entry always
   reflects the texts the server currently holds": diagnostics answered from what the
   server published are about the text the call read or the one the server holds.  They
   are not always: those published for an earlier text may still be in the pipe when the
   newer text is sent, and are kept, and answered, when they are read. *)
PublishedIsCurrent ==
  query.at = "answered" /\ query.pushed =>
    query.reply \in {query.text, server.texts[query.doc]}
=============================================================================
