--------------------------- MODULE InitiatorProps ---------------------------
(* What the initiator promises, stated over the variables of Initiator.    *)
EXTENDS Initiator

Labels == {"none", "idle", "bind", "spawn", "waitClient", "greet", "hello", "ok",
           "failed", "created", "recv", "recvClose", "cleanup", "drain", "await",
           "returned", "raised", "cancelled", "awaitReader", "server", "child", "done"}

AttrsOK ==
  /\ server \in BOOLEAN /\ closed \in BOOLEAN /\ cancelled \in BOOLEAN
  /\ proc \in {"none", "running", "exited"}
  /\ connected \in {"none", "waiting", "done"}
  /\ nextId \in Nat \ {0}
  /\ transport \in Clients \cup {None}

TableOK == pending \in [DOMAIN pending -> Callers] /\ DOMAIN pending \subseteq 1..(nextId - 1)
FutOK   == fut \in [Callers -> [st : {"none", "waiting", "answered", "failed", "cancelled",
                                       "dropped"},
                                val : Values \cup Callers \cup {None}]]
TaskOK  == pc \in [Tasks -> Labels] /\ on \in [Tasks -> Clients \cup {None}]
ConnOK  == conn \in [Clients -> {"unused", "accepted", "refused", "open", "closed"}]
WireOK  == /\ up \in [Clients -> Seq(Frame)] /\ down \in [Clients -> Seq(Frame)]
           /\ peer \in [Clients -> SUBSET {"eof", "stalled"}]

\* Every attribute has its type, and the table of pending requests is keyed by
\* ids that _send_request has handed out.
TypeOK == AttrsOK /\ TableOK /\ FutOK /\ TaskOK /\ ConnOK /\ WireOK

\* At most one adopted connection is open, and it is the one _transport wraps:
\* _cleanup_transport never drops a transport before closing it, and _on_client
\* never replaces one.
OneLiveTransport == \A c \in Clients : conn[c] = "open" => transport = c

\* The reader loop reads from _transport itself, and never while the handshake
\* still reads: StreamReader refuses two concurrent reads.
ReaderOwnsTransport ==
  pc["reader"] = "recv" => on["reader"] = transport /\ pc["init"] # "hello"

Requests(c) == {i \in 1..Len(down[c]) : down[c][i].type = "req"}

\* A message id names one request: ids grow along each connection, no two
\* requests share one, and while an id is pending, a response to it reaches the
\* caller whose request carried it.
IdsNameOneRequest ==
  \A c, d \in Clients : \A i \in Requests(c), j \in Requests(d) :
    LET f == down[c][i] g == down[d][j] IN
    /\ f.id = g.id => c = d /\ i = j
    /\ c = d /\ i < j => f.id < g.id
    /\ f.id \in DOMAIN pending => pending[f.id] = f.val

\* Whoever awaits a response has someone to deliver it: once the reader loop
\* has ended, no call is left awaiting a future that nothing will complete. The
\* one exception is the call whose own response was malformed and ended the
\* loop: its future is dropped; no second call shares that fate.
NoOrphanedCall ==
  /\ pc["reader"] \in {"none", "done"} =>
       \A r \in Callers : ~(pc[r] = "await" /\ fut[r].st = "waiting")
  /\ \A r, q \in Callers : fut[r].st = "dropped" /\ fut[q].st = "dropped" => r = q

\* When aclose has finished, nothing it is responsible for goes on: the server,
\* the reader loop, the child process.
CloseComplete ==
  pc["close"] = "done" => ~server /\ ~ReaderAlive /\ proc # "running"

\* A future is settled once: by its response, by the failure of the connection
\* or by its caller; nothing overwrites the outcome.
FutureSettledOnce ==
  [][\A r \in Callers :
       fut[r].st \in {"answered", "failed", "cancelled"} => fut'[r] = fut[r]]_vars

\* A well-formed response with an integer id is delivered or ignored, be it late,
\* repeated or unsolicited: it never ends the reader loop.
ResponsesKeepReader ==
  [][ReaderTakes /\ Msg.type = "res" /\ Msg.id # 0 => pc'["reader"] = "recv"]_vars

=============================================================================
