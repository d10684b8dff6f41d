-------------------------- MODULE OfficialTransport --------------------------
(***************************************************************************)
(* UrllibTransport (converter/k3x_converter/official_transport.py) and the *)
(* two callers that fetch bytes through it, _fetch_file and                *)
(* _fetch_exact_range (official_source.py).  The server may redirect, fail,*)
(* announce any length and send any other; urllib's opener is external:    *)
(* it connects to the validated URL, and asks redirect_request before it   *)
(* follows a redirect.                                                     *)
(***************************************************************************)
EXTENDS Naturals, Sequences, FiniteSets

CONSTANTS Hosts, Trusted,   \* hosts, and those _validate_url accepts
          MaxRedirects,     \* max_redirects
          Sizes,            \* sizes of the pinned files
          Limit,            \* most bytes a caller allows for a file
          MaxGets,          \* bound on the calls made
          Nothing           \* no host, no call, no announced length

TransportAssumption ==
  /\ Trusted \subseteq Hosts /\ Nothing \notin Hosts \cup Nat
  /\ MaxRedirects \in Nat /\ Limit \in Nat /\ MaxGets \in Nat /\ Sizes \subseteq Nat
ASSUME TransportConstants == TransportAssumption

VARIABLES pc, host, call,   \* the fetch in progress, the host it talks to
          redirects,        \* redirects of this call
          stats,            \* requests, responseBytes, maximumResponseBytes
          body,             \* lengths the server sent and get read, or Nothing
          connected,        \* hosts the opener connected to, in order
          delivered,        \* lengths of the bodies get returned, in order
          accepted,         \* [wanted, sent] of the fetches that succeeded
          gets

transportVars == <<pc, host, call, redirects, stats, body, connected, delivered, accepted, gets>>

TransportInit ==
  /\ pc = "idle" /\ host = Nothing /\ call = Nothing /\ redirects = 0
  /\ stats = [requests |-> 0, responseBytes |-> 0, maximumResponseBytes |-> 0]
  /\ body = Nothing /\ connected = <<>> /\ delivered = <<>> /\ accepted = <<>>
  /\ gets = 0

Valid(h) == h \in Trusted

(* The most bytes the call allows: a range exactly its own, a file a limit.*)
MaxBytes == IF call.kind = "range" THEN call.wanted ELSE Limit

GetRaises == pc' = "idle" /\ UNCHANGED <<body, delivered, accepted>>

(* A file larger than the limit is not asked for. *)
Get(kind, size, h) ==
  /\ pc = "idle" /\ gets < MaxGets /\ gets' = gets + 1
  /\ kind = "file" => size <= Limit
  /\ Valid(h)
  /\ call' = [kind |-> kind, wanted |-> size]
  /\ host' = h /\ redirects' = 0 /\ body' = Nothing
  /\ stats' = [stats EXCEPT !.requests = @ + 1]
  /\ connected' = Append(connected, h)
  /\ pc' = "open"
  /\ UNCHANGED <<delivered, accepted>>

(* redirect_request: counted first, then limited, then validated. *)
Redirect(h) ==
  /\ pc = "open"
  /\ redirects' = redirects + 1
  /\ stats' = [stats EXCEPT !.requests = @ + 1]
  /\ IF redirects' > MaxRedirects \/ ~Valid(h)
     THEN GetRaises /\ UNCHANGED <<host, connected>>
     ELSE host' = h /\ connected' = Append(connected, h)
          /\ UNCHANGED <<pc, body, delivered, accepted>>
  /\ UNCHANGED <<call, gets>>

(* An HTTP error, a timeout, a status that was not expected. *)
GetFails ==
  /\ pc = "open"
  /\ GetRaises
  /\ UNCHANGED <<host, call, redirects, stats, connected, gets>>

Least(m, n) == IF m < n THEN m ELSE n
Most(m, n) == IF m < n THEN n ELSE m

(* The response: the announced length is bounded before the body is read,  *)
(* the body after at most one byte more than the bound.                    *)
Respond(declared, sent) ==
  /\ pc = "open"
  /\ LET read == Least(sent, MaxBytes + 1) IN
     IF (declared # Nothing /\ declared > MaxBytes) \/ read > MaxBytes
     THEN GetRaises /\ UNCHANGED stats
     ELSE /\ body' = [sent |-> sent, got |-> read]
          /\ pc' = "check" /\ delivered' = Append(delivered, read)
          /\ stats' = [stats EXCEPT !.responseBytes = @ + read,
                                    !.maximumResponseBytes = Most(@, read)]
          /\ UNCHANGED accepted
  /\ UNCHANGED <<host, call, redirects, connected, gets>>

(* The caller takes a file of the pinned size, and a range when also the   *)
(* answer names it.                                                        *)
Check(range) ==
  /\ pc = "check" /\ pc' = "idle"
  /\ accepted' = IF body.got = call.wanted /\ (call.kind = "range" => range)
                 THEN Append(accepted, [wanted |-> call.wanted, sent |-> body.sent])
                 ELSE accepted
  /\ UNCHANGED <<host, call, redirects, stats, body, connected, delivered, gets>>

Answers ==
  \/ \E h \in Hosts : Redirect(h)
  \/ GetFails
  \/ \E declared \in Sizes \cup {Nothing}, sent \in 0..Limit + 2 : Respond(declared, sent)
  \/ \E range \in BOOLEAN : Check(range)

TransportNext ==
  \/ \E kind \in {"file", "range"}, size \in Sizes, h \in Hosts : Get(kind, size, h)
  \/ Answers

TransportSpec == TransportInit /\ [][TransportNext]_transportVars

------------------------------------------------------------------------------
(* Properties *)

Bytes(lengths) == UNION {{i} \X (1..lengths[i]) : i \in DOMAIN lengths}
Total(lengths) == Cardinality(Bytes(lengths))

(* Types of the variables. *)
TransportTypeOK ==
  /\ pc \in {"idle", "open", "check"} /\ host \in Hosts \cup {Nothing}
  /\ redirects \in 0..MaxRedirects + 1
  /\ pc = "check" => body.got \in 0..MaxBytes
  /\ gets \in 0..MaxGets

(* However a chain of redirects runs, only accepted hosts are connected to.*)
ConnectsToTrusted == \A i \in 1..Len(connected) : connected[i] \in Trusted

(* Every connection is in the request count, and the count runs ahead of   *)
(* it only by the redirects that were refused, one a call.                 *)
RequestsCoverConnections ==
  /\ Len(connected) <= stats.requests /\ stats.requests <= Len(connected) + gets
  /\ Len(connected) <= gets * (MaxRedirects + 1)

(* The byte counts are those of the bodies handed out, not of refused ones.*)
BytesAreDelivered ==
  /\ stats.responseBytes = Total(delivered)
  /\ \A i \in 1..Len(delivered) : delivered[i] <= stats.maximumResponseBytes
  /\ stats.maximumResponseBytes # 0 => \E i \in 1..Len(delivered) : delivered[i] = stats.maximumResponseBytes

(* A fetch succeeds only with the whole of what was pinned: a short, long  *)
(* or mislabelled answer is never taken for it, and a body longer than the *)
(* bound is refused, not cut to size.                                      *)
AcceptedIsComplete == \A i \in 1..Len(accepted) : accepted[i].sent = accepted[i].wanted

(* However redirects, lengths and answers mix, all of this holds.          *)
TransportIsExact ==
  /\ TransportTypeOK /\ ConnectsToTrusted /\ RequestsCoverConnections
  /\ BytesAreDelivered /\ AcceptedIsComplete
===============================================================================
