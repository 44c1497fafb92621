--------------------------- MODULE CallsInvariant ---------------------------
(* The invariant from which the properties of Calls are proved: what a     *)
(* request, an event, a transaction or a phone says of a call is true of   *)
(* the call, and a phone that rings for a call that is over or about to be *)
(* has been told so, or will be.                                           *)
EXTENDS Calls

Caller(c) == party[c][1]
Callee(c) == party[c][2]
Placed(c) == party[c] # <<>>

(* Where a phone's socket holds the ring of a call, and its end.           *)
Rings(u, c) == {i \in DOMAIN socket[u] : socket[u][i].type = "ringing" /\ socket[u][i].call = c}
Ends(u, c) ==
  {i \in DOMAIN socket[u] : socket[u][i].type \in {"declined", "over"} /\ socket[u][i].call = c}

(* The phone rings, or is about to; the end is behind the ring.            *)
Ringing(u, c) == incoming[u] = c \/ Rings(u, c) # {}
Told(u, c) == \E i \in Ends(u, c) : \A j \in Rings(u, c) : j < i

(* A call that rings for a phone was never picked up or left there.        *)
Untouched(u, c) == Placed(c) /\ u = Callee(c) /\ session[u][c] = "none"

(* What the phones hold.                                                   *)
PhonesAgree ==
  \A u \in User, c \in Call :
    /\ session[u][c] # "none" => Placed(c) /\ u \in Parties(c)
    /\ dialled[u] = c => Placed(c) /\ u = Caller(c) /\ session[u][c] = "none"
    /\ incoming[u] = c => Untouched(u, c)
    /\ active[u] = c \/ shown[u].active = c => session[u][c] # "none"
    /\ shown[u].incoming = c \/ c \in answering[u] =>
         Placed(c) /\ u = Callee(c) /\ Rings(u, c) = {}
    /\ c \in answering[u] => session[u][c] = "none"

(* What is on its way to a phone. A call rings once.                       *)
EventsAgree ==
  \A u \in User : \A i \in DOMAIN socket[u] : LET e == socket[u][i] IN
    /\ Placed(e.call)
    /\ e.type = "ringing" =>
         /\ Untouched(u, e.call) /\ incoming[u] # e.call
         /\ \A j \in Rings(u, e.call) : j = i
    /\ e.type \in Signal => u \in Parties(e.call) /\ session[Other(e.call, u)][e.call] # "none"

(* What the phones have asked for. Whoever asks something about a call has *)
(* it no longer ringing.                                                   *)
RequestsAgree ==
  \A r \in requests :
    /\ r.kind = "initiate" => <<r.user, r.to>> \in MayCall
    /\ r.kind \notin {"initiate", "adminEnd"} =>
         /\ Placed(r.call) /\ r.user \in Parties(r.call)
         /\ ~Ringing(r.user, r.call)
    /\ r.kind = "answer" => r.user = Callee(r.call)
    /\ r.kind \in Signal => session[r.user][r.call] # "none"

(* What the service is about to write.                                     *)
WritesAgree ==
  \A t \in Slot : open[t] # Idle =>
    LET w == open[t] IN
    /\ Placed(w.call)
    /\ w.status # "absent"
    /\ w.status = "ringing" => Caller(w.call) \in w.join
    /\ w.status # "ringing" => status[w.call] # "absent"
    /\ w.status = "active" => Callee(w.call) \in w.join
    /\ w.type = "ringing" => w.flushed
    /\ w.status \in Over => w.type \in {"declined", "over"}

(* What the tables say.                                                    *)
TablesAgree ==
  \A c \in Call :
    /\ status[c] # "absent" => Placed(c) /\ Caller(c) \in joined[c]
    /\ status[c] = "active" => Callee(c) \in joined[c]
    /\ Placed(c) => \/ status[c] # "absent"
                    \/ c \in undone
                    \/ \E t \in Slot : open[t] # Idle /\ open[t].call = c /\ open[t].status = "ringing"

(* NoPhantomRing before everything has arrived.                            *)
RingIsEnded ==
  \A u \in User \ missed : \A c \in Call \ unseen[u] : Ringing(u, c) =>
    /\ status[c] \in Over => Told(u, c)
    /\ \A t \in Slot : open[t] # Idle /\ open[t].call = c /\ open[t].status \in Over =>
         u \in open[t].tell /\ (open[t].flushed => Told(u, c))

(* The inductive invariant of the proofs.                                  *)
IInv ==
  /\ TypeOK
  /\ PhonesAgree
  /\ EventsAgree
  /\ RequestsAgree
  /\ WritesAgree
  /\ TablesAgree
  /\ RingIsEnded
  /\ MediaNeedsBothParties
=============================================================================
