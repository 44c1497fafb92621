-------------------------------- MODULE Keys --------------------------------
(***************************************************************************)
(* How a phone gets the key of a conversation to another phone: one-time   *)
(* prekeys and sender keys of the backend (the key registration of         *)
(* backend/app/domain/messaging/service.py, repositories/crypto.py), and   *)
(* the phones that make, seal and open them (apps/mobile/lib/crypto/       *)
(* keystore.ts and chat-crypto.ts). The ciphers are left out: what is      *)
(* sealed for a prekey is opened with the secret of the same generation.   *)
(*                                                                         *)
(* Two phones write to a third one. A batch of prekeys has one key: the    *)
(* ids of a new batch start again where the phone's list of them is empty, *)
(* so a row is told from another by its batch and not by its id.           *)
(***************************************************************************)
EXTENDS Requests

Phones == 1..2
Drafts == {<<1, 1>>, <<1, 2>>, <<2, 1>>}   \* messages, by the phone that writes them
ASSUME KeysAssumption == None \notin Drafts
Writer(d) == d[1]
Batches == 1..2
Signed == 0                                \* the signed prekey, there from the start
Prekey(n) == <<"prekey", n>>
Prekeys == {Prekey(n) : n \in Batches}
Envelope(p) == <<"sender_key", p>>
PrekeyRow == [is : Is, batch : 0..2, consumed : BOOLEAN]
(* A sender key is named by the draft it was made for.                     *)
EnvelopeRow == [is : Is, key : Drafts \cup {None}, seal : 0..2]

(* outside. The phone that reads: the batch of the last prekey made, the   *)
(* one whose secret is stored, whether its id is in the list; the sender   *)
(* keys it has, and the messages it is about to open. The phones that      *)
(* write: how far a draft is, the prekey it was given, the key it is       *)
(* encrypted with, and the key the phone has stored. History: skipped, the *)
(* keys the reading phone was left out of; mishap, something has happened  *)
(* after which a key may be lost.                                          *)
KeysInit ==
  Start("keys",
    [k \in Prekeys \cup {Envelope(p) : p \in Phones} |->
      IF k \in Prekeys THEN [is |-> "none", batch |-> 0, consumed |-> FALSE]
      ELSE [is |-> "none", key |-> None, seal |-> Signed]],
    [made |-> 0, secret |-> 0, listed |-> FALSE,
     cached |-> [p \in Phones |-> None], opening |-> [d \in Drafts |-> "no"],
     read |-> [d \in Drafts |-> <<None, Signed>>],
     step |-> [d \in Drafts |-> "new"], seal |-> [d \in Drafts |-> Signed],
     used |-> [d \in Drafts |-> None], saved |-> [p \in Phones |-> None],
     skipped |-> {}, mishap |-> FALSE])

-----------------------------------------------------------------------------
(* The phone that reads.                                                   *)

(* When the list of chats is shown and that of the ids is short: the       *)
(* secret is stored, then the public half uploaded, then the list saved. A *)
(* chat may still be opening messages under the old secret of that id.     *)
Opening == \E d \in Drafts : outside.opening[d] # "no"
RegisterWithBackend ==
  /\ ~outside.listed /\ outside.made < 2
  /\ LET n == outside.made + 1 IN
     /\ Call(Insert(Prekey(n), [batch |-> n]))
     /\ outside' = [outside EXCEPT !.made = n, !.secret = n,
                                   !.mishap = @ \/ outside.secret # 0 \/ Opening]
ListPrekeys ==
  /\ ~outside.listed /\ outside.secret # 0
  /\ Here(Prekey(outside.made)) \/ Pending(Prekey(outside.made))
  /\ Outside([outside EXCEPT !.listed = TRUE])

(* Messages are opened side by side. Where the sender's key is not cached, *)
(* its envelope is fetched, the secret for it taken from the store and     *)
(* deleted, and the key cached.                                            *)
ListSenderKeys(d) ==
  /\ outside.step[d] = "sent" /\ outside.opening[d] = "no"
  /\ outside.cached[Writer(d)] = None
  /\ LET e == db[Envelope(Writer(d))] IN
     /\ e.is = "here"
     /\ Outside([outside EXCEPT !.opening[d] = "fetched", !.read[d] = <<e.key, e.seal>>])
FindLocalPrekeySecret(d) ==
  /\ outside.opening[d] = "fetched"
  /\ LET seal == outside.read[d][2] IN
     Outside(IF seal = Signed THEN [outside EXCEPT !.opening[d] = "opened"]
             ELSE [outside EXCEPT
                     !.opening[d] = IF outside.secret = seal THEN "opened" ELSE "no",
                     !.secret = 0,
                     !.listed = @ /\ outside.secret = 0])
CacheSenderKey(d) ==
  /\ outside.opening[d] = "opened"
  /\ Outside([outside EXCEPT !.cached[Writer(d)] = outside.read[d][1], !.opening[d] = "no"])
(* The app is closed while it opens messages.                              *)
CloseApp ==
  /\ Opening
  /\ Outside([outside EXCEPT
                !.opening = [d \in Drafts |-> "no"],
                !.mishap = @ \/ \E d \in Drafts : outside.opening[d] = "opened"])

-----------------------------------------------------------------------------
(* The phones that write: ensureOwnSenderKeyDistributed, once without a    *)
(* key, and the message after it.                                          *)

(* Faulty variant: prekeys that were claimed before are handed out again.  *)
ClaimAny == {k \in Prekeys : Here(k)}

ClaimOne == {k \in Prekeys : Here(k) /\ ~db[k].consumed}
FirstMessage(d) == outside.step[d] = "new" /\ outside.saved[Writer(d)] = None
Underway(d) == outside.step[d] \in {"sealed", "uploaded"}
Another(d) == \E e \in Drafts : Writer(e) = Writer(d) /\ Underway(e)
Claim(k) ==
  /\ k = None => ClaimOne = {}
  /\ Call(IF k = None THEN {} ELSE Change(k, "consumed", TRUE))
GetPrekeyBundle(d) ==
  /\ FirstMessage(d)
  /\ \E k \in ClaimOne \cup {None} :
       /\ Claim(k)
       /\ outside' = [outside EXCEPT !.step[d] = "sealed",
                                     !.seal[d] = IF k = None THEN Signed ELSE db[k].batch,
                                     !.mishap = @ \/ Another(d)]
(* The bundle cannot be fetched, or is fetched - the prekey is used up -   *)
(* and the answer is lost or does not verify: the error is caught, and the *)
(* device left out. The key is stored and used all the same.               *)
SkipDevice(d) ==
  /\ FirstMessage(d)
  /\ \/ Call({}) \/ \E k \in ClaimOne : Claim(k)
  /\ outside' = [outside EXCEPT !.step[d] = "uploaded", !.skipped = @ \cup {d},
                                !.mishap = @ \/ Another(d)]
UploadSenderKey(d) ==
  LET e == Envelope(Writer(d)) IN
  /\ outside.step[d] = "sealed"
  /\ Here(e) \/ ~Pending(e)
  /\ Call((IF Here(e) THEN {} ELSE {<<e, "is", "here">>})
          \cup Update(e, [key |-> d, seal |-> outside.seal[d]]))
  /\ outside' = [outside EXCEPT !.step[d] = "uploaded"]
(* The key is stored when all uploads have been answered; the message can  *)
(* be there before the envelope is committed.                              *)
SendSealed(d) ==
  /\ outside.step[d] = "uploaded"
  /\ Outside([outside EXCEPT !.step[d] = "sent", !.used[d] = d, !.saved[Writer(d)] = d,
                             !.mishap = @ \/ Pending(Envelope(Writer(d)))])
SendWithSaved(d) ==
  /\ outside.step[d] = "new" /\ outside.saved[Writer(d)] # None
  /\ Outside([outside EXCEPT !.step[d] = "sent", !.used[d] = outside.saved[Writer(d)]])
(* An upload fails, or the app is closed before the key is stored.         *)
SendFails(d) ==
  /\ outside.step[d] \in {"sealed", "uploaded"}
  /\ Outside([outside EXCEPT !.step[d] = "failed"])

PhoneReads ==
  \/ RegisterWithBackend \/ ListPrekeys \/ CloseApp
  \/ \E d \in Drafts : ListSenderKeys(d) \/ FindLocalPrekeySecret(d) \/ CacheSenderKey(d)
PhoneWrites ==
  \E d \in Drafts :
    \/ GetPrekeyBundle(d) \/ SkipDevice(d) \/ UploadSenderKey(d)
    \/ SendSealed(d) \/ SendWithSaved(d) \/ SendFails(d)

(* A behaviour is followed until a key may have been lost.                 *)
KeysNext ==
  topic = "keys" /\ ~overlapped /\ ~outside.mishap /\
    \/ PhoneReads \/ PhoneWrites
    \/ \E t \in Slot : \/ Commit(t)
                       \/ RollBack(t) /\ outside' = [outside EXCEPT !.mishap = TRUE]
-----------------------------------------------------------------------------
KeysTypeOK ==
  topic = "keys" =>
    /\ TransactionsOK
    /\ \A k \in Prekeys : db[k] \in PrekeyRow
    /\ \A p \in Phones : db[Envelope(p)] \in EnvelopeRow

(* The phone has the key of a message, is about to have it, or can open    *)
(* the envelope that has it.                                               *)
Readable(d) ==
  LET p == Writer(d)
      e == db[Envelope(p)] IN
  \/ outside.cached[p] = outside.used[d]
  \/ /\ outside.cached[p] = None
     /\ \/ \E f \in Drafts : /\ Writer(f) = p /\ outside.opening[f] = "opened"
                             /\ outside.read[f][1] = outside.used[d]
        \/ e.key = outside.used[d] /\ e.seal \in {Signed, outside.secret}

(* Every message that was sent can be read, now or by opening it again,    *)
(* unless the reading phone was left out when its key was given away:      *)
(* however the writers share the prekeys, messages are opened side by      *)
(* side, bundles fail and sends fail half-way; as long as no two requests  *)
(* and no two first messages of one phone overlapped, no request was       *)
(* rolled back, no prekeys were made over others or while messages were    *)
(* being opened, the reader was not stopped between deleting a secret and  *)
(* keeping what it opened, and no message overtook the envelope of its key *)
(* (apps/mobile/lib/crypto/chat-crypto.ts).                                *)
SentIsReadable ==
  topic = "keys" /\ Quiet /\ ~overlapped /\ ~outside.mishap =>
    \A d \in Drafts :
      outside.step[d] = "sent" /\ outside.used[d] \notin outside.skipped => Readable(d)
=============================================================================
