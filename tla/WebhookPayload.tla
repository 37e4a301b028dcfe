---------------------------- MODULE WebhookPayload ----------------------------
(***************************************************************************)
(* What whatsapp-payload.ts and instagram-payload.ts extract from a webhook  *)
(* body.  A WhatsApp body is the sequence of its change values               *)
(* (getChangeValues), each with the account it is for, its messages and its  *)
(* statuses; an Instagram body is the sequence of its entries, each with the *)
(* account's id and its messaging items.  Missing stands for a string that   *)
(* is absent or blank, or for an item without a message.                     *)
(***************************************************************************)
EXTENDS Sequences, SequencesExt

CONSTANT Missing

\* The messages, or the statuses, of all change values in order.
Items(body, field) == FlattenSeq([i \in 1 .. Len(body) |-> body[i][field]])

FirstOr(items, default) == IF items = <<>> THEN default ELSE Head(items)

ExtractPhoneNumberId(body) ==
  LET HasAccount(value) == value.account # Missing
  IN  FirstOr([i \in 1 .. Len(SelectSeq(body, HasAccount)) |->
                 SelectSeq(body, HasAccount)[i].account], Missing)

\* The first complete text message; all others of the body are not looked at.
ExtractTextMessage(body) ==
  LET IsText(message) == /\ message.type = "text"
                         /\ Missing \notin {message.id, message.from,
                                            message.text}
  IN  FirstOr(SelectSeq(Items(body, "messages"), IsText), Missing)

\* The dedupe key: the first id, of a message before a status within a value.
ExtractProviderMessageId(body) ==
  LET HasId(item) == item.id # Missing
      MessageKeys(v) == [i \in 1 .. Len(SelectSeq(v.messages, HasId)) |->
                           <<SelectSeq(v.messages, HasId)[i].id>>]
      StatusKeys(v) == [i \in 1 .. Len(SelectSeq(v.statuses, HasId)) |->
                          LET s == SelectSeq(v.statuses, HasId)[i]
                          IN  <<"status", s.id, s.status>>]
      KeysOf(i) == MessageKeys(body[i]) \o StatusKeys(body[i])
  IN  FirstOr(FlattenSeq([i \in 1 .. Len(body) |-> KeysOf(i)]), Missing)

DeliveryStatuses == {"sent", "delivered", "read", "failed"}

\* Every status of the body that is known, with the id it is about.
ExtractStatusUpdates(body) ==
  LET IsUpdate(s) == s.id # Missing /\ s.status \in DeliveryStatuses
  IN  SelectSeq(Items(body, "statuses"), IsUpdate)

-----------------------------------------------------------------------------
(* Instagram.                                                              *)

MessagingEntries(body) ==
  LET HasMessage(item) == item.message # Missing
  IN  SelectSeq(Items(body, "messaging"), HasMessage)

ExtractInstagramAccountId(body) ==
  LET HasId(entry) == entry.id # Missing
      entries == SelectSeq(body, HasId)
  IN  IF entries = <<>> THEN Missing ELSE Head(entries).id

\* The first complete text; its thread is its sender.
ExtractInstagramTextMessage(body) ==
  LET IsText(item) ==
        Missing \notin {item.message.text, item.message.mid, item.sender}
      texts == SelectSeq(MessagingEntries(body), IsText)
  IN  IF texts = <<>> THEN Missing
      ELSE [id |-> Head(texts).message.mid, from |-> Head(texts).sender,
            text |-> Head(texts).message.text]

\* The dedupe key: the first mid, also of a message without a text.
ExtractInstagramMessageId(body) ==
  LET HasMid(item) == item.message.mid # Missing
      items == SelectSeq(MessagingEntries(body), HasMid)
  IN  IF items = <<>> THEN Missing ELSE <<Head(items).message.mid>>
=============================================================================
