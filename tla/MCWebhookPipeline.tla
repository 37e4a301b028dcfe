--------------------------- MODULE MCWebhookPipeline ---------------------------
(***************************************************************************)
(* WebhookPipeline for TLC: payloads are bodies by name, and what the       *)
(* pipeline is told about them is what WebhookPayload extracts.             *)
(***************************************************************************)
EXTENDS WebhookPipeline, WebhookPayload, TLC

Message(id, type, from) ==
  [id |-> id, type |-> type, from |-> from, text |-> "text of " \o id]

Value(someMessages, someStatuses) ==
  [account |-> "account", messages |-> someMessages, statuses |-> someStatuses]

Item(mid, text) ==
  <<[id |-> "account", messaging |->
      <<[message |-> [mid |-> mid, text |-> text], sender |-> "ayla"]>>]>>

\* Two WhatsApp texts of one customer, and a text sent again behind an image; an
\* Instagram text and a photo.
Body ==
  [ hello |-> <<Value(<<Message("t1", "text", "ali")>>, <<>>)>>,
    again |-> <<Value(<<Message("t2", "text", "ali")>>, <<>>)>>,
    batch |-> <<Value(<<Message("i2", "image", "ali"),
                        Message("t1", "text", "ali")>>,
                      <<[id |-> "out1", status |-> "read"]>>)>>,
    dm |-> Item("g1", "selam"),
    photo |-> Item("g2", Missing) ]

Instagram == {"dm", "photo"}

\* createFallbackProviderMessageId hashes the body when it carries no id.
DedupeKeyOf ==
  [e \in Payloads |->
     LET key == IF e \in Instagram THEN ExtractInstagramMessageId(Body[e])
                ELSE ExtractProviderMessageId(Body[e])
     IN  IF key = Missing THEN <<"payload", e>> ELSE <<e \in Instagram, key>>]

DedupeKeys == {DedupeKeyOf[e] : e \in Payloads}

TextIn(e) ==
  IF e \in Instagram THEN ExtractInstagramTextMessage(Body[e])
  ELSE ExtractTextMessage(Body[e])

AccountIn(e) ==
  IF e \in Instagram THEN ExtractInstagramAccountId(Body[e])
  ELSE ExtractPhoneNumberId(Body[e])

TextIdOf ==
  [e \in Payloads |-> IF TextIn(e) = Missing THEN NoText ELSE TextIn(e).id]

TextIds == {TextIdOf[e] : e \in Payloads} \ {NoText}

\* A conversation is one customer on one account: the unique key of
\* Conversation is (organizationId, channelId, externalThreadId).
CustomerOf ==
  [t \in TextIds |->
     LET e == CHOOSE e \in Payloads : TextIdOf[e] = t
     IN  <<AccountIn(e), TextIn(e).from>>]

Customers == {CustomerOf[t] : t \in TextIds}

Reporting ==
  [e \in Payloads |->
     e \notin Instagram /\ ExtractStatusUpdates(Body[e]) # <<>>]

\* What the cfg substitutes; TLC evaluates such a name at every use, hence the
\* definitions above, which it evaluates once.
MCKeys == DedupeKeys
MCTexts == TextIds
MCThreads == Customers
MCRawKey == DedupeKeyOf
MCTextOf == TextIdOf
MCHasStatuses == Reporting
MCThreadOf == CustomerOf

RunAndPostSymmetry == Permutations(Runs) \cup Permutations(Posts)
=============================================================================
