----------------------------- MODULE EmailRows -------------------------------
(***************************************************************************)
(* The rows of email_deliveries, the calls that create them, what the      *)
(* provider has accepted, and what is promised about all three.  How they  *)
(* change is the matter of EmailDelivery.                                  *)
(***************************************************************************)
EXTENDS DeliveryJobs

CONSTANTS
  Keys,         \* idempotency keys of one client
  Callers,      \* calls of createEmailDelivery
  KeyOf,        \* KeyOf[c]: the key of call c
  ContentOf     \* ContentOf[c]: its template, address, subject, bodies, integration

Contents == {ContentOf[c] : c \in Callers}

ASSUME CallsAssumption ==
  /\ KeyOf \in [Callers -> Keys]
  /\ DOMAIN ContentOf = Callers
  /\ None \notin Keys \cup Contents

VARIABLES
  call,      \* call[c]: how far call c is
  email,     \* email[k]: the row of email_deliveries with key k
  mailbox,   \* messages the provider accepted, each key once
  final      \* final[k]: an answer about k said that no retry can help

Exists(k) == email[k].content # None

-----------------------------------------------------------------------------
(* Properties.                                                             *)

\* Whoever was answered with a row, its own or an existing one, has asked for just
\* that e-mail, and nothing else was ever handed to the provider under its key:
\* two calls that use one key for different e-mails cannot both be told yes.
AskedIsSent ==
  \A c \in Callers : call[c] \in {"created", "replayed"} =>
    /\ email[KeyOf[c]].content = ContentOf[c]
    /\ \A message \in mailbox :
         message[1] = KeyOf[c] => message[2] = ContentOf[c]

\* The row as its writer sees it.
SeenEmail(k) ==
  IF ~Exists(k) THEN [state |-> "absent", message |-> None]
  ELSE [state |-> CASE email[k].status = "sent"              -> "delivered"
                    [] email[k].status = "permanent_failure" -> "failed"
                    [] OTHER                                 -> "open",
        message |-> email[k].content]

EmailTable == INSTANCE DeliveryTable WITH
  Items <- Keys, Messages <- Contents,
  item <- [k \in Keys |-> SeenEmail(k)], accepted <- mailbox

\* A row is settled once, and as sent only if the provider has accepted its content;
\* whatever overlapping handlers and callers do, the content of a row never changes and
\* no other is handed to the provider under its key, until the row is pruned.
EmailsImplementTable == EmailTable!Spec

\* A row is given up early only for a final answer: a refusal, an answer that could
\* not be read, or the abort by the job's own timeout.
VerdictExplained ==
  \A k \in Keys :
    (email[k].status = "permanent_failure" /\ email[k].attempts < MaxAttempts) => final[k]
=============================================================================
