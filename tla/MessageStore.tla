---------------------------- MODULE MessageStore ----------------------------
(***************************************************************************)
(* The store of messages/messages.go: for each type a map from height to   *)
(* round to sender.  It is the set of the messages it holds; the maps make *)
(* type, view and sender a key.  Each operation holds the lock of one      *)
(* type.                                                                   *)
(***************************************************************************)
EXTENDS Integers

CONSTANTS
    Validators,     \* the senders backend.IsValidValidator accepts
    Heights,
    Rounds,
    Hashes          \* proposal hashes, the payload of a message

Types == {"PREPREPARE", "PREPARE", "COMMIT", "ROUND_CHANGE"}

Message == [type : Types, height : Heights, round : Rounds,
            from : Validators, hash : Hashes]

VARIABLE store

SameKey(m, n) ==
    /\ m.type = n.type
    /\ m.height = n.height /\ m.round = n.round
    /\ m.from = n.from

\* getProtoMessages
MessagesOf(type, h, r) ==
    {m \in store : m.type = type /\ m.height = h /\ m.round = r}

SendersOf(messages) == {m.from : m \in messages}

\* Messages.AddMessage: what a sender says again replaces what it said before.
Put(m) == store' = {n \in store : ~SameKey(m, n)} \cup {m}

BugPruneByHeight(h) == store' = {m \in store : m.height > h}

\* Takes the locks of the four types in turn; no caller reads two types.
PruneByHeight(h) == store' = {m \in store : m.height >= h}

\* GetValidMessages returns the members of valid and drops the other messages
\* of the view.
PruneInvalid(type, h, r, valid) ==
    store' = store \ (MessagesOf(type, h, r) \ valid)
=============================================================================
