---------------------------- MODULE AccessTokens ----------------------------
(***************************************************************************)
(* The OAuth access token that concurrent Contabo reads share              *)
(* (backend/internal/provider/contabo/token.go and client.go).  A gate     *)
(* lets one caller at a time look at the token or fetch a new one; the     *)
(* epoch tells a caller whose token was refused whether somebody has       *)
(* replaced it meanwhile.                                                  *)
(***************************************************************************)
EXTENDS Integers

CONSTANTS
    Readers,        \* goroutines reading through one client
    Nobody,
    MaxEpoch        \* bound: tokens fetched

VARIABLES
    current,    \* the shared token: its epoch, and whether it has a value
    gate,       \* the reader inside get, or Nobody
    reader,     \* what each reader does and the token it has
    due,        \* epochs past their renewal time
    void        \* external: epochs the API no longer honours

vars == <<current, gate, reader, due, void>>

-----------------------------------------------------------------------------
(* A reader holds the epoch of its token; `refused' says that it asks again *)
(* because the API answered 401.                                            *)
Idle == [pc |-> "idle", epoch |-> 0, refused |-> FALSE]

Init ==
    /\ current = [epoch |-> 0, value |-> FALSE]
    /\ gate = Nobody
    /\ reader = [r \in Readers |-> Idle]
    /\ due = {}
    /\ void = {}

Ask(r) ==
    /\ reader[r].pc = "idle"
    /\ reader' = [reader EXCEPT ![r].pc = "asking"]
    /\ UNCHANGED <<current, gate, due, void>>

ReusesUnlessRefused(r) == current.value /\ ~reader[r].refused /\ current.epoch \notin due

(* get returns the shared token as it is: it is not due, or it is another   *)
(* one than the token that was refused.                                     *)
Reuses(r) ==
    IF reader[r].refused THEN current.value /\ current.epoch # reader[r].epoch
                         ELSE current.value /\ current.epoch \notin due

Get(r) ==
    /\ reader[r].pc = "asking"
    /\ gate = Nobody
    /\ Reuses(r)
    /\ reader' = [reader EXCEPT ![r].pc = "reading", ![r].epoch = current.epoch]
    /\ UNCHANGED <<current, gate, due, void>>

(* Otherwise the caller drops the token and fetches one inside the gate.    *)
Fetch(r) ==
    /\ reader[r].pc = "asking"
    /\ gate = Nobody
    /\ ~Reuses(r)
    /\ current.epoch < MaxEpoch
    /\ current' = [epoch |-> current.epoch + 1, value |-> FALSE]
    /\ gate' = r
    /\ reader' = [reader EXCEPT ![r].pc = "fetching"]
    /\ UNCHANGED <<due, void>>

Fetched(r) ==
    /\ reader[r].pc = "fetching"
    /\ current' = [current EXCEPT !.value = TRUE]
    /\ gate' = Nobody
    /\ reader' = [reader EXCEPT ![r].pc = "reading", ![r].epoch = current.epoch]
    /\ UNCHANGED <<due, void>>

FetchFails(r) ==
    /\ reader[r].pc = "fetching"
    /\ gate' = Nobody
    /\ reader' = [reader EXCEPT ![r] = Idle]
    /\ UNCHANGED <<current, due, void>>

(* A caller whose context ends while it waits for the gate.                 *)
Withdraw(r) ==
    /\ reader[r].pc = "asking"
    /\ reader' = [reader EXCEPT ![r] = Idle]
    /\ UNCHANGED <<current, gate, due, void>>

(* The API answers the read.  A refusal is answered once by a second try    *)
(* with another token.                                                      *)
Read(r) ==
    /\ reader[r].pc = "reading"
    /\ reader' = [reader EXCEPT ![r] = Idle]
    /\ UNCHANGED <<current, gate, due, void>>

Refuse(r) ==
    /\ reader[r].pc = "reading"
    /\ reader[r].epoch \in void
    /\ reader' = [reader EXCEPT ![r] =
                    IF @.refused THEN Idle ELSE [@ EXCEPT !.pc = "asking", !.refused = TRUE]]
    /\ UNCHANGED <<current, gate, due, void>>

(* The renewal time of the token passes, a little before its lifetime ends. *)
FallsDue ==
    /\ current.value
    /\ due' = due \cup {current.epoch}
    /\ UNCHANGED <<current, gate, reader, void>>

(* External: the API stops honouring the token, at its end or earlier.      *)
Revoke ==
    /\ current.value
    /\ void' = void \cup {current.epoch}
    /\ UNCHANGED <<current, gate, reader, due>>

Next ==
    \/ FallsDue \/ Revoke
    \/ \E r \in Readers : \/ Ask(r) \/ Get(r) \/ Fetch(r) \/ Fetched(r) \/ FetchFails(r)
                          \/ Withdraw(r) \/ Read(r) \/ Refuse(r)

-----------------------------------------------------------------------------
(* Properties *)

(* However many readers are refused at once, a good token is never thrown   *)
(* away: a fetch replaces only a token that the API refuses, that is due,   *)
(* or that was never obtained (get and its epoch).                          *)
ReplacedForCause ==
    current'.epoch # current.epoch => ~current.value \/ current.epoch \in due \cup void
=============================================================================
