------------------------------- MODULE WsTokens -------------------------------
(***************************************************************************)
(* The short-lived token with which an agent opens its tunnel: the copy in *)
(* the registry's entry, the copy in the table ws_tokens, and every step   *)
(* that writes, reads, restores or drops one of them, over disconnects and *)
(* restarts of the server.  One agent: all of this is keyed by its id.     *)
(*                                                                         *)
(* Each method of the registry runs from its first statement to its last   *)
(* under _lock without an await, so it is one step; accepting a handshake  *)
(* and entering the socket are two, with an await between them.  Tokens    *)
(* are numbered in the order they are issued.                              *)
(***************************************************************************)
EXTENDS Naturals, Sequences

CONSTANTS Validity,    \* seconds a token lives (60 in the code)
          MaxTokens,   \* bound on the tokens issued
          MaxOpening,  \* bound on the handshakes accepted and not yet entered
          MaxTime      \* bound on the clock

ASSUME BoundsAssumption ==
    /\ Validity \in Nat \ {0}
    /\ MaxTokens \in Nat /\ MaxOpening \in Nat /\ MaxTime \in Nat

VARIABLES
    known,      \* has the registry an entry for the agent?
    memory,     \* ws_token and ws_token_expiry of that entry
    row,        \* the agent's row of ws_tokens
    connected,  \* is a tunnel entered in the registry?
    opening,    \* handshakes accepted and not yet entered
    now,        \* the wall clock
    expiry,     \* history: expiry[t] of each token issued
    mismatched, \* history: was a token compared with the row in vain since the last issue?
    dropped     \* history: was the memory copy dropped since the last issue?

vars == <<known, memory, row, connected, opening, now, expiry, mismatched, dropped>>

Copy == [token : Nat, expiry : Nat]
NoCopy == [token |-> 0, expiry |-> 0]     \* None, and no row
Issued == 1 .. Len(expiry)

TypeOK ==
    /\ memory \in Copy /\ row \in Copy
    /\ opening \in 0 .. MaxOpening
    /\ now \in Nat
    /\ expiry \in Seq(Nat) /\ Len(expiry) <= MaxTokens
    /\ known \in BOOLEAN /\ connected \in BOOLEAN
    /\ mismatched \in BOOLEAN /\ dropped \in BOOLEAN

Init ==
    /\ known = FALSE
    /\ memory = NoCopy /\ row = NoCopy
    /\ connected = FALSE
    /\ opening = 0
    /\ now = 0
    /\ expiry = <<>>
    /\ mismatched = FALSE /\ dropped = FALSE

(* Is this copy still good?  At the very second of its expiry it is not. *)
Alive(copy) == copy.token # 0 /\ now < copy.expiry
Holds(copy, t) == Alive(copy) /\ copy.token = t

(* The row after set_agent_ws_token: an upsert on agent_id. *)
Upsert(copy) == copy

(* set_agent_ws_token, for ws-token and for the legacy registration. *)
Issue ==
    /\ Len(expiry) < MaxTokens
    /\ known' = TRUE
    /\ memory' = [token |-> Len(expiry) + 1, expiry |-> now + Validity]
    /\ row' = Upsert(memory')
    /\ expiry' = Append(expiry, memory'.expiry)
    /\ mismatched' = FALSE /\ dropped' = FALSE
    /\ UNCHANGED <<connected, opening, now>>

(* validate_agent_ws_token for an agent the registry has no entry of: the   *)
(* row alone decides, and becomes the entry.  The token presented is not    *)
(* looked at, its variable is overwritten with the row's.                   *)
LoadAny == row.token # 0
Load == Alive(row)

AdmitUnknown ==
    /\ ~known /\ Load
    /\ known' = TRUE
    /\ memory' = row
    /\ opening < MaxOpening /\ opening' = opening + 1
    /\ UNCHANGED <<row, connected, now, expiry, mismatched, dropped>>

RefuseUnknown ==
    /\ ~known /\ ~Load
    /\ row' = NoCopy
    /\ UNCHANGED <<known, memory, connected, opening, now, expiry, mismatched, dropped>>

(* ... and for one it has: the entry's copy is compared first. *)
AdmitKnown(t) ==
    /\ known /\ Holds(memory, t)
    /\ opening < MaxOpening /\ opening' = opening + 1
    /\ UNCHANGED <<known, memory, row, connected, now, expiry, mismatched, dropped>>

(* The row's copy comes second, and goes back into the entry. *)
Restorable(t) == Holds(row, t)

Restore(t) ==
    /\ known /\ ~Holds(memory, t) /\ Restorable(t)
    /\ memory' = row
    /\ opening < MaxOpening /\ opening' = opening + 1
    /\ UNCHANGED <<known, row, connected, now, expiry, mismatched, dropped>>

(* Neither copy matches: the row is deleted, whatever token it held; only   *)
(* without a row is the entry looked at, and cleared once expired.          *)
Refuse(t) ==
    /\ known /\ ~Holds(memory, t) /\ ~Restorable(t)
    /\ IF row # NoCopy
       THEN row' = NoCopy /\ UNCHANGED memory
       ELSE /\ memory' = IF memory.expiry <= now THEN NoCopy ELSE memory
            /\ UNCHANGED row
    /\ mismatched' = (mismatched \/ row # NoCopy)
    /\ UNCHANGED <<known, connected, opening, now, expiry, dropped>>

(* set_websocket_connection after accept. *)
Enter ==
    /\ opening > 0
    /\ opening' = opening - 1
    /\ known' = TRUE
    /\ connected' = TRUE
    /\ UNCHANGED <<memory, row, now, expiry, mismatched, dropped>>

(* The row when its tunnel goes. *)
RowForgotten == NoCopy
RowKept == row

(* remove_websocket_connection of the tunnel entered last. *)
Leave ==
    /\ connected
    /\ connected' = FALSE
    /\ memory' = NoCopy
    /\ row' = RowKept
    /\ dropped' = TRUE
    /\ UNCHANGED <<known, opening, now, expiry, mismatched>>

(* Forwarder._resolve_agent: a relayed request gives an agent of the        *)
(* database an entry without a token.                                       *)
Resolve ==
    /\ ~known
    /\ known' = TRUE
    /\ UNCHANGED <<memory, row, connected, opening, now, expiry, mismatched, dropped>>

(* The server stops and starts: the registry is empty, the table is not. *)
Restart ==
    /\ known \/ opening > 0
    /\ known' = FALSE
    /\ memory' = NoCopy
    /\ connected' = FALSE
    /\ opening' = 0
    /\ dropped' = TRUE
    /\ UNCHANGED <<row, now, expiry, mismatched>>

Tick ==
    /\ now < MaxTime
    /\ now' = now + 1
    /\ UNCHANGED <<known, memory, row, connected, opening, expiry, mismatched, dropped>>

Next ==
    \/ Issue \/ Enter \/ Leave \/ Resolve \/ Restart \/ Tick
    \/ Issued # {} /\ (AdmitUnknown \/ RefuseUnknown)
    \/ \E t \in Issued : AdmitKnown(t) \/ Restore(t) \/ Refuse(t)

Spec == Init /\ [][Next]_vars

-----------------------------------------------------------------------------
(* What validate_agent_ws_token would return now for token t. *)
Accepted(t) ==
    IF known THEN Holds(memory, t) \/ Restorable(t) ELSE Load

(* The token issued last opens the tunnel until it expires, through         *)
(* disconnects, restarts and other handshakes: one of its two copies is     *)
(* there.  The exception is a mismatch that deleted the row and, before or  *)
(* after it, a disconnect or restart that dropped the entry's copy.         *)
LatestTokenWorks ==
    Issued # {} /\ now < expiry[Len(expiry)] /\ ~(mismatched /\ dropped) =>
        Accepted(Len(expiry))

(* No copy outlives its replacement: what either place holds is the token   *)
(* issued last, with its own expiry, so a reconnection or a restart never   *)
(* brings back an older token or prolongs one.                              *)
NoOldCopies ==
    \A copy \in {memory, row} : copy # NoCopy =>
        copy = [token |-> Len(expiry), expiry |-> expiry[Len(expiry)]]

(* No handshake of any of the three branches is accepted once the token     *)
(* issued last has expired, after whatever restarts and restored copies;    *)
(* and while the registry has an entry for the agent, none but that token   *)
(* is.  Without an entry (AdmitUnknown) the second half does not hold: see  *)
(* TokenIsValidated.                                                        *)
AdmissionNeedsLatest ==
    \A t \in Issued : Accepted(t) =>
        /\ now < expiry[Len(expiry)]
        /\ known => t = Len(expiry)

(* VELAVPS_ECOSYSTEM_DOC.md:58: "Tokens are validated against the in-memory *)
(* registry with a persisted fallback in the `ws_tokens` table": then a     *)
(* token that was replaced, and so is in neither, is not accepted, after a  *)
(* restart either.                                                          *)
TokenIsValidated ==
    \A t \in Issued : Accepted(t) => t \in {memory.token, row.token}
=============================================================================
