--------------------------- MODULE CapabilityStore ---------------------------
(***************************************************************************)
(* policy/capabilities.py: capability tokens in two JSON files that all    *)
(* processes share and that nothing locks.  A command loads a whole file,  *)
(* changes the set in memory and writes the whole file back, and writing   *)
(* is two steps: opening truncates the file, then the text is written.     *)
(*                                                                         *)
(* A token is its id; what it is for (actions and scope) is fixed when it  *)
(* is issued, so a request either fits a token or does not.                *)
(***************************************************************************)
EXTENDS Naturals

CONSTANTS
    Proc,        \* process slots
    Issuers,     \* the processes that execute plans: they issue and validate
    Operators,   \* the processes in which an operator revokes
    Token,       \* token ids
    Empty,       \* a file that was truncated
    Garbled,     \* a file in which the texts of two writers overlap
    None,
    TTL,         \* ttl_seconds
    MaxTime,     \* bound: the clock
    MaxCrashes   \* bound: processes killed inside a command

ASSUME RolesAndBounds ==
    /\ Issuers \subseteq Proc /\ Operators \subseteq Proc
    /\ TTL \in Nat /\ MaxTime \in Nat /\ MaxCrashes \in Nat
    /\ None \notin Token

\* A file that does not parse holds no set of tokens.
ASSUME BrokenFiles == \A set \in SUBSET Token : set # Empty /\ set # Garbled

VARIABLES
    tokenFile, revocationFile,
    place, target, view,  \* of each command: where it is, its token, and the set
                       \* that it has loaded and will write back
    now, expires,
    crashes,
    issued,            \* history: the ids drawn by issue_token
    revoked,           \* history: the tokens whose revocation has returned
    known              \* history: the revoked tokens when a validation began,
                       \* the tokens in circulation when a revoke-all began

files == <<tokenFile, revocationFile>>
tokenCommand == <<place, target, view>>
clock == <<now, expires>>
tokenHistory == <<issued, revoked, known>>
tokensVars == <<files, tokenCommand, clock, crashes, tokenHistory>>

IssuePoints == {"load", "open", "write"}
RevokePoints == {"load_revoked", "open_revoked", "write_revoked",
                 "load_active", "open_active", "write_active"}
ClearPoints == {"open_clear", "write_clear"}
ValidatePoints == {"check_revoked", "check_token", "allowed"}
Places == {"idle"} \cup IssuePoints \cup RevokePoints \cup ClearPoints \cup ValidatePoints

TokenSet == (SUBSET Token) \cup {Empty, Garbled}

\* Types of the two files and of the commands that read and write them.
TokensTypeOK ==
    /\ tokenFile \in TokenSet /\ revocationFile \in TokenSet
    /\ place \in [Proc -> Places]
    /\ target \in [Proc -> Token \cup {None}]
    /\ view \in [Proc -> SUBSET Token]
    /\ now \in Nat /\ expires \in [Token -> Nat]
    /\ crashes \in Nat
    /\ issued \subseteq Token /\ revoked \subseteq Token
    /\ known \in [Proc -> SUBSET Token]

TokensInit ==
    /\ tokenFile = {} /\ revocationFile = {}
    /\ place = [p \in Proc |-> "idle"]
    /\ target = [p \in Proc |-> None]
    /\ view = [p \in Proc |-> {}]
    /\ now = 0 /\ expires = [k \in Token |-> 0]
    /\ crashes = 0
    /\ issued = {} /\ revoked = {}
    /\ known = [p \in Proc |-> {}]
-----------------------------------------------------------------------------
AtPlace(p, point) == place[p] = point
GotoPlace(p, point) == place' = [place EXCEPT ![p] = point]
Start(p, k, point) ==
    AtPlace(p, "idle") /\ GotoPlace(p, point) /\ target' = [target EXCEPT ![p] = k]
Continue(p, from, to) == AtPlace(p, from) /\ GotoPlace(p, to) /\ UNCHANGED target
Hold(p, set) == view' = [view EXCEPT ![p] = set]

\* _load_json: a file that does not parse counts as one with nothing in it.
Load(stored) == IF stored \in {Empty, Garbled} THEN {} ELSE stored

\* What write_text leaves: its text alone if the file is still as it was
\* truncated; over a longer text of another writer, something unreadable.
WrittenOver(stored, set) == IF stored = Empty THEN {set} ELSE {set, Garbled}

\* The tokens that somebody may hold: issue_token has returned them.
Circulating == issued \ {target[p] : p \in {q \in Proc : place[q] \in IssuePoints}}
-----------------------------------------------------------------------------
(* issue_token *)

Issue(p, k) ==
    /\ p \in Issuers /\ k \notin issued
    /\ Start(p, k, "load")
    /\ issued' = issued \cup {k}
    /\ expires' = [expires EXCEPT ![k] = now + TTL]
    /\ UNCHANGED <<files, view, now, crashes, revoked, known>>

\* Mutant: the file is rewritten with the new token alone.
LoadNothing(p) ==
    /\ Continue(p, "load", "open")
    /\ Hold(p, {target[p]})
    /\ UNCHANGED <<files, clock, crashes, tokenHistory>>

LoadTokens(p) ==
    /\ Continue(p, "load", "open")
    /\ Hold(p, Load(tokenFile) \cup {target[p]})
    /\ UNCHANGED <<files, clock, crashes, tokenHistory>>

OpenTokens(p) ==
    /\ Continue(p, "open", "write")
    /\ tokenFile' = Empty
    /\ UNCHANGED <<revocationFile, view, clock, crashes, tokenHistory>>

WriteTokens(p) ==
    /\ Continue(p, "write", "idle")
    /\ tokenFile' \in WrittenOver(tokenFile, view[p])
    /\ UNCHANGED <<revocationFile, view, clock, crashes, tokenHistory>>
-----------------------------------------------------------------------------
(* revoke_token *)

Revoke(p, k) ==
    /\ p \in Operators /\ k \in Circulating
    /\ Start(p, k, "load_revoked")
    /\ UNCHANGED <<files, view, clock, crashes, tokenHistory>>

LoadRevoked(p) ==
    /\ Continue(p, "load_revoked", "open_revoked")
    /\ Hold(p, Load(revocationFile) \cup {target[p]})
    /\ UNCHANGED <<files, clock, crashes, tokenHistory>>

OpenRevoked(p) ==
    /\ Continue(p, "open_revoked", "write_revoked")
    /\ revocationFile' = Empty
    /\ UNCHANGED <<tokenFile, view, clock, crashes, tokenHistory>>

WriteRevoked(p) ==
    /\ Continue(p, "write_revoked", "load_active")
    /\ revocationFile' \in WrittenOver(revocationFile, view[p])
    /\ UNCHANGED <<tokenFile, view, clock, crashes, tokenHistory>>

\* Mutant: the "optional" removal from the active tokens is left out.
KeepActive(p) ==
    /\ Continue(p, "load_active", "idle")
    /\ revoked' = revoked \cup {target[p]}
    /\ UNCHANGED <<files, view, clock, crashes, issued, known>>

\* The token is removed from the active ones; when it is not among them,
\* there is nothing to write.
LoadActive(p) ==
    LET active == Load(tokenFile) IN
    /\ IF target[p] \in active
       THEN /\ Continue(p, "load_active", "open_active")
            /\ Hold(p, active \ {target[p]})
            /\ UNCHANGED revoked
       ELSE /\ Continue(p, "load_active", "idle")
            /\ revoked' = revoked \cup {target[p]}
            /\ UNCHANGED view
    /\ UNCHANGED <<files, clock, crashes, issued, known>>

OpenActive(p) ==
    /\ Continue(p, "open_active", "write_active")
    /\ tokenFile' = Empty
    /\ UNCHANGED <<revocationFile, view, clock, crashes, tokenHistory>>

WriteActive(p) ==
    /\ Continue(p, "write_active", "idle")
    /\ tokenFile' \in WrittenOver(tokenFile, view[p])
    /\ revoked' = revoked \cup {target[p]}
    /\ UNCHANGED <<revocationFile, view, clock, crashes, issued, known>>
-----------------------------------------------------------------------------
(* revoke_all_tokens: the active tokens are cleared. *)

\* Mutant: revoke_all_tokens is revoke_token without a token.
RevokeNone(p) ==
    /\ p \in Operators
    /\ Start(p, None, "load_revoked")
    /\ UNCHANGED <<files, view, clock, crashes, tokenHistory>>

RevokeAll(p) ==
    /\ p \in Operators
    /\ Start(p, None, "open_clear")
    /\ known' = [known EXCEPT ![p] = Circulating]
    /\ UNCHANGED <<files, view, clock, crashes, issued, revoked>>

OpenClear(p) ==
    /\ Continue(p, "open_clear", "write_clear")
    /\ tokenFile' = Empty
    /\ UNCHANGED <<revocationFile, view, clock, crashes, tokenHistory>>

WriteClear(p) ==
    /\ Continue(p, "write_clear", "idle")
    /\ tokenFile' \in WrittenOver(tokenFile, {})
    /\ revoked' = revoked \cup known[p]
    /\ UNCHANGED <<revocationFile, view, clock, crashes, issued, known>>
-----------------------------------------------------------------------------
(* validate_token *)

Validate(p, k) ==
    /\ p \in Issuers
    /\ Start(p, k, "check_revoked")
    /\ known' = [known EXCEPT ![p] = revoked]
    /\ UNCHANGED <<files, view, clock, crashes, issued, revoked>>

CheckRevoked(p) ==
    /\ Continue(p, "check_revoked",
                IF target[p] \in Load(revocationFile) THEN "idle" ELSE "check_token")
    /\ UNCHANGED <<files, view, clock, crashes, tokenHistory>>

\* fits: the request is for an action and a path that the token allows.
CheckActive(p) ==
    /\ \E fits \in BOOLEAN :
          Continue(p, "check_token",
                   IF target[p] \in Load(tokenFile) /\ now < expires[target[p]] /\ fits
                   THEN "allowed" ELSE "idle")
    /\ UNCHANGED <<files, view, clock, crashes, tokenHistory>>

ReturnAllowed(p) ==
    /\ Continue(p, "allowed", "idle")
    /\ UNCHANGED <<files, view, clock, crashes, tokenHistory>>
-----------------------------------------------------------------------------
\* The process is killed; the files stay as they are.
Crash(p) ==
    /\ ~AtPlace(p, "idle") /\ GotoPlace(p, "idle")
    /\ crashes < MaxCrashes /\ crashes' = crashes + 1
    /\ UNCHANGED <<files, target, view, clock, tokenHistory>>

Tick ==
    /\ now < MaxTime /\ now' = now + 1
    /\ UNCHANGED <<files, tokenCommand, expires, crashes, tokenHistory>>

TokensNext ==
    \/ \E p \in Proc, k \in Token : Issue(p, k) \/ Revoke(p, k) \/ Validate(p, k)
    \/ \E p \in Proc :
          \/ LoadTokens(p) \/ OpenTokens(p) \/ WriteTokens(p)
          \/ LoadRevoked(p) \/ OpenRevoked(p) \/ WriteRevoked(p)
          \/ LoadActive(p) \/ OpenActive(p) \/ WriteActive(p)
          \/ RevokeAll(p) \/ OpenClear(p) \/ WriteClear(p)
          \/ CheckRevoked(p) \/ CheckActive(p) \/ ReturnAllowed(p)
          \/ Crash(p)
    \/ Tick

TokensSpec == TokensInit /\ [][TokensNext]_tokensVars
-----------------------------------------------------------------------------
\* A token whose revocation had returned when its validation began is not
\* allowed (revoke_token and revoke_all_tokens against validate_token).
RevokedIsDenied == \A p \in Proc : AtPlace(p, "allowed") => target[p] \notin known[p]

\* With no command running and none ever killed, the two files grant exactly
\* the tokens that were issued and not revoked: no rewrite of a whole file
\* (issue_token, revoke_token, revoke_all_tokens) loses or revives one.
FilesTellTheGrants ==
    crashes = 0 /\ (\A p \in Proc : AtPlace(p, "idle"))
        => Load(tokenFile) \ Load(revocationFile) = issued \ revoked
=============================================================================
