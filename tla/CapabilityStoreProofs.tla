------------------------ MODULE CapabilityStoreProofs ------------------------
(***************************************************************************)
(* What the two token files of capabilities.py are worth as long as no two *)
(* commands overlap: nothing locks the files, so this is what their users  *)
(* have to see to themselves.                                              *)
(***************************************************************************)
EXTENDS CapabilityStore, TLAPS

USE DEF AtPlace, GotoPlace, Start, Continue, Hold

\* No two commands run at the same time.
Alone == \A p, q \in Proc : ~AtPlace(p, "idle") /\ ~AtPlace(q, "idle") => p = q

\* The steps of one process.
Acts(p) ==
    \/ \E k \in Token : Issue(p, k) \/ Revoke(p, k) \/ Validate(p, k)
    \/ LoadTokens(p) \/ OpenTokens(p) \/ WriteTokens(p)
    \/ LoadRevoked(p) \/ OpenRevoked(p) \/ WriteRevoked(p)
    \/ LoadActive(p) \/ OpenActive(p) \/ WriteActive(p)
    \/ RevokeAll(p) \/ OpenClear(p) \/ WriteClear(p)
    \/ CheckRevoked(p) \/ CheckActive(p) \/ ReturnAllowed(p)
    \/ Crash(p)

LEMMA StepsOfOne ==
  ASSUME [TokensNext]_tokensVars
  PROVE  UNCHANGED tokensVars \/ Tick \/ \E p \in Proc : Acts(p)
  BY DEF TokensNext, Acts

LEMMA LoadType ==
  ASSUME NEW f \in TokenSet
  PROVE  Load(f) \subseteq Token
  BY DEF TokenSet, Load

\* The inductive invariant behind TokensTypeOK: who issues or revokes has a token.
TypeInv ==
    /\ TokensTypeOK
    /\ \A p \in Proc : place[p] \in IssuePoints \cup RevokePoints => target[p] \in Token

LEMMA TypeStep ==
  ASSUME TypeInv, [TokensNext]_tokensVars
  PROVE  TypeInv'
<1> USE DEF TypeInv, TokensTypeOK, Places, IssuePoints, RevokePoints, ClearPoints, ValidatePoints
<1>1. CASE UNCHANGED tokensVars
  BY <1>1 DEF tokensVars, files, tokenCommand, clock, tokenHistory
<1>2. CASE Tick
  BY <1>2 DEF Tick, files, tokenCommand, tokenHistory
<1>3. ASSUME NEW p \in Proc, NEW k \in Token, Issue(p, k) \/ Revoke(p, k) \/ Validate(p, k)
      PROVE  TypeInv'
  <2>1. CASE Issue(p, k)
    BY <2>1, RolesAndBounds DEF Issue, files
  <2>2. CASE Revoke(p, k) \/ Validate(p, k)
    BY <2>2 DEF Revoke, Validate, files, clock, tokenHistory
  <2> QED
    BY <1>3, <2>1, <2>2
<1>4. ASSUME NEW p \in Proc, LoadTokens(p) \/ LoadRevoked(p) \/ LoadActive(p) PROVE TypeInv'
  <2>1. Load(tokenFile) \subseteq Token /\ Load(revocationFile) \subseteq Token
    BY LoadType
  <2>2. target[p] \in Token
    BY <1>4 DEF LoadTokens, LoadRevoked, LoadActive
  <2>3. CASE LoadTokens(p) \/ LoadRevoked(p)
    BY <2>1, <2>2, <2>3 DEF LoadTokens, LoadRevoked, files, clock, tokenHistory
  <2>4. CASE LoadActive(p)
    BY <2>1, <2>2, <2>4 DEF LoadActive, files, clock
  <2> QED
    BY <1>4, <2>3, <2>4
<1>5. ASSUME NEW p \in Proc, OpenTokens(p) \/ OpenRevoked(p) \/ OpenActive(p) \/ OpenClear(p)
      PROVE  TypeInv'
  BY <1>5 DEF OpenTokens, OpenRevoked, OpenActive, OpenClear, clock, tokenHistory, TokenSet
<1>6. ASSUME NEW p \in Proc, WriteTokens(p) \/ WriteRevoked(p) \/ WriteActive(p) \/ WriteClear(p)
      PROVE  TypeInv'
  <2>1. \A f, set : WrittenOver(f, set) \subseteq {set, Garbled}
    BY DEF WrittenOver
  <2>2. view[p] \in TokenSet /\ {} \in TokenSet /\ Garbled \in TokenSet
    BY DEF TokenSet
  <2>3. tokenFile' \in TokenSet /\ revocationFile' \in TokenSet
    BY <1>6, <2>1, <2>2 DEF WriteTokens, WriteRevoked, WriteActive, WriteClear
  <2>4. CASE WriteTokens(p) \/ WriteRevoked(p)
    BY <2>3, <2>4 DEF WriteTokens, WriteRevoked, clock, tokenHistory
  <2>5. CASE WriteActive(p)
    BY <2>3, <2>5 DEF WriteActive, clock
  <2>6. CASE WriteClear(p)
    BY <2>3, <2>6 DEF WriteClear, clock
  <2> QED
    BY <1>6, <2>4, <2>5, <2>6
<1>7. ASSUME NEW p \in Proc, RevokeAll(p) PROVE TypeInv'
  BY <1>7 DEF RevokeAll, files, clock, Circulating
<1>8. ASSUME NEW p \in Proc, CheckRevoked(p) \/ CheckActive(p) \/ ReturnAllowed(p) PROVE TypeInv'
  <2>1. \E to \in {"idle", "check_token", "allowed"} : place' = [place EXCEPT ![p] = to]
    BY <1>8 DEF CheckRevoked, CheckActive, ReturnAllowed
  <2> QED
    BY <1>8, <2>1 DEF CheckRevoked, CheckActive, ReturnAllowed, files, clock, tokenHistory
<1>9. ASSUME NEW p \in Proc, Crash(p) PROVE TypeInv'
  BY <1>9 DEF Crash, files, clock, tokenHistory
<1> QED
  BY <1>1, <1>2, <1>3, <1>4, <1>5, <1>6, <1>7, <1>8, <1>9, StepsOfOne DEF Acts

LEMMA TypeCorrect == TokensSpec => []TypeInv
<1>1. TokensInit => TypeInv
  BY DEF TokensInit, TypeInv, TokensTypeOK, TokenSet, Places, IssuePoints, RevokePoints
<1>2. TypeInv /\ [TokensNext]_tokensVars => TypeInv'
  BY TypeStep
<1> QED
  BY <1>1, <1>2, PTL DEF TokensSpec

\* Types of the two files and of the commands that read and write them, however
\* many processes there are and however their commands overlap.
THEOREM FilesKeepTheirTypes == TokensSpec => []TokensTypeOK
<1>1. TypeInv => TokensTypeOK
  BY DEF TypeInv
<1> QED
  BY <1>1, TypeCorrect, PTL
-----------------------------------------------------------------------------
(***************************************************************************)
(* Revocation.                                                             *)
(***************************************************************************)

\* The inductive invariant behind RevokedIsDenied.  The list of the revoked
\* tokens can be lost with the process that rewrites it; but a token whose
\* revocation has returned is also out of the token file, and nobody who is
\* about to rewrite that file has it in hand.
RevocationInv ==
    /\ revoked \subseteq issued
    /\ Load(tokenFile) \cap revoked = {}
    /\ \A p \in Proc :
          /\ place[p] \in IssuePoints => target[p] \in issued \ revoked
          /\ place[p] \in RevokePoints => target[p] \in issued
          /\ place[p] \in {"open", "write", "open_active", "write_active"} => view[p] \cap revoked = {}
          /\ place[p] \in {"open_active", "write_active"} => target[p] \notin view[p]
          /\ place[p] \in ClearPoints => known[p] \subseteq issued
          /\ place[p] \in ValidatePoints => known[p] \subseteq revoked
    /\ RevokedIsDenied

\* While one command runs, all other processes are idle.
LEMMA OthersIdle ==
  ASSUME TokensTypeOK, Alone, Alone', NEW p \in Proc, Acts(p)
  PROVE  /\ \A q \in Proc \ {p} : place[q] = "idle" /\ place'[q] = "idle"
         /\ \A q \in Proc \ {p} : target'[q] = target[q] /\ view'[q] = view[q]
<1>1. \E to \in Places :
         place' = [place EXCEPT ![p] = to] /\ (place[p] # "idle" \/ to # "idle")
  BY
     DEF Acts, Issue, Revoke, Validate, LoadTokens, OpenTokens, WriteTokens, LoadRevoked,
         OpenRevoked,
     WriteRevoked, LoadActive, OpenActive, WriteActive, RevokeAll, OpenClear, WriteClear, CheckRevoked,
     CheckActive, ReturnAllowed, Crash, Places, IssuePoints, RevokePoints, ClearPoints, ValidatePoints
<1>2. \A q \in Proc \ {p} : place'[q] = place[q]
  BY <1>1 DEF TokensTypeOK
<1>3. place[p] # "idle" \/ place'[p] # "idle"
  BY <1>1 DEF TokensTypeOK
<1>4. \A q \in Proc \ {p} : target'[q] = target[q] /\ view'[q] = view[q]
  BY
     DEF Acts, Issue, Revoke, Validate, LoadTokens, OpenTokens, WriteTokens, LoadRevoked,
         OpenRevoked,
     WriteRevoked, LoadActive, OpenActive, WriteActive, RevokeAll, OpenClear, WriteClear, CheckRevoked,
     CheckActive, ReturnAllowed, Crash, TokensTypeOK
<1> QED
  BY <1>2, <1>3, <1>4 DEF Alone

\* A file that is written holds no more than what was to be written.
LEMMA WrittenLoads ==
  ASSUME NEW f, NEW set, NEW after \in WrittenOver(f, set)
  PROVE  Load(after) \subseteq set
  BY DEF WrittenOver, Load

LEMMA LoadEmpty == Load(Empty) = {}
  BY DEF Load

LEMMA RevocationStep ==
  ASSUME TypeInv, RevocationInv, Alone, Alone', [TokensNext]_tokensVars
  PROVE  RevocationInv'
<1> USE DEF RevocationInv, RevokedIsDenied
<1> USE DEF IssuePoints, RevokePoints, ClearPoints, ValidatePoints
<1>t. TokensTypeOK /\ \A q \in Proc : place[q] \in Places
  BY DEF TypeInv, TokensTypeOK
<1>1. CASE UNCHANGED tokensVars
  BY <1>1 DEF tokensVars, files, tokenCommand, tokenHistory
<1>2. CASE Tick
  BY <1>2 DEF Tick, files, tokenCommand, tokenHistory
<1>3. ASSUME NEW p \in Proc, Acts(p) PROVE RevocationInv'
  <2>o. \A q \in Proc \ {p} : place[q] = "idle" /\ place'[q] = "idle"
    BY <1>t, <1>3, OthersIdle
  <2>1. ASSUME NEW k \in Token, Issue(p, k) PROVE RevocationInv'
    BY <2>1, <2>o, <1>t DEF Issue, files, TokensTypeOK
  <2>2. ASSUME NEW k \in Token, Revoke(p, k) PROVE RevocationInv'
    BY <2>2, <2>o, <1>t DEF Revoke, Circulating, files, clock, tokenHistory, TokensTypeOK
  <2>3. ASSUME NEW k \in Token, Validate(p, k) PROVE RevocationInv'
    BY <2>3, <2>o, <1>t DEF Validate, files, clock, TokensTypeOK
  <2>4. CASE LoadTokens(p) \/ LoadRevoked(p)
    BY <2>4, <2>o, <1>t DEF LoadTokens, LoadRevoked, files, clock, tokenHistory, TokensTypeOK
  <2>5. CASE OpenTokens(p) \/ OpenRevoked(p) \/ OpenActive(p) \/ OpenClear(p)
    BY <2>5, <2>o, <1>t, LoadEmpty
       DEF OpenTokens, OpenRevoked, OpenActive, OpenClear, clock, tokenHistory, TokensTypeOK
  <2>6. CASE WriteTokens(p)
    <3>1. Load(tokenFile') \subseteq view[p] /\ view[p] \cap revoked = {}
      BY <2>6, WrittenLoads DEF WriteTokens
    <3> QED
      BY <2>6, <3>1, <2>o, <1>t DEF WriteTokens, clock, tokenHistory, TokensTypeOK
  <2>7. CASE WriteRevoked(p)
    BY <2>7, <2>o, <1>t DEF WriteRevoked, clock, tokenHistory, TokensTypeOK
  <2>8. CASE LoadActive(p)
    BY <2>8, <2>o, <1>t DEF LoadActive, files, clock, TokensTypeOK
  <2>9. CASE WriteActive(p)
    <3>1. Load(tokenFile') \subseteq view[p] /\ view[p] \cap revoked = {} /\ target[p] \notin view[p]
      BY <2>9, WrittenLoads DEF WriteActive
    <3> QED
      BY <2>9, <3>1, <2>o, <1>t DEF WriteActive, clock, TokensTypeOK
  <2>10. CASE RevokeAll(p)
    BY <2>10, <2>o, <1>t DEF RevokeAll, Circulating, files, clock, TokensTypeOK
  <2>11. CASE WriteClear(p)
    <3>1. Load(tokenFile') \subseteq {} /\ known[p] \subseteq issued
      BY <2>11, WrittenLoads DEF WriteClear
    <3> QED
      BY <2>11, <3>1, <2>o, <1>t DEF WriteClear, clock, TokensTypeOK
  <2>12. CASE CheckRevoked(p) \/ ReturnAllowed(p)
    BY <2>12, <2>o, <1>t DEF CheckRevoked, ReturnAllowed, files, clock, tokenHistory, TokensTypeOK
  <2>13. CASE CheckActive(p)
    BY <2>13, <2>o, <1>t DEF CheckActive, files, clock, tokenHistory, TokensTypeOK
  <2>14. CASE Crash(p)
    BY <2>14, <2>o, <1>t DEF Crash, files, clock, tokenHistory, TokensTypeOK
  <2> QED
    BY <1>3, <2>1, <2>2, <2>3, <2>4, <2>5, <2>6, <2>7, <2>8, <2>9, <2>10, <2>11, <2>12, <2>13, <2>14
       DEF Acts
<1> QED
  BY <1>1, <1>2, <1>3, StepsOfOne

\* As long as no two commands overlap, a token whose revocation had returned
\* when its validation began is not allowed, also when processes are killed
\* between any two file operations, and a torn list of revoked tokens is left
\* (revoke_token and revoke_all_tokens against validate_token).
THEOREM RevokedStaysDenied == TokensSpec /\ []Alone => []RevokedIsDenied
<1>1. TokensInit => RevocationInv
  BY
     DEF TokensInit, RevocationInv, RevokedIsDenied, Load, IssuePoints, RevokePoints, ClearPoints,
         ValidatePoints
<1>2. TypeInv /\ RevocationInv /\ Alone /\ Alone' /\ [TokensNext]_tokensVars => RevocationInv'
  BY RevocationStep
<1>3. RevocationInv => RevokedIsDenied
  BY DEF RevocationInv
<1> QED
  BY <1>1, <1>2, <1>3, TypeCorrect, PTL DEF TokensSpec
-----------------------------------------------------------------------------
(***************************************************************************)
(* The files between commands.                                             *)
(***************************************************************************)
Granted == issued \ revoked

\* Between commands the token file holds the granted tokens, and the list of
\* the revoked ones names no others.
Settled ==
    /\ tokenFile = Granted
    /\ revocationFile \in SUBSET revoked

\* How far command p has taken the files from one such state to the next.
Underway(p) ==
    LET k == target[p] IN
    /\ place[p] \in ValidatePoints => Settled
    /\ place[p] \notin RevokePoints => revocationFile \in SUBSET revoked
    /\ place[p] \in RevokePoints \ {"write_revoked"} => revocationFile \in SUBSET (revoked \cup {k})
    /\ place[p] \in {"load", "open"} => tokenFile = Granted \ {k}
    /\ place[p] \in {"open", "write"} => view[p] = Granted
    /\ place[p] \in RevokePoints \ {"write_active"} => tokenFile = Granted
    /\ place[p] \in {"open_revoked", "write_revoked"} => view[p] \subseteq revoked \cup {k}
    /\ place[p] = "write_revoked" => revocationFile = Empty
    /\ place[p] \in {"open_active", "write_active"} => view[p] = Granted \ {k}
    /\ place[p] = "open_clear" => tokenFile = Granted
    /\ place[p] \in {"write", "write_active", "write_clear"} => tokenFile = Empty
    /\ place[p] \in ClearPoints => known[p] = issued

\* The inductive invariant behind FilesTellTheGrants.
GrantInv ==
    crashes = 0 =>
        /\ (\A p \in Proc : AtPlace(p, "idle")) => Settled
        /\ \A p \in Proc : ~AtPlace(p, "idle") => Underway(p)

LEMMA LoadSet ==
  ASSUME NEW set \in SUBSET Token
  PROVE  Load(set) = set
  BY BrokenFiles DEF Load

LEMMA WrittenOverEmpty ==
  ASSUME NEW set, NEW after \in WrittenOver(Empty, set)
  PROVE  after = set
  BY DEF WrittenOver

LEMMA GrantStep ==
  ASSUME TypeInv, RevocationInv, GrantInv, Alone, Alone', [TokensNext]_tokensVars
  PROVE  GrantInv'
<1> USE DEF IssuePoints, RevokePoints, ClearPoints, ValidatePoints, Granted
<1>t. TokensTypeOK /\ \A q \in Proc : place[q] \in Places
  BY DEF TypeInv, TokensTypeOK
<1>1. CASE UNCHANGED tokensVars
  BY <1>1 DEF tokensVars, files, tokenCommand, tokenHistory, GrantInv, Settled, Underway
<1>2. CASE Tick
  BY <1>2 DEF Tick, files, tokenCommand, tokenHistory, GrantInv, Settled, Underway
<1>3. ASSUME NEW p \in Proc, Acts(p) PROVE GrantInv'
  <2>o. \A q \in Proc \ {p} : place[q] = "idle" /\ place'[q] = "idle"
    BY <1>t, <1>3, OthersIdle
  <2>c. crashes \in Nat /\ crashes' \in Nat
    BY <1>t, TypeStep DEF TypeInv, TokensTypeOK
  <2> SUFFICES ASSUME crashes' = 0
               PROVE  /\ place'[p] = "idle" => Settled'
                      /\ place'[p] # "idle" => Underway(p)'
    BY <2>o DEF GrantInv
  <2>b. crashes = 0 /\ (place[p] = "idle" => Settled) /\ (place[p] # "idle" => Underway(p))
    <3>1. crashes = 0
      BY <1>3, <2>c
         DEF Acts, Issue, Revoke, Validate, LoadTokens, OpenTokens, WriteTokens, LoadRevoked,
         OpenRevoked, WriteRevoked, LoadActive, OpenActive, WriteActive, RevokeAll, OpenClear, WriteClear,
         CheckRevoked, CheckActive, ReturnAllowed, Crash
    <3> QED
      BY <2>o, <3>1 DEF GrantInv
  <2>1. ASSUME NEW k \in Token, Issue(p, k) PROVE place'[p] # "idle" /\ Underway(p)'
    <3>1. Settled /\ k \notin issued /\ revoked \subseteq issued
      BY <2>1, <2>b DEF Issue, RevocationInv
    <3>2. place'[p] = "load" /\ target'[p] = k /\ Granted' = Granted \cup {k} /\ k \notin Granted /\ UNCHANGED files
      BY <2>1, <3>1, <1>t DEF Issue, TokensTypeOK
    <3>3. tokenFile' = Granted' \ {k} /\ revocationFile' \in SUBSET revoked'
      BY <2>1, <3>1, <3>2 DEF Settled, files, Issue
    <3> QED
      BY <3>2, <3>3 DEF Underway
  <2>2. ASSUME NEW k \in Token, Revoke(p, k) \/ Validate(p, k)
        PROVE  place'[p] # "idle" /\ Underway(p)'
    <3>1. Settled /\ place'[p] \in {"load_revoked", "check_revoked"} /\ UNCHANGED <<files, issued, revoked>>
      BY <2>2, <2>b, <1>t DEF Revoke, Validate, tokenHistory, TokensTypeOK
    <3>2. Settled'
      BY <3>1 DEF Settled, files
    <3>3. CASE place'[p] = "load_revoked"
      BY <3>2, <3>3 DEF Settled, Underway
    <3>4. CASE place'[p] = "check_revoked"
      BY <3>2, <3>4 DEF Settled, Underway
    <3> QED
      BY <3>1, <3>3, <3>4
  <2>3. ASSUME RevokeAll(p) PROVE place'[p] # "idle" /\ Underway(p)'
    <3>1. Settled /\ place'[p] = "open_clear" /\ UNCHANGED <<files, issued, revoked>> /\ known'[p] = Circulating
      BY <2>3, <2>b, <1>t DEF RevokeAll, TokensTypeOK
    <3>2. \A q \in Proc : place[q] = "idle"
      BY <2>3, <2>o DEF RevokeAll
    <3>3. {q \in Proc : place[q] \in IssuePoints} = {}
      BY <3>2
    <3>4. Circulating = issued
      BY <3>3 DEF Circulating
    <3> QED
      BY <3>1, <3>4 DEF Settled, Underway, files
  <2>4. ASSUME LoadTokens(p) PROVE place'[p] # "idle" /\ Underway(p)'
    <3>1. /\ Underway(p) /\ place[p] = "load" /\ place'[p] = "open" /\ target' = target
          /\ view'[p] = Load(tokenFile) \cup {target[p]} /\ UNCHANGED <<files, issued, revoked>>
      BY <2>4, <2>b, <1>t DEF LoadTokens, tokenHistory, TokensTypeOK
    <3>2. tokenFile = Granted \ {target[p]} /\ target[p] \in Granted /\ Granted \subseteq Token
      BY <3>1, <1>t DEF Underway, RevocationInv, TokensTypeOK
    <3>3. view'[p] = Granted
      BY <3>1, <3>2, LoadSet
    <3> QED
      BY <3>1, <3>3 DEF Underway, files
  <2>5. ASSUME OpenTokens(p) \/ OpenRevoked(p) \/ OpenActive(p) \/ OpenClear(p)
        PROVE  place'[p] # "idle" /\ Underway(p)'
    <3>1. Underway(p) /\ UNCHANGED <<target, view, issued, revoked, known>>
      BY <2>5, <2>b DEF OpenTokens, OpenRevoked, OpenActive, OpenClear, tokenHistory
    <3>2. \/ place[p] = "open" /\ place'[p] = "write" /\ tokenFile' = Empty /\ UNCHANGED revocationFile
          \/ place[p] = "open_revoked" /\ place'[p] = "write_revoked" /\ revocationFile' = Empty /\ UNCHANGED tokenFile
          \/ place[p] = "open_active" /\ place'[p] = "write_active" /\ tokenFile' = Empty /\ UNCHANGED revocationFile
          \/ place[p] = "open_clear" /\ place'[p] = "write_clear" /\ tokenFile' = Empty /\ UNCHANGED revocationFile
      BY <2>5, <1>t DEF OpenTokens, OpenRevoked, OpenActive, OpenClear, TokensTypeOK
    <3> QED
      BY <3>1, <3>2 DEF Underway
  <2>6. ASSUME WriteTokens(p) PROVE place'[p] = "idle" /\ Settled'
    <3>1. /\ Underway(p) /\ place[p] = "write" /\ place'[p] = "idle" /\ UNCHANGED <<revocationFile, issued, revoked>>
          /\ tokenFile' \in WrittenOver(tokenFile, view[p])
      BY <2>6, <2>b, <1>t DEF WriteTokens, tokenHistory, TokensTypeOK
    <3>2. tokenFile = Empty /\ view[p] = Granted
      BY <3>1 DEF Underway
    <3>3. tokenFile' = Granted
      BY <3>1, <3>2, WrittenOverEmpty
    <3> QED
      BY <3>1, <3>3 DEF Underway, Settled
  <2>7. ASSUME LoadRevoked(p) PROVE place'[p] # "idle" /\ Underway(p)'
    <3>1. /\ Underway(p) /\ place[p] = "load_revoked" /\ place'[p] = "open_revoked" /\ target' = target
          /\ view'[p] = Load(revocationFile) \cup {target[p]} /\ UNCHANGED <<files, issued, revoked>>
      BY <2>7, <2>b, <1>t DEF LoadRevoked, tokenHistory, TokensTypeOK
    <3>2. Load(revocationFile) = revocationFile
      <4>1. revocationFile \in SUBSET (revoked \cup {target[p]})
        BY <3>1 DEF Underway
      <4>2. target[p] \in Token /\ revoked \subseteq Token
        BY <3>1, <1>t DEF TypeInv, TokensTypeOK
      <4> QED
        BY <4>1, <4>2, LoadSet
    <3> QED
      BY <3>1, <3>2 DEF Underway, files
  <2>8. ASSUME WriteRevoked(p) PROVE place'[p] # "idle" /\ Underway(p)'
    <3>1. /\ Underway(p) /\ place[p] = "write_revoked" /\ place'[p] = "load_active" /\ UNCHANGED <<tokenFile, target, issued, revoked>>
          /\ revocationFile' \in WrittenOver(revocationFile, view[p])
      BY <2>8, <2>b, <1>t DEF WriteRevoked, tokenHistory, TokensTypeOK
    <3>2. revocationFile' = view[p]
      BY <3>1, WrittenOverEmpty DEF Underway
    <3>3. revocationFile' \in SUBSET (revoked \cup {target[p]})
      BY <3>1, <3>2 DEF Underway
    <3> QED
      BY <3>1, <3>3 DEF Underway
  <2>9. ASSUME LoadActive(p)
        PROVE  (place'[p] = "idle" => Settled') /\ (place'[p] # "idle" => Underway(p)')
    <3>1. Underway(p) /\ place[p] = "load_active" /\ UNCHANGED <<files, issued, target>>
      BY <2>9, <2>b DEF LoadActive
    <3>2. /\ tokenFile = Granted /\ Load(tokenFile) = Granted
          /\ revocationFile \in SUBSET (revoked \cup {target[p]})
      BY <3>1, <1>t, LoadSet DEF Underway, TokensTypeOK
    <3>3. CASE target[p] \in Granted
      <4>1. place'[p] = "open_active" /\ view'[p] = Granted \ {target[p]} /\ UNCHANGED revoked
        BY <2>9, <3>2, <3>3, <1>t DEF LoadActive, TokensTypeOK
      <4> QED
        BY <3>1, <3>2, <4>1 DEF Underway, files
    <3>4. CASE target[p] \notin Granted
      <4>1. place'[p] = "idle" /\ revoked' = revoked \cup {target[p]}
        BY <2>9, <3>2, <3>4, <1>t DEF LoadActive, TokensTypeOK
      <4>2. Granted' = Granted
        BY <3>1, <3>4, <4>1
      <4> QED
        BY <3>1, <3>2, <3>4, <4>1, <4>2 DEF Settled, files
    <3> QED
      BY <3>3, <3>4
  <2>10. ASSUME WriteActive(p) PROVE place'[p] = "idle" /\ Settled'
    <3>1. /\ Underway(p) /\ place[p] = "write_active" /\ place'[p] = "idle" /\ UNCHANGED <<revocationFile, issued>>
          /\ tokenFile' \in WrittenOver(tokenFile, view[p]) /\ revoked' = revoked \cup {target[p]}
      BY <2>10, <2>b, <1>t DEF WriteActive, TokensTypeOK
    <3>2. tokenFile' = Granted \ {target[p]}
      BY <3>1, WrittenOverEmpty DEF Underway
    <3>3. Granted' = Granted \ {target[p]}
      BY <3>1
    <3> QED
      BY <3>1, <3>2, <3>3 DEF Underway, Settled
  <2>11. ASSUME WriteClear(p) PROVE place'[p] = "idle" /\ Settled'
    <3>1. /\ Underway(p) /\ place[p] = "write_clear" /\ place'[p] = "idle" /\ UNCHANGED <<revocationFile, issued>>
          /\ tokenFile' \in WrittenOver(tokenFile, {}) /\ revoked' = revoked \cup known[p]
      BY <2>11, <2>b, <1>t DEF WriteClear, TokensTypeOK
    <3>2. tokenFile' = {} /\ Granted' = {}
      BY <3>1, WrittenOverEmpty DEF Underway
    <3> QED
      BY <3>1, <3>2 DEF Underway, Settled
  <2>12. ASSUME CheckRevoked(p) \/ CheckActive(p) \/ ReturnAllowed(p)
         PROVE  (place'[p] = "idle" => Settled') /\ (place'[p] # "idle" => Underway(p)')
    <3>1. /\ place[p] \in ValidatePoints /\ UNCHANGED <<files, issued, revoked>>
          /\ \E to \in {"idle", "check_token", "allowed"} : place' = [place EXCEPT ![p] = to]
      BY <2>12 DEF CheckRevoked, CheckActive, ReturnAllowed, tokenHistory
    <3>2. Settled /\ place'[p] \in {"idle", "check_token", "allowed"}
      BY <2>b, <3>1, <1>t DEF Underway, TokensTypeOK
    <3>3. Settled'
      BY <3>1, <3>2 DEF Settled, files
    <3> QED
      BY <3>2, <3>3 DEF Underway, Settled
  <2>13. ~Crash(p)
    BY <2>b, <2>c DEF Crash
  <2> QED
    BY <1>3, <2>1, <2>2, <2>3, <2>4, <2>5, <2>6, <2>7, <2>8, <2>9, <2>10, <2>11, <2>12, <2>13
       DEF Acts
<1> QED
  BY <1>1, <1>2, <1>3, StepsOfOne

\* As long as no two commands overlap and none is killed, the two files grant,
\* between commands, exactly the tokens that were issued and not revoked: no
\* rewrite of a whole file (issue_token, revoke_token, revoke_all_tokens) loses
\* or revives one.
THEOREM FilesKeepTheGrants == TokensSpec /\ []Alone => []FilesTellTheGrants
<1>1. TokensInit => RevocationInv /\ GrantInv
  BY
     DEF TokensInit, RevocationInv, RevokedIsDenied, GrantInv, Settled, Granted, Load,
         IssuePoints, RevokePoints,
     ClearPoints, ValidatePoints
<1>2. TypeInv /\ RevocationInv /\ GrantInv /\ Alone /\ Alone' /\ [TokensNext]_tokensVars => RevocationInv' /\ GrantInv'
  BY RevocationStep, GrantStep
<1>3. TypeInv /\ GrantInv => FilesTellTheGrants
  <2> SUFFICES ASSUME TypeInv, Settled PROVE Load(tokenFile) \ Load(revocationFile) = issued \ revoked
    BY DEF GrantInv, FilesTellTheGrants
  <2>1. Granted \in SUBSET Token /\ revocationFile \in SUBSET Token
    BY DEF Settled, Granted, TypeInv, TokensTypeOK
  <2>2. Load(tokenFile) = Granted /\ Load(revocationFile) = revocationFile
    BY <2>1, LoadSet DEF Settled
  <2> QED
    BY <2>2 DEF Settled, Granted
<1> QED
  BY <1>1, <1>2, <1>3, TypeCorrect, PTL DEF TokensSpec
=============================================================================
