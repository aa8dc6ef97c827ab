------------------------------ MODULE Accounts ------------------------------
(***************************************************************************)
(* Customer accounts, their sessions, their one-time links and their       *)
(* address books (src/modules/identity-access).  A use case reads the      *)
(* account without a lock, works on it (hashing a password takes long) and *)
(* saves it if its version did not change.  Refresh tokens and links are   *)
(* rows that other transactions lock, revoke, add or delete meanwhile: a   *)
(* statement that revokes or deletes them works on the rows it saw when it *)
(* began, and waits for those another transaction holds.                   *)
(***************************************************************************)
EXTENDS Integers, FiniteSets

CONSTANTS
  Users, Emails,
  AddressIds, AddressLimit,   \* MAX_ADDRESSES
  Requests,     \* requests served at the same time
  MaxTokens,    \* bound: refresh tokens ever issued
  MaxLinks,     \* bound: links ever issued, of each kind
  Scenarios,    \* bound: the sets of operations that come together, each the name of its use case
  None

ASSUME AccountsAssumption ==
  /\ IsFiniteSet(Users) /\ IsFiniteSet(Emails) /\ IsFiniteSet(AddressIds)
  /\ AddressLimit \in Nat \ {0} /\ MaxTokens \in Nat /\ MaxLinks \in Nat
  /\ None \notin Users \cup Emails \cup AddressIds \cup Requests \cup (1..MaxTokens) \cup (1..MaxLinks)

VARIABLES
  account,        \* users: status, email, whether it is verified, whether there was activity lately
  book,           \* customer_addresses: the addresses of each customer and the default one
  refreshTokens,  \* refresh_tokens, by id; the id of a session is that of its first token
  lastToken,      \* the last id given to a refresh token
  resetLinks,     \* password_reset_tokens, by id
  verifyLinks,    \* email_verification_tokens, by id
  job,            \* the use case each request is in
  ended,          \* history: the sessions that a sign-out, a revocation or a reuse put an end to
  raced,          \* history: the sessions a sign-in or a renewal was opening while they were ended
  late,           \* history: the customers a request in progress left rows of after they were anonymized
  proven,         \* history: who proved to read which address since they last changed it
  crossed,        \* history: the accounts recovered with a link that crossed a change of email
  offered         \* the operations that come in this behaviour

tables == <<account, book, refreshTokens, lastToken, resetLinks, verifyLinks>>
history == <<ended, raced, late, proven, crossed, offered>>
accountsVars == <<tables, job, history>>

TokenIds == 1..MaxTokens
LinkIds == 1..MaxLinks
Statuses == {"NONE", "ACTIVE", "SUSPENDED", "ANONYMIZED"}
Saves == {"changePassword", "resetPassword", "changeEmail", "confirmEmail", "suspend", "reactivate", "rectify", "anonymize"}
Kinds == Saves \cup {"idle", "signIn", "refresh", "reuse", "signOut", "requestReset", "resendVerification", "addAddress"}
Account == [status : Statuses, email : Emails \cup {None}, verified : BOOLEAN, active : BOOLEAN]
TokenRow == [user : Users, session : TokenIds, revoked : BOOLEAN, next : TokenIds \cup {None}, expired : BOOLEAN]
LinkRow == [user : Users, sentTo : Emails, state : {"pending", "used", "invalidated", "expired"}, crossed : BOOLEAN]
ASSUME NoneIsNoRow == None \notin TokenRow \cup LinkRow

Job == [kind : Kinds, user : Users \cup {None}, item : TokenIds \cup LinkIds \cup {None}, email : Emails \cup {None},
        saving : BOOLEAN, fresh : BOOLEAN, outdated : BOOLEAN, targets : SUBSET (TokenIds \cup LinkIds)]
Idle == [kind |-> "idle", user |-> None, item |-> None, email |-> None,
         saving |-> FALSE, fresh |-> TRUE, outdated |-> FALSE, targets |-> {}]

\* The rows of the tables and what each request holds in memory have their type; a book keeps to its limit.
AccountsTypeOK ==
  /\ account \in [Users -> Account]
  /\ \A u \in Users : /\ book[u].saved \subseteq AddressIds /\ book[u].default \in book[u].saved \cup {None}
                      /\ Cardinality(book[u].saved) <= AddressLimit
  /\ refreshTokens \in [TokenIds -> TokenRow \cup {None}] /\ lastToken \in 0..MaxTokens
  /\ resetLinks \in [LinkIds -> LinkRow \cup {None}] /\ verifyLinks \in [LinkIds -> LinkRow \cup {None}]
  /\ job \in [Requests -> Job]
  /\ ended \subseteq TokenIds /\ raced \subseteq TokenIds
  /\ late \subseteq Users /\ proven \subseteq Users \X Emails /\ crossed \subseteq Users
  /\ offered \in Scenarios

AccountsInit ==
  /\ account = [u \in Users |-> [status |-> "NONE", email |-> None, verified |-> FALSE, active |-> FALSE]]
  /\ book = [u \in Users |-> [saved |-> {}, default |-> None]]
  /\ refreshTokens = [t \in TokenIds |-> None] /\ lastToken = 0
  /\ resetLinks = [l \in LinkIds |-> None] /\ verifyLinks = [l \in LinkIds |-> None]
  /\ job = [p \in Requests |-> Idle]
  /\ ended = {} /\ raced = {} /\ late = {} /\ proven = {} /\ crossed = {}
  /\ offered \in Scenarios

-----------------------------------------------------------------------------
(* Accounts, tokens and links. *)

canSignIn(u) == account[u].status = "ACTIVE"

Stored(rows) == {i \in DOMAIN rows : rows[i] # None}
TokensOf(u) == {t \in Stored(refreshTokens) : refreshTokens[t].user = u}
Live(t) == t \in Stored(refreshTokens) /\ ~refreshTokens[t].revoked
SessionOf(t) == refreshTokens[t].session

\* A token that was replaced counts as rotated even once it expired.
refreshTokenState(t) ==
  IF refreshTokens[t].next # None THEN "rotated"
  ELSE IF refreshTokens[t].revoked THEN "revoked"
  ELSE IF refreshTokens[t].expired THEN "expired" ELSE "usable"

isActive(s, u) == \E t \in TokensOf(u) : SessionOf(t) = s /\ Live(t) /\ ~refreshTokens[t].expired
ResolveSignedInAccount(u, s) == canSignIn(u) /\ isActive(s, u)

newRefreshToken(u, s) == [user |-> u, session |-> s, revoked |-> FALSE, next |-> None, expired |-> FALSE]
revokeLive(targets) ==
  [t \in TokenIds |-> IF t \in targets /\ Live(t) THEN [refreshTokens[t] EXCEPT !.revoked = TRUE] ELSE refreshTokens[t]]

isUsableLink(link) == link # None /\ link.state = "pending"
PendingOf(links, u) == {l \in Stored(links) : links[l].user = u /\ links[l].state = "pending"}
invalidate(links, targets) ==
  [l \in LinkIds |-> IF l \in targets /\ isUsableLink(links[l]) THEN [links[l] EXCEPT !.state = "invalidated"] ELSE links[l]]
\* Stores a new link for an address, in the place of the pending ones the request saw.
issue(links, targets, u, address) ==
  LET free == {x \in LinkIds : links[x] = None} IN
  {[invalidate(links, targets) EXCEPT ![l] = [user |-> u, sentTo |-> address, state |-> "pending",
                                              crossed |-> account[u].email # address]] :
     l \in {x \in free : \A y \in free : x <= y}}
markUsed(links, l) == [links EXCEPT ![l].state = "used"]
without(rows, u) == [i \in DOMAIN rows |-> IF i \in Stored(rows) /\ rows[i].user = u THEN None ELSE rows[i]]

-----------------------------------------------------------------------------
(* What a request holds: the account it read, and the rows it locked. *)

Holds(p, kind) == job[p].kind = kind
TokenLocked(p, t) == \E q \in Requests \ {p} : job[q].kind \in {"refresh", "reuse"} /\ job[q].item = t
\* Mutant: a link read without FOR UPDATE.
LinkLockedNot(p, kind, l) == FALSE
LinkLocked(p, kind, l) == \E q \in Requests \ {p} : Holds(q, kind) /\ job[q].item = l
RowLocked(p, u) == \E q \in Requests \ {p} : job[q].kind \in Saves /\ job[q].saving /\ job[q].user = u

begin(p, kind, u, item, email, targets) ==
  /\ kind \in offered /\ job[p] = Idle
  /\ job' = [job EXCEPT ![p] = [Idle EXCEPT !.kind = kind, !.user = u, !.item = item, !.email = email, !.targets = targets]]
  /\ UNCHANGED <<tables, history>>

done(p) == [job EXCEPT ![p] = Idle]

\* A request that ends the sessions of a customer outdates what the others read of them.
ends(p, u) == [q \in Requests |-> IF q = p THEN Idle
                                  ELSE IF job[q].user = u THEN [job[q] EXCEPT !.fresh = FALSE, !.outdated = TRUE]
                                  ELSE job[q]]
\* Any other save only makes their copies stale.
saved(p, u) == [q \in Requests |-> IF q = p THEN Idle
                                   ELSE IF job[q].user = u THEN [job[q] EXCEPT !.fresh = FALSE] ELSE job[q]]

-----------------------------------------------------------------------------
(* Sign-up, sign-in and sessions. *)

RegisterCustomer(u, e) ==
  /\ account[u].status = "NONE" /\ \A v \in Users : account[v].email # e
  /\ account' = [account EXCEPT ![u] = [status |-> "ACTIVE", email |-> e, verified |-> FALSE, active |-> TRUE]]
  /\ verifyLinks' \in issue(verifyLinks, {}, u, e)
  /\ UNCHANGED <<book, refreshTokens, lastToken, resetLinks, job, history>>

\* The right password of an account that can sign in; the session is stored later, in a transaction of its own.
signIn(p, u) == canSignIn(u) /\ begin(p, "signIn", u, None, None, {})

signInEnd(p) ==
  LET t == lastToken + 1 u == job[p].user IN
  /\ Holds(p, "signIn") /\ t \in TokenIds /\ ~RowLocked(p, u)
  /\ refreshTokens' = [refreshTokens EXCEPT ![t] = newRefreshToken(u, t)] /\ lastToken' = t
  /\ account' = [account EXCEPT ![u].active = TRUE]
  /\ ended' = ended \cup (IF job[p].outdated THEN {t} ELSE {})
  /\ raced' = raced \cup (IF job[p].outdated THEN {t} ELSE {})
  /\ late' = late \cup (IF account[u].status = "ANONYMIZED" THEN {u} ELSE {})
  /\ job' = done(p)
  /\ UNCHANGED <<book, resetLinks, verifyLinks, proven, crossed, offered>>

\* A renewal locks the token it is given; a rotated one ends its session, any other that is spent does nothing.
refreshSession(p, t) ==
  /\ t \in Stored(refreshTokens) /\ ~TokenLocked(p, t)
  /\ LET u == refreshTokens[t].user IN
     \/ refreshTokenState(t) = "usable" /\ canSignIn(u) /\ begin(p, "refresh", u, t, None, {})
     \/ refreshTokenState(t) = "rotated"
        /\ begin(p, "reuse", u, t, None, {x \in TokensOf(u) : Live(x) /\ SessionOf(x) = SessionOf(t)})

\* recordActivity writes the row of an account without activity for a day.
rotate(p) ==
  LET t == job[p].item u == job[p].user n == lastToken + 1
      missing == {q \in Requests : job[q].kind \in Saves \cup {"reuse", "signOut"} /\ t \in job[q].targets} IN
  /\ Holds(p, "refresh") /\ n \in TokenIds /\ (account[u].active \/ ~RowLocked(p, u))
  /\ refreshTokens' = [refreshTokens EXCEPT ![t].revoked = TRUE, ![t].next = n, ![n] = newRefreshToken(u, SessionOf(t))]
  /\ lastToken' = n
  /\ account' = [account EXCEPT ![u].active = TRUE]
  /\ raced' = raced \cup (IF missing # {} THEN {SessionOf(t)} ELSE {})
  /\ late' = late \cup (IF \E q \in missing : Holds(q, "anonymize") THEN {u} ELSE {})
  /\ job' = done(p)
  /\ UNCHANGED <<book, resetLinks, verifyLinks, ended, proven, crossed, offered>>

signOut(p, u, t) ==
  /\ t \in TokensOf(u) /\ \E s \in TokenIds : ResolveSignedInAccount(u, s)
  /\ begin(p, "signOut", u, SessionOf(t), None, {x \in TokensOf(u) : Live(x) /\ SessionOf(x) = SessionOf(t)})

\* revokeSession waits for the tokens it saw that others hold, and leaves those that were rotated meanwhile.
revokeSession(p) ==
  LET s == IF Holds(p, "reuse") THEN SessionOf(job[p].item) ELSE job[p].item IN
  /\ job[p].kind \in {"reuse", "signOut"}
  /\ \A x \in job[p].targets : ~TokenLocked(p, x)
  /\ refreshTokens' = revokeLive(job[p].targets)
  /\ ended' = ended \cup {s}
  /\ job' = done(p)
  /\ UNCHANGED <<account, book, lastToken, resetLinks, verifyLinks, raced, late, proven, crossed, offered>>

-----------------------------------------------------------------------------
(* Changes of an account: read, checked and changed in memory, then saved. *)

changePassword(p, u, s) == ResolveSignedInAccount(u, s) /\ begin(p, "changePassword", u, s, None, {})

resetPassword(p, l) ==
  /\ isUsableLink(resetLinks[l]) /\ ~LinkLocked(p, "resetPassword", l)
  /\ canSignIn(resetLinks[l].user) /\ begin(p, "resetPassword", resetLinks[l].user, l, None, {})

\* verifyEmail: only the address the account still has.
confirmEmail(p, l) ==
  LET link == verifyLinks[l] IN
  /\ isUsableLink(link) /\ ~LinkLocked(p, "confirmEmail", l)
  /\ canSignIn(link.user) /\ account[link.user].email = link.sentTo
  /\ begin(p, "confirmEmail", link.user, l, link.sentTo, {})

changeEmail(p, u, e) == canSignIn(u) /\ account[u].email # e /\ begin(p, "changeEmail", u, None, e, {})
rectify(p, u) == canSignIn(u) /\ begin(p, "rectify", u, None, None, {})
suspend(p, u) == account[u].status = "ACTIVE" /\ begin(p, "suspend", u, None, None, {})
reactivateCustomer(p, u) == account[u].status = "SUSPENDED" /\ begin(p, "reactivate", u, None, None, {})
anonymize(p, u) == account[u].status \in {"ACTIVE", "SUSPENDED"} /\ begin(p, "anonymize", u, None, None, {})

\* The rows the statement after the save sees: revokeAllOf the live tokens, deleteOf every one.
Targets(p) ==
  CASE job[p].kind \in {"resetPassword", "suspend"} -> {t \in TokensOf(job[p].user) : Live(t)}
    [] Holds(p, "changePassword") -> {t \in TokensOf(job[p].user) : Live(t) /\ SessionOf(t) # job[p].item}
    [] Holds(p, "anonymize") -> TokensOf(job[p].user)
    [] OTHER -> {}

Unchanged(p) == job[p].fresh
\* save updates the row if its version is the one that was read, and holds it until the commit.
save(p) ==
  /\ job[p].kind \in Saves /\ ~job[p].saving /\ ~RowLocked(p, job[p].user)
  /\ \A q \in Requests \ {p} : job[q].saving /\ job[q].email = job[p].email => job[q].email = None
  /\ IF Unchanged(p) /\ (Holds(p, "changeEmail") => \A v \in Users : account[v].email # job[p].email)
     THEN job' = [job EXCEPT ![p].saving = TRUE, ![p].targets = Targets(p)]
     ELSE job' = done(p)   \* VersionConflictError, DuplicateValueError
  /\ UNCHANGED <<tables, history>>

\* The job of inactive accounts locks the row and looks again.
anonymizeInactive(p, u) ==
  /\ "anonymize" \in offered /\ job[p] = Idle /\ ~RowLocked(p, u)
  /\ account[u].status \in {"ACTIVE", "SUSPENDED"} /\ ~account[u].active
  /\ job' = [job EXCEPT ![p] = [Idle EXCEPT !.kind = "anonymize", !.user = u, !.saving = TRUE, !.targets = TokensOf(u)]]
  /\ UNCHANGED <<tables, history>>

Commits(p, kind) == Holds(p, kind) /\ job[p].saving /\ \A x \in job[p].targets : ~TokenLocked(p, x)

\* revokeAllOf, but for one session.
revokeAllOf(p, except) ==
  LET u == job[p].user IN
  /\ refreshTokens' = revokeLive(job[p].targets)
  /\ ended' = ended \cup ({SessionOf(t) : t \in TokensOf(u)} \ {except})
  /\ job' = ends(p, u)
  /\ UNCHANGED <<book, lastToken, verifyLinks, raced, late, offered>>

commitChangePassword(p) ==
  /\ Commits(p, "changePassword") /\ revokeAllOf(p, job[p].item)
  /\ UNCHANGED <<account, resetLinks, proven, crossed>>

\* A recovery also verifies the email of the account, whatever it is.
commitResetPassword(p) ==
  LET u == job[p].user l == job[p].item IN
  /\ Commits(p, "resetPassword") /\ revokeAllOf(p, None)
  /\ account' = [account EXCEPT ![u].verified = TRUE]
  /\ resetLinks' = markUsed(resetLinks, l)
  /\ proven' = proven \cup {<<u, resetLinks[l].sentTo>>}
  /\ crossed' = crossed \cup (IF resetLinks[l].crossed THEN {u} ELSE {})

commitSuspend(p) ==
  /\ Commits(p, "suspend") /\ revokeAllOf(p, None)
  /\ account' = [account EXCEPT ![job[p].user].status = "SUSPENDED"]
  /\ UNCHANGED <<resetLinks, proven, crossed>>

commitReactivate(p) ==
  /\ Commits(p, "reactivate") /\ job' = saved(p, job[p].user)
  /\ account' = [account EXCEPT ![job[p].user].status = "ACTIVE"]
  /\ UNCHANGED <<book, refreshTokens, lastToken, resetLinks, verifyLinks, history>>

commitRectify(p) ==
  /\ Commits(p, "rectify") /\ job' = saved(p, job[p].user)
  /\ UNCHANGED <<tables, history>>

commitConfirmEmail(p) ==
  LET u == job[p].user l == job[p].item IN
  /\ Commits(p, "confirmEmail") /\ job' = saved(p, u)
  /\ account' = [account EXCEPT ![u].verified = TRUE]
  /\ verifyLinks' = markUsed(verifyLinks, l)
  /\ proven' = proven \cup {<<u, verifyLinks[l].sentTo>>}
  /\ UNCHANGED <<book, refreshTokens, lastToken, resetLinks, ended, raced, late, crossed, offered>>

\* Pending links went to the previous address: those of recovery stop working, the new one gets its own.
commitChangeEmail(p) ==
  LET u == job[p].user IN
  /\ Commits(p, "changeEmail") /\ job' = saved(p, u)
  /\ \A l \in PendingOf(resetLinks, u) : ~LinkLocked(p, "resetPassword", l)
  /\ \A l \in PendingOf(verifyLinks, u) : ~LinkLocked(p, "confirmEmail", l)
  /\ account' = [account EXCEPT ![u].email = job[p].email, ![u].verified = FALSE]
  /\ verifyLinks' \in issue(verifyLinks, PendingOf(verifyLinks, u), u, job[p].email)
  /\ resetLinks' = invalidate(resetLinks, PendingOf(resetLinks, u))
  /\ proven' = {x \in proven : x[1] # u} /\ crossed' = crossed \ {u}
  /\ UNCHANGED <<book, refreshTokens, lastToken, ended, raced, late, offered>>

\* deleteOf: the tokens it saw, the links and the addresses.
deleteOf(p, u) ==
  /\ \A q \in Requests : job[q].user = u => job[q].kind \notin {"resetPassword", "confirmEmail"}   \* it waits for their links
  /\ refreshTokens' = [t \in TokenIds |-> IF t \in job[p].targets THEN None ELSE refreshTokens[t]]
  /\ resetLinks' = without(resetLinks, u) /\ verifyLinks' = without(verifyLinks, u)
  /\ book' = [book EXCEPT ![u] = [saved |-> {}, default |-> None]]

commitAnonymize(p) ==
  LET u == job[p].user IN
  /\ Commits(p, "anonymize") /\ deleteOf(p, u)
  /\ account' = [account EXCEPT ![u].status = "ANONYMIZED", ![u].email = None, ![u].verified = FALSE]
  /\ ended' = ended \cup {SessionOf(t) : t \in TokensOf(u)}
  /\ job' = ends(p, u)
  /\ UNCHANGED <<lastToken, raced, late, proven, crossed, offered>>

\* Two requests wait for each other: p for the row of the account that q saved, q for the token or link p locked.
WaitsForRow(p, q) ==
  /\ job[q].kind \in Saves /\ job[q].saving /\ job[p].user = job[q].user
  /\ \/ job[p].kind \in Saves /\ ~job[p].saving
     \/ Holds(p, "refresh") /\ ~account[job[p].user].active
WaitsForLock(q, p) ==
  \/ Holds(p, "refresh") /\ job[p].item \in job[q].targets
  \/ /\ job[q].kind \in {"changeEmail", "anonymize"}
     /\ job[p].kind \in {"resetPassword", "confirmEmail"}

\* PostgreSQL breaks the circle by undoing one of them.
abortDeadlocked(p, q) ==
  /\ WaitsForRow(p, q) /\ WaitsForLock(q, p)
  /\ \E victim \in {p, q} : job' = done(victim)
  /\ UNCHANGED <<tables, history>>

-----------------------------------------------------------------------------
(* Links asked for, addresses, the clock and the cleanup. *)

requestPasswordReset(p, u) ==
  canSignIn(u) /\ begin(p, "requestReset", u, None, account[u].email, PendingOf(resetLinks, u))

requestPasswordResetEnd(p) ==
  LET u == job[p].user IN
  /\ Holds(p, "requestReset") /\ \A l \in job[p].targets : ~LinkLocked(p, "resetPassword", l)
  /\ resetLinks' \in issue(resetLinks, job[p].targets, u, job[p].email)
  /\ late' = late \cup (IF account[u].status = "ANONYMIZED" THEN {u} ELSE {})
  /\ job' = done(p)
  /\ UNCHANGED <<account, book, refreshTokens, lastToken, verifyLinks, ended, raced, proven, crossed, offered>>

resendEmailVerification(p, u) ==
  canSignIn(u) /\ ~account[u].verified
  /\ begin(p, "resendVerification", u, None, account[u].email, PendingOf(verifyLinks, u))

resendEmailVerificationEnd(p) ==
  LET u == job[p].user IN
  /\ Holds(p, "resendVerification") /\ \A l \in job[p].targets : ~LinkLocked(p, "confirmEmail", l)
  /\ verifyLinks' \in issue(verifyLinks, job[p].targets, u, job[p].email)
  /\ late' = late \cup (IF account[u].status = "ANONYMIZED" THEN {u} ELSE {})
  /\ job' = done(p)
  /\ UNCHANGED <<account, book, refreshTokens, lastToken, resetLinks, ended, raced, proven, crossed, offered>>

\* The request was signed in when it came; the book locks the row of the customer, whatever its status.
addAddress(p, u, s) == ResolveSignedInAccount(u, s) /\ begin(p, "addAddress", u, s, None, {})


addAddressEnd(p, a, makeDefault) ==
  LET u == job[p].user IN
  /\ Holds(p, "addAddress") /\ ~RowLocked(p, u)
  /\ IF a \notin book[u].saved /\ Cardinality(book[u].saved) < AddressLimit
     THEN /\ book' = [book EXCEPT ![u] =
               [saved |-> @.saved \cup {a}, default |-> IF @.saved = {} \/ makeDefault THEN a ELSE @.default]]
          /\ late' = late \cup (IF account[u].status = "ANONYMIZED" THEN {u} ELSE {})
     ELSE UNCHANGED <<book, late>>
  /\ job' = done(p)
  /\ UNCHANGED <<account, refreshTokens, lastToken, resetLinks, verifyLinks, ended, raced, proven, crossed, offered>>

updateAddress(u, a, makeDefault) ==
  /\ a \in book[u].saved /\ \E s \in TokenIds : ResolveSignedInAccount(u, s)
  /\ book' = [book EXCEPT ![u].default = IF makeDefault THEN a ELSE IF @ = a THEN None ELSE @]
  /\ UNCHANGED <<account, refreshTokens, lastToken, resetLinks, verifyLinks, job, history>>

removeAddress(u, a) ==
  /\ a \in book[u].saved /\ \E s \in TokenIds : ResolveSignedInAccount(u, s)
  /\ book' = [book EXCEPT ![u] = [saved |-> @.saved \ {a}, default |-> IF @.default = a THEN None ELSE @.default]]
  /\ UNCHANGED <<account, refreshTokens, lastToken, resetLinks, verifyLinks, job, history>>

\* Time: a token or a link expires, or a customer has been inactive for long.
expire ==
  /\ "expire" \in offered
  /\ \/ \E t \in Stored(refreshTokens) :
          /\ ~refreshTokens[t].expired /\ refreshTokens' = [refreshTokens EXCEPT ![t].expired = TRUE]
          /\ UNCHANGED <<account, resetLinks, verifyLinks>>
     \/ \E l \in LinkIds :
          /\ isUsableLink(resetLinks[l]) /\ ~LinkLocked(None, "resetPassword", l)
          /\ resetLinks' = [resetLinks EXCEPT ![l].state = "expired"]
          /\ UNCHANGED <<account, refreshTokens, verifyLinks>>
     \/ \E l \in LinkIds :
          /\ isUsableLink(verifyLinks[l]) /\ ~LinkLocked(None, "confirmEmail", l)
          /\ verifyLinks' = [verifyLinks EXCEPT ![l].state = "expired"]
          /\ UNCHANGED <<account, refreshTokens, resetLinks>>
     \/ \E u \in Users :
          /\ account[u].active /\ account' = [account EXCEPT ![u].active = FALSE]
          /\ UNCHANGED <<refreshTokens, resetLinks, verifyLinks>>
  /\ UNCHANGED <<book, lastToken, job, history>>

deleteRefreshTokens ==
  /\ "cleanUp" \in offered
  /\ \E t \in Stored(refreshTokens) :
       /\ refreshTokens[t].revoked \/ refreshTokens[t].expired
       /\ \A p \in Requests : job[p].kind \in {"refresh", "reuse"} => job[p].item # t
       /\ refreshTokens' = [refreshTokens EXCEPT ![t] = None]
  /\ UNCHANGED <<account, book, lastToken, resetLinks, verifyLinks, job, history>>

deleteSpentLinks ==
  /\ "cleanUp" \in offered
  /\ \/ \E l \in Stored(resetLinks) : ~isUsableLink(resetLinks[l]) /\ resetLinks' = [resetLinks EXCEPT ![l] = None]
                                      /\ UNCHANGED verifyLinks
     \/ \E l \in Stored(verifyLinks) : ~isUsableLink(verifyLinks[l]) /\ verifyLinks' = [verifyLinks EXCEPT ![l] = None]
                                       /\ UNCHANGED resetLinks
  /\ UNCHANGED <<account, book, refreshTokens, lastToken, job, history>>

-----------------------------------------------------------------------------
RequestStep(p) ==
  \/ \E u \in Users : signIn(p, u) \/ rectify(p, u) \/ suspend(p, u) \/ reactivateCustomer(p, u) \/ anonymize(p, u)
                      \/ anonymizeInactive(p, u) \/ requestPasswordReset(p, u) \/ resendEmailVerification(p, u)
                      \/ \E e \in Emails : changeEmail(p, u, e)
                      \/ \E s \in TokenIds : changePassword(p, u, s) \/ addAddress(p, u, s) \/ signOut(p, u, s)
  \/ \E t \in TokenIds : refreshSession(p, t)
  \/ \E l \in LinkIds : resetPassword(p, l) \/ confirmEmail(p, l)
  \/ signInEnd(p) \/ rotate(p) \/ revokeSession(p) \/ save(p)
  \/ commitChangePassword(p) \/ commitResetPassword(p) \/ commitSuspend(p) \/ commitReactivate(p)
  \/ commitRectify(p) \/ commitConfirmEmail(p) \/ commitChangeEmail(p) \/ commitAnonymize(p)
  \/ requestPasswordResetEnd(p) \/ resendEmailVerificationEnd(p)
  \/ \E a \in AddressIds, d \in BOOLEAN : addAddressEnd(p, a, d)
  \/ \E q \in Requests \ {p} : abortDeadlocked(p, q)

AccountsNext ==
  \/ \E u \in Users, e \in Emails : RegisterCustomer(u, e)
  \/ \E u \in Users, a \in AddressIds : removeAddress(u, a) \/ \E d \in BOOLEAN : updateAddress(u, a, d)
  \/ \E p \in Requests : RequestStep(p)
  \/ expire \/ deleteRefreshTokens \/ deleteSpentLinks

AccountsSpec == AccountsInit /\ [][AccountsNext]_accountsVars

-----------------------------------------------------------------------------
(* Properties. *)


\* A session has one live refresh token at most: of two renewals with the same token, one gets the next one.
OneLiveToken ==
  \A t, x \in TokenIds : Live(t) /\ Live(x) /\ SessionOf(t) = SessionOf(x) => t = x

\* Signing out, reusing a rotated token, a suspension, a new password: the sessions they end have no live token,
\* but for those that a sign-in or a renewal in progress was opening.
EndedUnlessRaced == \A t \in TokenIds : Live(t) => SessionOf(t) \notin ended \ raced

\* They are over without exception.
RevokedForGood == \A t \in TokenIds : Live(t) => SessionOf(t) \notin ended

\* An address counts as verified only if its owner used a link sent to it since it was set, or recovered the account
\* with a link that was being issued when the email changed.
VerifiedIsProven ==
  \A u \in Users : account[u].verified => <<u, account[u].email>> \in proven \/ u \in crossed

\* Anonymizing leaves no session, link or address behind, but what a request in progress adds after it.
AnonymizedLeavesNothing ==
  \A u \in Users : account[u].status = "ANONYMIZED" /\ u \notin late =>
    /\ TokensOf(u) = {} /\ book[u].saved = {}
    /\ \A l \in LinkIds : (resetLinks[l] # None => resetLinks[l].user # u)
                          /\ (verifyLinks[l] # None => verifyLinks[l].user # u)

\* A link that was used, replaced or expired never works again.
LinksAreSpent ==
  [][\A l \in LinkIds :
       /\ resetLinks[l] # None /\ resetLinks[l].state # "pending" => resetLinks'[l] \in {resetLinks[l], None}
       /\ verifyLinks[l] # None /\ verifyLinks[l].state # "pending" => verifyLinks'[l] \in {verifyLinks[l], None}]_accountsVars

\* No copy of an account read earlier brings back what was anonymized, or a suspended account but by a reactivation.
AnonymizedIsFinal ==
  [][\A u \in Users :
       /\ account[u].status = "ANONYMIZED" => account'[u].status = "ANONYMIZED" /\ account'[u].email = None
                                               /\ ~account'[u].verified
       /\ account[u].status = "SUSPENDED" /\ account'[u].status = "ACTIVE" =>
            \E p \in Requests : Holds(p, "reactivate") /\ job'[p] = Idle]_accountsVars

\* A session has one live token, and the ended ones have none but by a request that was opening it.
SessionsEnd == OneLiveToken /\ EndedUnlessRaced

\* An account keeps what its owner proved, spends its links once and stays anonymized, and its sessions end.
AccountsHold == [](AccountsTypeOK /\ SessionsEnd /\ VerifiedIsProven /\ AnonymizedLeavesNothing) /\ LinksAreSpent /\ AnonymizedIsFinal
=============================================================================
