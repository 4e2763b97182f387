------------------------------- MODULE Accounts -------------------------------
(***************************************************************************)
(* What an account keeps outside of its rows: the codes mailed to one      *)
(* address, in Redis, and the files of its pictures, in storage.  Every    *)
(* request reads, waits for the mail server, Redis or the disk, and then   *)
(* writes what it made of what it read.  A request never learns whether    *)
(* Redis did what it was asked to: RedisCacheProvider answers a read that  *)
(* fails with nothing, and a write that fails, or that its open circuit    *)
(* keeps back, like one that was done.                                     *)
(*                                                                         *)
(*   register  idle --Register--> hashed --KeepNew--> mailing --> idle     *)
(*   resend    idle --Resend--> renewing --KeepRenewed--> remailing -->    *)
(*             idle                                                        *)
(*   verify    idle --Guess--> spent | wrong | right --> idle              *)
(*   picture   idle --Upload--> read --Save--> saved --RecordKey-->        *)
(*             recorded --DeleteFile--> idle                               *)
(***************************************************************************)
EXTENDS Naturals, FiniteSets

CONSTANTS
  Client,       \* requests about one address
  Painter,      \* requests about one picture
  MaxCodes,     \* bound: codes, numbered as they are made
  MaxDelayed,   \* bound: writes on their way to Redis after they were given up
  MaxFiles,     \* bound: files saved, numbered as they are saved
  MaxNow,       \* bound: the clock
  Ttl,          \* how long a code is good
  Cooldown,     \* how long a client waits before asking for the next code
  MaxRequests,  \* MAX_REQUESTS: codes of one flow
  MaxAttempts   \* MAX_ATTEMPTS: wrong guesses of one code

ASSUME AccountBounds ==
  /\ MaxCodes \in Nat /\ MaxDelayed \in Nat /\ MaxFiles \in Nat /\ MaxNow \in Nat
  /\ Ttl \in Nat \ {0} /\ Cooldown \in Nat /\ MaxRequests \in Nat \ {0} /\ MaxAttempts \in Nat

VARIABLES
  now,       \* the clock
  account,   \* users and customer_profile: "none" or "open"
  pending,   \* Redis: what is kept for each purpose, if anything is
  delayed,   \* writes that were given up and may be done still
  unsure,    \* purposes a write for which was given up, came late or crossed
             \* another request's, and neither a new flow's code nor a deletion
             \* was done since by a request that was alone
  codes,     \* codes made so far
  mailed,    \* the code the mail server took last for each purpose
  client,    \* per client: how far its request is, what it read or wrote
  picture,   \* the row: of a customer_profile, a users or a tenant
  image,     \* the key in the picture's row, 0 for none
  files,     \* the files there are
  saves,     \* files saved so far
  painter    \* per painter: how far its request is, the key it read, its own

codeVars == <<now, account, pending, delayed, unsure, codes, mailed, client>>
keptVars == <<pending, delayed, unsure>>
pictureVars == <<picture, image, files, saves, painter>>
accountVars == <<codeVars, pictureVars>>

-----------------------------------------------------------------------------
(* Codes *)

Purpose == {"registration", "password-reset"}

\* PendingRegistration, PendingPasswordReset; `dies` is when Redis drops it.
PendingOtp == [code: 1 .. MaxCodes, attempts: 0 .. MaxAttempts, count: 1 .. MaxRequests,
               sent: Nat, expires: Nat, dies: Nat]

ClientState == [step: {"idle", "hashed", "mailing", "renewing", "remailing", "spent", "wrong",
                     "right", "changed"},
                purpose: Purpose, read: SUBSET PendingOtp]

NoRequest == [step |-> "idle", purpose |-> "registration", read |-> {}]

\* A SET or an UNLINK; an entry's time to live counts from when it arrives.
Write == [purpose: Purpose, entries: SUBSET PendingOtp]

\* What Redis holds: nothing that has expired.
Kept(p) == {e \in pending[p] : now < e.dies}

\* get: what Redis holds, or nothing when it fails.
Reads(p) == {Kept(p), {}}

\* Math.max(1, ceil(expiresAt - now)) more seconds.
RemainingTtl(e) == IF now < e.expires THEN e.expires ELSE now + 1

Fresh == [code |-> codes + 1, attempts |-> 0, count |-> 1, sent |-> now,
          expires |-> now + Ttl, dies |-> now + Ttl]

Goes(c, step, p, read) ==
  client' = [client EXCEPT ![c] = [step |-> step, purpose |-> p, read |-> read]]

Ends(c) == client' = [client EXCEPT ![c] = NoRequest]

\* Whether no other request is open for the same purpose.
Alone(c) ==
  \A d \in Client \ {c} : client[d].step = "idle" \/ client[d].purpose # client[c].purpose

Holds(p, entries) == pending' = [pending EXCEPT ![p] = entries]

SecondsLeft(e) == IF now < e.dies THEN e.dies - now ELSE 1

OnItsWay(p, entries) ==
  [purpose |-> p, entries |-> {[e EXCEPT !.dies = SecondsLeft(e)] : e \in entries}]

\* The error is logged: the write was not done, was done all the same, or will be.
GivenUp(p, entries) ==
  \/ UNCHANGED <<pending, delayed>>
  \/ Holds(p, entries) /\ UNCHANGED delayed
  \/ /\ Cardinality(delayed) < MaxDelayed
     /\ delayed' = delayed \cup {OnItsWay(p, entries)}
     /\ UNCHANGED pending

\* set, del: the request goes on whatever Redis answers.
Keep(c, entries, settled) == LET p == client[c].purpose IN
  \/ /\ Holds(p, entries) /\ UNCHANGED delayed
     /\ unsure' = IF Alone(c) THEN unsure \ settled ELSE unsure \cup {p}
  \/ GivenUp(p, entries) /\ unsure' = unsure \cup {p}

Set(c, e) == Keep(c, {e}, {})
SetNew(c, e) == Keep(c, {e}, {client[c].purpose})
Del(c) == Keep(c, {}, {client[c].purpose})

CodesInit ==
  /\ now = 0
  /\ account = "none"
  /\ pending = [p \in Purpose |-> {}]
  /\ delayed = {} /\ unsure = {}
  /\ codes = 0
  /\ mailed = [p \in Purpose |-> 0]
  /\ client = [c \in Client |-> NoRequest]

Tick ==
  /\ now < MaxNow
  /\ now' = now + 1
  /\ UNCHANGED <<account, keptVars, codes, mailed, client, pictureVars>>

\* A write that was queued, or whose answer was waited for in vain.
ArrivesLate == \E w \in delayed :
  /\ Holds(w.purpose, {[e EXCEPT !.dies = now + @] : e \in w.entries})
  /\ delayed' = delayed \ {w}
  /\ unsure' = unsure \cup {w.purpose}
  /\ UNCHANGED <<now, account, codes, mailed, client, pictureVars>>

\* register: an address that has an account is refused.
Register(c) ==
  /\ client[c].step = "idle" /\ account = "none"
  /\ Goes(c, "hashed", "registration", {})
  /\ UNCHANGED <<now, account, keptVars, codes, mailed, pictureVars>>

\* forgotPassword: one that has none, or has a code, is answered the same.
ForgotPassword(c) ==
  /\ client[c].step = "idle" /\ account = "open" /\ {} \in Reads("password-reset")
  /\ Goes(c, "hashed", "password-reset", {})
  /\ UNCHANGED <<now, account, keptVars, codes, mailed, pictureVars>>

KeepNew(c) ==
  /\ client[c].step = "hashed" /\ codes < MaxCodes
  /\ codes' = codes + 1
  /\ SetNew(c, Fresh)
  /\ Goes(c, "mailing", client[c].purpose, {Fresh})
  /\ UNCHANGED <<now, account, mailed, pictureVars>>

Mailing(c, p) == client[c].step \in {"mailing", "remailing"} /\ client[c].purpose = p

Mails(c, steps) ==
  /\ client[c].step \in steps
  /\ \E e \in client[c].read : mailed' = [mailed EXCEPT ![client[c].purpose] = e.code]
  /\ Ends(c)
  /\ UNCHANGED <<now, account, keptVars, codes, pictureVars>>

\* sendOtpEmail, sendPasswordResetOtpEmail
SendOtpEmail(c) == Mails(c, {"mailing"})

\* The mail server refuses: the key goes, whatever it holds by now.
MailFails(c) ==
  /\ client[c].step = "mailing"
  /\ Del(c)
  /\ Ends(c)
  /\ UNCHANGED <<now, account, codes, mailed, pictureVars>>

\* resendOtp: the registration that Redis answers comes before the password reset.
Resend(c) == \E p \in Purpose : \E e \in Kept(p) :
  /\ client[c].step = "idle"
  /\ p = "registration" \/ {} \in Reads("registration")
  /\ e.count < MaxRequests /\ e.sent + Cooldown <= now
  /\ Goes(c, "renewing", p, {e})
  /\ UNCHANGED <<now, account, keptVars, codes, mailed, pictureVars>>

Renewed(e) == [Fresh EXCEPT !.count = e.count + 1]

KeepRenewed(c) == \E e \in client[c].read :
  /\ client[c].step = "renewing" /\ codes < MaxCodes
  /\ codes' = codes + 1
  /\ Set(c, Renewed(e))
  /\ Goes(c, "remailing", client[c].purpose, {e, Renewed(e)})
  /\ UNCHANGED <<now, account, mailed, pictureVars>>

Older(c) == {e \in client[c].read : \A f \in client[c].read : e.code <= f.code}

Resent(c) ==
  /\ client[c].step = "remailing"
  /\ \E e \in client[c].read \ Older(c) : mailed' = [mailed EXCEPT ![client[c].purpose] = e.code]
  /\ Ends(c)
  /\ UNCHANGED <<now, account, keptVars, codes, pictureVars>>

LeavesRenewed(c) == client[c].read \ Older(c)

\* The entry that was read comes back for what was left of its time.
Restored(c) == {[e EXCEPT !.dies = RemainingTtl(e)] : e \in Older(c)}

ResendFails(c) ==
  /\ client[c].step = "remailing"
  /\ \E e \in Restored(c) : Set(c, e)
  /\ Ends(c)
  /\ UNCHANGED <<now, account, codes, mailed, pictureVars>>

\* verifyOtp, resetPassword: the code that was guessed too often is "spent".
Guess(c) == \E p \in Purpose, step \in {"spent", "wrong", "right"} : \E e \in Kept(p) :
  /\ client[c].step = "idle"
  /\ step = "spent" <=> e.attempts >= MaxAttempts
  /\ Goes(c, step, p, {e})
  /\ UNCHANGED <<now, account, keptVars, codes, mailed, pictureVars>>

DropSpent(c) ==
  /\ client[c].step = "spent"
  /\ Del(c)
  /\ Ends(c)
  /\ UNCHANGED <<now, account, codes, mailed, pictureVars>>

CountAttempt(c) == \E e \in client[c].read :
  /\ client[c].step = "wrong"
  /\ Set(c, [e EXCEPT !.attempts = @ + 1, !.dies = RemainingTtl(e)])
  /\ Ends(c)
  /\ UNCHANGED <<now, account, codes, mailed, pictureVars>>

\* The user and the profile are one transaction, the key goes in it: the code
\* stays when the rows cannot be made, and is gone when only the commit fails.
VerifyOtp(c) ==
  /\ client[c].step = "right" /\ client[c].purpose = "registration"
  /\ \/ account = "none" /\ account' \in {"none", "open"} /\ Del(c)
     \/ UNCHANGED <<account, keptVars>>
  /\ Ends(c)
  /\ UNCHANGED <<now, codes, mailed, pictureVars>>

\* updatePasswordAndRevokeSessions; the new password must not be the old one,
\* and the code stays when it is.
UpdatePassword(c) == \E changes \in BOOLEAN :
  /\ client[c].step = "right" /\ client[c].purpose = "password-reset"
  /\ IF changes THEN Goes(c, "changed", "password-reset", {}) ELSE Ends(c)
  /\ UNCHANGED <<now, account, keptVars, codes, mailed, pictureVars>>

\* The code of the new password goes after it.
ResetPassword(c) ==
  /\ client[c].step = "changed"
  /\ Del(c)
  /\ Ends(c)
  /\ UNCHANGED <<now, account, codes, mailed, pictureVars>>

CustomerController(c) ==
  \/ Register(c) \/ ForgotPassword(c) \/ KeepNew(c) \/ SendOtpEmail(c) \/ MailFails(c)
  \/ Resend(c) \/ KeepRenewed(c) \/ Resent(c) \/ ResendFails(c)
  \/ Guess(c) \/ DropSpent(c) \/ CountAttempt(c) \/ VerifyOtp(c)
  \/ UpdatePassword(c) \/ ResetPassword(c)

CodesNext == Tick \/ ArrivesLate \/ \E c \in Client : CustomerController(c)

-----------------------------------------------------------------------------
(* Pictures *)

File == 1 .. MaxFiles

PainterState == [step: {"idle", "read", "saved", "recorded", "undone", "removing",
                        "showing"},
                 old: 0 .. MaxFiles, new: 0 .. MaxFiles]

NoPainting == [step |-> "idle", old |-> 0, new |-> 0]

Paints(a, step, old, new) ==
  painter' = [painter EXCEPT ![a] = [step |-> step, old |-> old, new |-> new]]

PicturesInit ==
  /\ picture \in {"profile", "avatar", "logo"}
  /\ image = 0
  /\ files = {}
  /\ saves = 0
  /\ painter = [a \in Painter |-> NoPainting]

\* uploadProfileImage, upload, uploadLogo: the key there is now is read first;
\* a logo's is not, and stays.
Upload(a) ==
  /\ painter[a].step = "idle"
  /\ Paints(a, "read", IF picture = "logo" THEN 0 ELSE image, 0)
  /\ UNCHANGED <<picture, image, files, saves, codeVars>>

\* save: a file under a name of its own, or none.
Save(a) ==
  /\ painter[a].step = "read" /\ saves < MaxFiles
  /\ \/ /\ saves' = saves + 1
        /\ files' = files \cup {saves'}
        /\ Paints(a, "saved", painter[a].old, saves')
     \/ Paints(a, "idle", 0, 0) /\ UNCHANGED <<files, saves>>
  /\ UNCHANGED <<picture, image, codeVars>>

\* updateProfileImageKey
RecordKey(a) ==
  /\ painter[a].step = "saved"
  /\ image' = painter[a].new
  /\ Paints(a, "recorded", painter[a].old, 0)
  /\ UNCHANGED <<picture, files, saves, codeVars>>

\* The row is not written: the file that was saved goes.
RecordFails(a) ==
  /\ painter[a].step = "saved"
  /\ Paints(a, "undone", painter[a].new, 0)
  /\ UNCHANGED <<picture, image, files, saves, codeVars>>

\* remove
Remove(a) ==
  /\ painter[a].step = "idle" /\ image # 0
  /\ Paints(a, "removing", image, 0)
  /\ UNCHANGED <<picture, image, files, saves, codeVars>>

ClearKey(a) ==
  /\ painter[a].step = "removing"
  /\ image' = 0
  /\ Paints(a, "recorded", painter[a].old, 0)
  /\ UNCHANGED <<picture, files, saves, codeVars>>

DeletesAtOnce(a) == painter[a].step \in {"recorded", "undone", "removing"}

\* delete comes after the row has its new key.
MayDelete(a) == painter[a].step \in {"recorded", "undone"}

\* A file that is gone already is no failure, and a failure is not one either.
DeleteFile(a) ==
  /\ MayDelete(a)
  /\ files' \in {files \ {painter[a].old}, files}
  /\ Paints(a, IF painter[a].step = "removing" THEN "removing" ELSE "idle", 0, 0)
  /\ UNCHANGED <<picture, image, saves, codeVars>>

\* The process is stopped: rows and files stay as they are.
Stopped(a) ==
  /\ painter[a].step # "idle"
  /\ Paints(a, "idle", 0, 0)
  /\ UNCHANGED <<picture, image, files, saves, codeVars>>

\* getStream, getProfileImage: the key first, then its file, if it is there yet.
GetStream(a) ==
  /\ painter[a].step = "idle" /\ image # 0
  /\ Paints(a, "showing", image, 0)
  /\ UNCHANGED <<picture, image, files, saves, codeVars>>

Get(a) ==
  /\ painter[a].step = "showing"
  /\ Paints(a, "idle", 0, 0)
  /\ UNCHANGED <<picture, image, files, saves, codeVars>>

ProfileController(a) == picture = "avatar" /\ (Upload(a) \/ Remove(a) \/ GetStream(a))
CustomerImage(a) == picture = "profile" /\ (Upload(a) \/ GetStream(a))
TenantLogo(a) == picture = "logo" /\ Upload(a)

LocalStorageProvider(a) == Save(a) \/ DeleteFile(a) \/ Get(a)

PicturesNext == \E a \in Painter :
  \/ ProfileController(a) \/ CustomerImage(a) \/ TenantLogo(a) \/ LocalStorageProvider(a)
  \/ RecordKey(a) \/ RecordFails(a) \/ ClearKey(a) \/ Stopped(a)

PicturesSpec == PicturesInit /\ [][PicturesNext]_pictureVars
-----------------------------------------------------------------------------

AccountsInit == CodesInit /\ PicturesInit
AccountsNext == CodesNext \/ PicturesNext
AccountsSpec == AccountsInit /\ [][AccountsNext]_accountVars

\* While no code is between Redis and the mail server, what is kept for a
\* purpose, if anything, has the code that was mailed last for it, through
\* registering again, resending, wrong guesses, reads that Redis fails, a mail
\* server that refuses and an entry that has expired meanwhile; unless a write
\* for this purpose failed, came late or crossed another request.  That is made
\* good by the next new flow's code, or the next deletion, that Redis answers to
\* a request that is alone.
LastMailedCodeCounts == \A p \in Purpose \ unsure :
  (\A c \in Client : ~Mailing(c, p)) => \A e \in pending[p] : e.code = mailed[p]

\* The picture a row points at is there, whatever uploads, removals, failures
\* and restarts crossed.
PictureIsThere == image # 0 => image \in files

=============================================================================
