------------------------------- MODULE Kept_proofs -------------------------------
(***************************************************************************)
(* What holds of the things kept outside of the rows, for any number of    *)
(* requests, files, codes, keys and commands.                              *)
(*                                                                         *)
(* Pictures: keys are never used twice, and that is what the argument      *)
(* rests on.  The key a request has saved and not recorded yet is above    *)
(* every key that any other read (SavedInv), so no other request will      *)
(* delete its file; and a request that may delete comes after the row left *)
(* its key (DeletesInv), which the row therefore never takes again.        *)
(*                                                                         *)
(* Codes: where no write has failed, come late or crossed another, what an *)
(* open request has read is what there is (ReliesInv): it mails the entry  *)
(* it kept, or puts back one with the code that was mailed; one code at    *)
(* most is being mailed (MailingInv), and where none is, the entry has the *)
(* code mailed last (SettledInv).                                          *)
(*                                                                         *)
(* Caches: an old version under a key is the row a command has written and *)
(* not evicted yet, or has an excuse; to keep that, a call that stores     *)
(* must know whether what it loaded has been overtaken (LoadsInv), a SCAN  *)
(* must have seen the key it is about or left it accounted for (ScanInv),  *)
(* and two commands are never about one row (ApartInv).  That no row is    *)
(* missing from an answer rests on what each step of a call knows of the   *)
(* rows it was asked for (HitsInv, PresentInv, AnswersInv), and of the     *)
(* calls that may take a stored null for an answer (NullsInv).             *)
(***************************************************************************)
EXTENDS Accounts, CacheLayers, TLAPS

-----------------------------------------------------------------------------
(* Pictures *)

Key == 0 .. MaxFiles

PicturesTypeOK ==
  /\ image \in Key
  /\ files \subseteq File
  /\ saves \in Key
  /\ painter \in [Painter -> PainterState]

\* No key is in use before it was given out.
KeysInv ==
  /\ image <= saves
  /\ \A a \in Painter : painter[a].old <= saves /\ painter[a].new <= saves

\* A file that was saved and not recorded belongs to one request.
SavedInv ==
  \A a \in Painter : painter[a].step = "saved" =>
    /\ painter[a].new \in files
    /\ painter[a].new # image
    /\ \A b \in Painter :
         /\ painter[b].old # painter[a].new
         /\ b # a /\ painter[b].step = "saved" => painter[b].new # painter[a].new

\* What may be deleted is not what the row points at.
DeletesInv ==
  \A a \in Painter : MayDelete(a) => painter[a].old = 0 \/ painter[a].old # image

\* The inductive invariant.
PicturesInv == PicturesTypeOK /\ KeysInv /\ SavedInv /\ DeletesInv /\ PictureIsThere

LEMMA PicturesInitHolds == PicturesInit => PicturesInv
BY AccountBounds DEF PicturesInit, NoPainting, PicturesInv, PicturesTypeOK, Key, PainterState,
   KeysInv, SavedInv, DeletesInv, MayDelete, PictureIsThere

\* What Paints leaves of the other requests.
LEMMA PaintsOne ==
  ASSUME PicturesTypeOK, NEW a \in Painter, NEW step, NEW old \in Key, NEW new \in Key,
         step \in {"idle", "read", "saved", "recorded", "undone", "removing", "showing"},
         Paints(a, step, old, new)
  PROVE  /\ painter' \in [Painter -> PainterState]
         /\ painter'[a].step = step /\ painter'[a].old = old /\ painter'[a].new = new
         /\ \A b \in Painter : b # a => painter'[b] = painter[b]
BY DEF PicturesTypeOK, Paints, PainterState, Key

\* A request that begins has read the row, or nothing; one that ends has nothing.
LEMMA ReadsHold ==
  ASSUME PicturesInv, NEW a \in Painter, NEW step \in {"idle", "read", "removing", "showing"},
         NEW old \in {0, image}, Paints(a, step, old, 0), UNCHANGED <<image, files, saves>>
  PROVE  PicturesInv'
<1>1. old \in Key /\ 0 \in Key /\ old <= saves
  BY AccountBounds DEF PicturesInv, PicturesTypeOK, KeysInv, Key
<1>2. /\ painter' \in [Painter -> PainterState]
      /\ painter'[a].step = step /\ painter'[a].old = old /\ painter'[a].new = 0
      /\ \A b \in Painter : b # a => painter'[b] = painter[b]
  BY <1>1, PaintsOne DEF PicturesInv
<1>3. PicturesTypeOK' /\ KeysInv'
  BY <1>1, <1>2 DEF PicturesInv, PicturesTypeOK, KeysInv, Key
<1>4. SavedInv'
  <2>1. ASSUME NEW b \in Painter, painter'[b].step = "saved"
        PROVE  b # a /\ painter'[b] = painter[b] /\ painter[b].new \in File
    BY <1>2, <2>1 DEF PicturesInv, PicturesTypeOK, SavedInv
  <2>2. ASSUME NEW b \in Painter, painter'[b].step = "saved"
        PROVE  old # painter[b].new
    BY <2>1, <2>2 DEF PicturesInv, SavedInv, File
  <2> QED
    BY <1>2, <2>1, <2>2 DEF PicturesInv, SavedInv
<1>5. DeletesInv'
  BY <1>2 DEF PicturesInv, DeletesInv, MayDelete
<1> QED
  BY <1>3, <1>4, <1>5 DEF PicturesInv, PictureIsThere

\* The new key is above all that were given out.
LEMMA SaveHolds ==
  ASSUME PicturesInv, NEW a \in Painter, Save(a)
  PROVE  PicturesInv'
<1>1. CASE Paints(a, "idle", 0, 0) /\ UNCHANGED <<files, saves>>
  BY <1>1, ReadsHold DEF Save
<1>2. CASE saves' = saves + 1 /\ files' = files \cup {saves'}
             /\ Paints(a, "saved", painter[a].old, saves')
  <2>1. /\ saves' \in File /\ saves' \in Key /\ UNCHANGED image
        /\ painter[a].old \in Key /\ painter[a].step = "read"
    BY <1>2, AccountBounds DEF Save, PicturesInv, PicturesTypeOK, PainterState, Key, File
  <2>2. /\ painter' \in [Painter -> PainterState]
        /\ painter'[a].step = "saved" /\ painter'[a].old = painter[a].old
        /\ painter'[a].new = saves'
        /\ \A b \in Painter : b # a => painter'[b] = painter[b]
    BY <1>2, <2>1, PaintsOne DEF PicturesInv
  <2>3. /\ image < saves'
        /\ \A b \in Painter : painter[b].old < saves' /\ painter[b].new < saves'
    BY <1>2 DEF PicturesInv, PicturesTypeOK, PainterState, KeysInv, Key
  <2>4. PicturesTypeOK' /\ KeysInv'
    BY <1>2, <2>1, <2>2, <2>3 DEF PicturesInv, PicturesTypeOK, PainterState, KeysInv, Key, File
  <2>5. SavedInv'
    BY <1>2, <2>1, <2>2, <2>3 DEF PicturesInv, PicturesTypeOK, PainterState, SavedInv, Key
  <2>6. DeletesInv' /\ PictureIsThere'
    BY <1>2, <2>1, <2>2 DEF PicturesInv, DeletesInv, MayDelete, PictureIsThere
  <2> QED
    BY <2>4, <2>5, <2>6 DEF PicturesInv
<1> QED
  BY <1>1, <1>2 DEF Save

\* The row takes a key that nobody read: what others may delete is another file.
LEMMA RecordKeyHolds ==
  ASSUME PicturesInv, NEW a \in Painter, RecordKey(a)
  PROVE  PicturesInv'
<1>1. /\ painter[a].step = "saved" /\ image' = painter[a].new
      /\ Paints(a, "recorded", painter[a].old, 0) /\ UNCHANGED <<files, saves>>
  BY DEF RecordKey
<1>2. painter[a].old \in Key /\ painter[a].new \in Key /\ 0 \in Key
  BY AccountBounds DEF PicturesInv, PicturesTypeOK, PainterState, Key
<1>3. /\ painter' \in [Painter -> PainterState]
      /\ painter'[a].step = "recorded" /\ painter'[a].old = painter[a].old
      /\ painter'[a].new = 0
      /\ \A b \in Painter : b # a => painter'[b] = painter[b]
  BY <1>1, <1>2, PaintsOne DEF PicturesInv
<1>4. PicturesTypeOK' /\ KeysInv'
  BY <1>1, <1>2, <1>3 DEF PicturesInv, PicturesTypeOK, KeysInv, Key
<1>5. SavedInv'
  BY <1>1, <1>3 DEF PicturesInv, SavedInv
<1>6. DeletesInv' /\ PictureIsThere'
  BY <1>1, <1>3 DEF PicturesInv, SavedInv, DeletesInv, MayDelete, PictureIsThere
<1> QED
  BY <1>4, <1>5, <1>6 DEF PicturesInv

\* The key was never in the row, and nobody else has it.
LEMMA RecordFailsHolds ==
  ASSUME PicturesInv, NEW a \in Painter, RecordFails(a)
  PROVE  PicturesInv'
<1>1. /\ painter[a].step = "saved" /\ Paints(a, "undone", painter[a].new, 0)
      /\ UNCHANGED <<image, files, saves>>
  BY DEF RecordFails
<1>2. painter[a].new \in Key /\ 0 \in Key
  BY AccountBounds DEF PicturesInv, PicturesTypeOK, PainterState, Key
<1>3. /\ painter' \in [Painter -> PainterState]
      /\ painter'[a].step = "undone" /\ painter'[a].old = painter[a].new
      /\ painter'[a].new = 0
      /\ \A b \in Painter : b # a => painter'[b] = painter[b]
  BY <1>1, <1>2, PaintsOne DEF PicturesInv
<1>4. PicturesTypeOK' /\ KeysInv'
  BY <1>1, <1>2, <1>3 DEF PicturesInv, PicturesTypeOK, KeysInv, Key
<1>5. SavedInv'
  BY <1>1, <1>3 DEF PicturesInv, SavedInv
<1>6. DeletesInv' /\ PictureIsThere'
  BY <1>1, <1>3 DEF PicturesInv, SavedInv, DeletesInv, MayDelete, PictureIsThere
<1> QED
  BY <1>4, <1>5, <1>6 DEF PicturesInv

LEMMA ClearKeyHolds ==
  ASSUME PicturesInv, NEW a \in Painter, ClearKey(a)
  PROVE  PicturesInv'
<1>1. /\ image' = 0 /\ Paints(a, "recorded", painter[a].old, 0) /\ UNCHANGED <<files, saves>>
  BY DEF ClearKey
<1>2. painter[a].old \in Key /\ 0 \in Key
  BY AccountBounds DEF PicturesInv, PicturesTypeOK, PainterState, Key
<1>3. /\ painter' \in [Painter -> PainterState]
      /\ painter'[a].step = "recorded" /\ painter'[a].old = painter[a].old
      /\ painter'[a].new = 0
      /\ \A b \in Painter : b # a => painter'[b] = painter[b]
  BY <1>1, <1>2, PaintsOne DEF PicturesInv
<1>4. PicturesTypeOK' /\ KeysInv'
  BY <1>1, <1>2, <1>3 DEF PicturesInv, PicturesTypeOK, KeysInv, Key
<1>5. SavedInv'
  BY <1>1, <1>3 DEF PicturesInv, PicturesTypeOK, SavedInv, File
<1>6. DeletesInv' /\ PictureIsThere'
  BY <1>1, <1>3 DEF PicturesInv, DeletesInv, MayDelete, PictureIsThere
<1> QED
  BY <1>4, <1>5, <1>6 DEF PicturesInv

\* The file that goes is neither the row's nor one that was just saved.
LEMMA DeleteFileHolds ==
  ASSUME PicturesInv, NEW a \in Painter, DeleteFile(a)
  PROVE  PicturesInv'
<1>1. /\ MayDelete(a) /\ files' \in {files \ {painter[a].old}, files}
      /\ Paints(a, "idle", 0, 0) /\ UNCHANGED <<image, saves>>
  BY DEF DeleteFile, MayDelete
<1>2. 0 \in Key
  BY AccountBounds DEF Key
<1>3. /\ painter' \in [Painter -> PainterState]
      /\ painter'[a].step = "idle" /\ painter'[a].old = 0 /\ painter'[a].new = 0
      /\ \A b \in Painter : b # a => painter'[b] = painter[b]
  BY <1>1, <1>2, PaintsOne DEF PicturesInv
<1>4. PicturesTypeOK' /\ KeysInv'
  BY <1>1, <1>2, <1>3 DEF PicturesInv, PicturesTypeOK, KeysInv, Key
<1>5. SavedInv'
  <2>1. ASSUME NEW b \in Painter, painter'[b].step = "saved"
        PROVE  /\ b # a /\ painter'[b] = painter[b] /\ painter[b].new \in files'
               /\ painter[b].new # 0
    BY <1>1, <1>3, <2>1 DEF PicturesInv, PicturesTypeOK, SavedInv, File
  <2> QED
    BY <1>1, <1>3, <2>1 DEF PicturesInv, SavedInv
<1>6. DeletesInv' /\ PictureIsThere'
  BY <1>1, <1>3 DEF PicturesInv, PicturesTypeOK, DeletesInv, MayDelete, PictureIsThere, File
<1> QED
  BY <1>4, <1>5, <1>6 DEF PicturesInv

LEMMA PicturesStepHolds == PicturesInv /\ [PicturesNext]_pictureVars => PicturesInv'
<1> SUFFICES ASSUME PicturesInv, [PicturesNext]_pictureVars PROVE PicturesInv'
  OBVIOUS
<1>1. ASSUME NEW a \in Painter, Upload(a) \/ Remove(a) \/ GetStream(a) \/ Get(a) \/ Stopped(a)
      PROVE  PicturesInv'
  BY <1>1, ReadsHold DEF Upload, Remove, GetStream, Get, Stopped
<1>2. CASE PicturesNext
  BY <1>1, <1>2, SaveHolds, RecordKeyHolds, RecordFailsHolds, ClearKeyHolds, DeleteFileHolds
     DEF PicturesNext, ProfileController, CustomerImage, TenantLogo, LocalStorageProvider
<1>3. CASE UNCHANGED pictureVars
  BY <1>3 DEF pictureVars, PicturesInv, PicturesTypeOK, KeysInv, SavedInv, DeletesInv, MayDelete,
     PictureIsThere
<1> QED
  BY <1>2, <1>3

\* No request about a code touches a picture.
LEMMA CodesKeepPictures == CodesNext => UNCHANGED pictureVars
<1>1. Tick \/ ArrivesLate => UNCHANGED pictureVars
  BY DEF Tick, ArrivesLate
<1>2. ASSUME NEW c \in Client, CustomerController(c) PROVE UNCHANGED pictureVars
  <2>1. Register(c) \/ ForgotPassword(c) \/ KeepNew(c) \/ SendOtpEmail(c) \/ MailFails(c)
          => UNCHANGED pictureVars
    BY DEF Register, ForgotPassword, KeepNew, SendOtpEmail, Mails, MailFails
  <2>2. Resend(c) \/ KeepRenewed(c) \/ Resent(c) \/ ResendFails(c) => UNCHANGED pictureVars
    BY DEF Resend, KeepRenewed, Resent, ResendFails
  <2>3. Guess(c) \/ DropSpent(c) \/ CountAttempt(c) => UNCHANGED pictureVars
    BY DEF Guess, DropSpent, CountAttempt
  <2>4. VerifyOtp(c) \/ UpdatePassword(c) \/ ResetPassword(c) => UNCHANGED pictureVars
    BY DEF VerifyOtp, UpdatePassword, ResetPassword
  <2> QED
    BY <1>2, <2>1, <2>2, <2>3, <2>4 DEF CustomerController
<1> QED
  BY <1>1, <1>2 DEF CodesNext

\* The picture a row points at is there, for any number of uploads, removals,
\* failures and restarts at once, and whatever the account's codes do meanwhile.
THEOREM PicturesAreKept == AccountsSpec => []PictureIsThere
<1>1. AccountsInit => PicturesInv
  BY PicturesInitHolds DEF AccountsInit
<1>2. PicturesInv /\ [AccountsNext]_accountVars => PicturesInv'
  <2>1. [AccountsNext]_accountVars => [PicturesNext]_pictureVars
    BY CodesKeepPictures DEF AccountsNext, accountVars
  <2> QED
    BY <2>1, PicturesStepHolds
<1>3. PicturesInv => PictureIsThere
  BY DEF PicturesInv
<1> QED
  BY <1>1, <1>2, <1>3, PTL DEF AccountsSpec

-----------------------------------------------------------------------------
(* The codes: the inductive invariant *)

CodesTypeOK ==
  /\ now \in Nat
  /\ account \in {"none", "open"}
  /\ pending \in [Purpose -> SUBSET PendingOtp]
  /\ delayed \subseteq Write
  /\ unsure \subseteq Purpose
  /\ codes \in 0 .. MaxCodes
  /\ mailed \in [Purpose -> 0 .. MaxCodes]
  /\ client \in [Client -> ClientState]

\* No code is in use before it was made, and the limits of a flow are those of
\* what its next step writes.
IssuedInv ==
  /\ \A p \in Purpose : \A e \in pending[p] : e.code <= codes
  /\ \A w \in delayed : \A e \in w.entries : e.code <= codes
  /\ \A c \in Client : \A e \in client[c].read :
       /\ e.code <= codes
       /\ client[c].step = "renewing" => e.count < MaxRequests
       /\ client[c].step = "wrong" => e.attempts < MaxAttempts
  /\ \A c \in Client : client[c].step = "changed" => client[c].purpose = "password-reset"

\* What an open request has read or kept is what there is for its purpose: had
\* another written meanwhile, the purpose would be unsure.
Relies(c) == LET p == client[c].purpose IN p \notin unsure =>
  /\ client[c].step = "mailing" =>
       \E e \in PendingOtp : client[c].read = {e} /\ pending[p] = {e}
  /\ client[c].step = "remailing" =>
       \E e, f \in PendingOtp :
         /\ client[c].read = {e, f} /\ pending[p] = {f}
         /\ e.code < f.code /\ e.code = mailed[p]
  /\ client[c].step \in {"renewing", "wrong"} => client[c].read \subseteq pending[p]

ReliesInv == \A c \in Client : Relies(c)

\* One code at most is between Redis and the mail server.
MailingInv == \A p \in Purpose \ unsure : \A c, d \in Client :
  Mailing(c, p) /\ Mailing(d, p) => c = d

Settled(p) == \A e \in pending[p] : e.code = mailed[p]

SettledInv == \A p \in Purpose \ unsure : Settled(p) \/ \E c \in Client : Mailing(c, p)

CodesInv == CodesTypeOK /\ IssuedInv /\ ReliesInv /\ MailingInv /\ SettledInv

LEMMA CodesInitHolds == CodesInit => CodesInv
<1> SUFFICES ASSUME CodesInit PROVE CodesInv
  OBVIOUS
<1>1. NoRequest \in ClientState /\ NoRequest.step = "idle" /\ NoRequest.read = {}
  BY DEF NoRequest, ClientState, Purpose
<1>2. CodesTypeOK
  <2>1. 0 \in Nat /\ 0 \in 0 .. MaxCodes
    BY AccountBounds
  <2>2. now = 0 /\ account = "none" /\ codes = 0 /\ delayed = {} /\ unsure = {}
    BY DEF CodesInit
  <2>3. pending \in [Purpose -> SUBSET PendingOtp]
    BY DEF CodesInit
  <2>4. mailed \in [Purpose -> 0 .. MaxCodes]
    BY <2>1 DEF CodesInit
  <2>5. client \in [Client -> ClientState]
    BY <1>1 DEF CodesInit
  <2> QED
    BY <2>1, <2>2, <2>3, <2>4, <2>5 DEF CodesTypeOK
<1>3. \A c \in Client : client[c].step = "idle" /\ client[c].read = {}
  BY <1>1 DEF CodesInit
<1>4. (\A p \in Purpose : pending[p] = {}) /\ delayed = {}
  BY DEF CodesInit
<1>5. IssuedInv /\ ReliesInv
  BY <1>3, <1>4 DEF IssuedInv, ReliesInv, Relies
<1>6. MailingInv /\ SettledInv
  BY <1>3, <1>4 DEF MailingInv, Mailing, SettledInv, Settled
<1> QED
  BY <1>2, <1>5, <1>6 DEF CodesInv

-----------------------------------------------------------------------------
(* The codes: what a step of one request leaves of the others *)

Step == {"idle", "hashed", "mailing", "renewing", "remailing", "spent", "wrong", "right",
         "changed"}

LEMMA KeptVars == UNCHANGED keptVars => UNCHANGED <<pending, delayed, unsure>>
BY DEF keptVars

LEMMA GoesOne ==
  ASSUME CodesInv, NEW c \in Client, NEW step \in Step, NEW p \in Purpose,
         NEW read \in SUBSET PendingOtp, Goes(c, step, p, read)
  PROVE  /\ client' \in [Client -> ClientState]
         /\ client'[c].step = step /\ client'[c].purpose = p /\ client'[c].read = read
         /\ \A d \in Client : d # c => client'[d] = client[d]
<1> DEFINE r == [step |-> step, purpose |-> p, read |-> read]
<1>1. r \in ClientState /\ r.step = step /\ r.purpose = p /\ r.read = read
  BY DEF ClientState, Step
<1>2. client' = [client EXCEPT ![c] = r]
  BY DEF Goes
<1> HIDE DEF r
<1>3. /\ client' \in [Client -> ClientState] /\ client'[c] = r
      /\ \A d \in Client : d # c => client'[d] = client[d]
  BY <1>1, <1>2 DEF CodesInv, CodesTypeOK
<1> QED
  BY <1>1, <1>3

LEMMA EndsOne ==
  ASSUME CodesInv, NEW c \in Client, Ends(c)
  PROVE  /\ client' \in [Client -> ClientState]
         /\ client'[c].step = "idle" /\ client'[c].read = {}
         /\ \A d \in Client : d # c => client'[d] = client[d]
<1>1. NoRequest \in ClientState /\ NoRequest.step = "idle" /\ NoRequest.read = {}
  BY DEF NoRequest, ClientState, Purpose
<1>2. client' = [client EXCEPT ![c] = NoRequest]
  BY DEF Ends
<1> QED
  BY <1>1, <1>2 DEF CodesInv, CodesTypeOK

\* What is left to show of a step of one request, for one purpose.
LEMMA OneOpenHolds ==
  ASSUME CodesInv, CodesTypeOK', IssuedInv', NEW c \in Client, NEW p \in Purpose,
         \A d \in Client : d # c => client'[d] = client[d],
         client[c].step = "idle" \/ client[c].purpose = p,
         client'[c].step = "idle" \/ client'[c].purpose = p,
         \A o \in Purpose : o # p =>
           pending'[o] = pending[o] /\ mailed'[o] = mailed[o] /\ (o \in unsure' <=> o \in unsure),
         p \notin unsure' =>
           \/ client[c].purpose = p /\ Alone(c)
           \/ /\ p \notin unsure /\ pending'[p] = pending[p]
              /\ mailed'[p] = mailed[p] \/ Mailing(c, p),
         p \notin unsure' /\ Mailing(c, p)' => client[c].purpose = p /\ Alone(c),
         p \notin unsure' => Relies(c)',
         p \notin unsure' => Settled(p)' \/ Mailing(c, p)'
                              \/ \E d \in Client : d # c /\ Mailing(d, p)
  PROVE  CodesInv'
<1>1. ASSUME NEW d \in Client, d # c, client[c].purpose = p, Alone(c)
      PROVE  client[d].step = "idle" \/ client[d].purpose # p
  BY <1>1 DEF Alone
<1>2. \A d \in Client : client[d].purpose \in Purpose
  BY DEF CodesInv, CodesTypeOK, ClientState
<1>3. ReliesInv'
  <2>1. ASSUME NEW d \in Client, d # c, client[d].purpose # p PROVE Relies(d)'
    <3>1. PICK o \in Purpose : o = client[d].purpose
      BY <1>2
    <3>2. /\ pending'[o] = pending[o] /\ mailed'[o] = mailed[o] /\ (o \in unsure' <=> o \in unsure)
          /\ client'[d] = client[d]
      BY <2>1, <3>1
    <3>3. Relies(d)
      BY DEF CodesInv, ReliesInv
    <3> QED
      BY <3>1, <3>2, <3>3 DEF Relies
  <2>2. ASSUME NEW d \in Client, d # c, client[d].purpose = p, p \notin unsure' PROVE Relies(d)'
    <3>1. client'[d] = client[d] /\ Relies(d)
      BY <2>2 DEF CodesInv, ReliesInv
    <3>2. CASE client[c].purpose = p /\ Alone(c)
      BY <1>1, <2>2, <3>1, <3>2 DEF Relies
    <3>3. CASE p \notin unsure /\ pending'[p] = pending[p] /\ mailed'[p] = mailed[p]
      BY <2>2, <3>1, <3>3 DEF Relies
    <3>4. CASE p \notin unsure /\ pending'[p] = pending[p] /\ Mailing(c, p)
      <4>1. ~Mailing(d, p)
        BY <2>2, <3>4 DEF CodesInv, MailingInv
      <4> QED
        BY <2>2, <3>1, <3>4, <4>1 DEF Relies, Mailing
    <3> QED
      BY <2>2, <3>2, <3>3, <3>4
  <2>3. ASSUME NEW d \in Client, d # c, client[d].purpose = p, p \in unsure' PROVE Relies(d)'
    BY <2>3 DEF Relies
  <2>4. CASE p \in unsure' /\ client'[c].purpose = p
    BY <2>1, <2>2, <2>3, <2>4 DEF ReliesInv, Relies
  <2>5. CASE client'[c].step = "idle"
    <3>1. Relies(c)'
      BY <2>5 DEF Relies
    <3> QED
      BY <2>1, <2>2, <2>3, <3>1 DEF ReliesInv
  <2> QED
    BY <2>1, <2>2, <2>3, <2>4, <2>5 DEF ReliesInv
<1>4. MailingInv'
  <2>1. ASSUME NEW o \in Purpose, o \notin unsure', NEW a \in Client, NEW b \in Client,
               Mailing(a, o)', Mailing(b, o)', a # b
        PROVE  FALSE
    <3>1. CASE o # p
      <4>1. a # c /\ b # c /\ o \notin unsure
        BY <2>1, <3>1 DEF Mailing
      <4> QED
        BY <2>1, <4>1 DEF Mailing, CodesInv, MailingInv
    <3>2. CASE o = p /\ a # c /\ b # c
      <4>1. Mailing(a, p) /\ Mailing(b, p)
        BY <2>1, <3>2 DEF Mailing
      <4>2. ~(client[c].purpose = p /\ Alone(c))
        BY <1>1, <3>2, <4>1 DEF Mailing
      <4> QED
        BY <2>1, <3>2, <4>1, <4>2 DEF CodesInv, MailingInv
    <3>3. ASSUME NEW d \in Client, d # c, o = p, Mailing(d, p)', Mailing(c, p)' PROVE FALSE
      BY <1>1, <2>1, <3>3 DEF Mailing
    <3> QED
      BY <2>1, <3>1, <3>2, <3>3
  <2> QED
    BY <2>1 DEF MailingInv
<1>5. SettledInv'
  <2>1. ASSUME NEW o \in Purpose, o # p, o \notin unsure'
        PROVE  Settled(o)' \/ \E d \in Client : Mailing(d, o)'
    <3>1. Settled(o) \/ \E d \in Client : Mailing(d, o)
      BY <2>1 DEF CodesInv, SettledInv
    <3>2. CASE Settled(o)
      BY <2>1, <3>2 DEF Settled
    <3>3. ASSUME NEW d \in Client, Mailing(d, o) PROVE Mailing(d, o)'
      BY <2>1, <3>3 DEF Mailing
    <3> QED
      BY <3>1, <3>2, <3>3
  <2>2. ASSUME NEW d \in Client, d # c, Mailing(d, p) PROVE Mailing(d, p)'
    BY <2>2 DEF Mailing
  <2> QED
    BY <2>1, <2>2 DEF SettledInv
<1> QED
  BY <1>3, <1>4, <1>5 DEF CodesInv

\* A write that leaves its purpose sure was done, by a request that was alone.
LEMMA KeepSure ==
  ASSUME CodesInv, NEW c \in Client, NEW p \in Purpose, p = client[c].purpose,
         NEW entries, NEW settled, Keep(c, entries, settled), p \notin unsure'
  PROVE  pending'[p] = entries /\ Alone(c) /\ (p \notin unsure \/ p \in settled)
<1>1. Holds(p, entries) /\ unsure' = IF Alone(c) THEN unsure \ settled ELSE unsure \cup {p}
  BY DEF Keep
<1> QED
  BY <1>1 DEF Holds, CodesInv, CodesTypeOK

\* What Redis did of a write, if anything.
LEMMA KeepOne ==
  ASSUME CodesInv, NEW c \in Client, NEW p \in Purpose, p = client[c].purpose,
         NEW n \in Nat, codes <= n,
         NEW entries \in SUBSET PendingOtp, \A e \in entries : e.code <= n,
         NEW settled \in SUBSET {p}, Keep(c, entries, settled)
  PROVE  /\ pending' \in [Purpose -> SUBSET PendingOtp]
         /\ delayed' \subseteq Write /\ unsure' \subseteq Purpose
         /\ \A o \in Purpose : o # p => pending'[o] = pending[o] /\ (o \in unsure' <=> o \in unsure)
         /\ \A o \in Purpose : \A e \in pending'[o] : e.code <= n
         /\ \A w \in delayed' : \A e \in w.entries : e.code <= n
<1> USE DEF CodesInv, CodesTypeOK
<1>0. /\ codes \in Nat
      /\ \A o \in Purpose : \A e \in pending[o] : e \in PendingOtp /\ e.code <= n
      /\ \A w \in delayed : \A e \in w.entries : e.code <= n
  <2>1. codes \in Nat
    BY AccountBounds
  <2>2. \A o \in Purpose : \A e \in pending[o] : e \in PendingOtp /\ e.code \in Nat
    BY DEF PendingOtp
  <2>3. \A w \in delayed : \A e \in w.entries : e.code \in Nat
    BY DEF PendingOtp, Write
  <2> QED
    BY <2>1, <2>2, <2>3 DEF IssuedInv
<1>1. ASSUME Holds(p, entries)
      PROVE  /\ pending' \in [Purpose -> SUBSET PendingOtp] /\ pending'[p] = entries
             /\ \A o \in Purpose : o # p => pending'[o] = pending[o]
             /\ \A o \in Purpose : \A e \in pending'[o] : e.code <= n
  <2>1. /\ pending' \in [Purpose -> SUBSET PendingOtp] /\ pending'[p] = entries
        /\ \A o \in Purpose : o # p => pending'[o] = pending[o]
    BY <1>1 DEF Holds
  <2> QED
    BY <1>0, <2>1
<1>2. CASE Holds(p, entries) /\ UNCHANGED delayed
             /\ unsure' = IF Alone(c) THEN unsure \ settled ELSE unsure \cup {p}
  BY <1>0, <1>1, <1>2
<1>3. ASSUME GivenUp(p, entries), unsure' = unsure \cup {p}
      PROVE  /\ pending' \in [Purpose -> SUBSET PendingOtp]
             /\ \A o \in Purpose : o # p => pending'[o] = pending[o]
             /\ \A o \in Purpose : \A e \in pending'[o] : e.code <= n
             /\ delayed' \subseteq Write
             /\ \A w \in delayed' : \A e \in w.entries : e.code <= n
  <2>1. CASE UNCHANGED <<pending, delayed>>
    BY <1>0, <2>1
  <2>2. CASE Holds(p, entries) /\ UNCHANGED delayed
    BY <1>0, <1>1, <2>2
  <2>3. CASE delayed' = delayed \cup {OnItsWay(p, entries)} /\ UNCHANGED pending
    <3>1. ASSUME NEW e \in entries
          PROVE  /\ [e EXCEPT !.dies = SecondsLeft(e)] \in PendingOtp
                 /\ [e EXCEPT !.dies = SecondsLeft(e)].code = e.code
      <4>1. SecondsLeft(e) \in Nat
        BY DEF SecondsLeft, PendingOtp
      <4> QED
        BY <4>1 DEF PendingOtp
    <3> DEFINE arriving == {[e EXCEPT !.dies = SecondsLeft(e)] : e \in entries}
    <3>2. arriving \in SUBSET PendingOtp /\ \A f \in arriving : f.code <= n
      BY <3>1
    <3>3. OnItsWay(p, entries) = [purpose |-> p, entries |-> arriving]
      BY DEF OnItsWay
    <3> HIDE DEF arriving
    <3>4. OnItsWay(p, entries) \in Write /\ OnItsWay(p, entries).entries = arriving
      BY <3>2, <3>3 DEF Write
    <3> QED
      BY <1>0, <2>3, <3>2, <3>4
  <2> QED
    BY <1>3, <2>1, <2>2, <2>3 DEF GivenUp
<1> QED
  BY <1>2, <1>3 DEF Keep

\* Where no mail is under way the code is the one mailed last.
LEMMA AloneSettled ==
  ASSUME CodesInv, NEW c \in Client, NEW p \in Purpose, p = client[c].purpose,
         p \notin unsure, Alone(c), ~Mailing(c, p)
  PROVE  Settled(p)
BY DEF CodesInv, SettledInv, Mailing, Alone

\* A request that ends, and leaves its purpose settled if it leaves it sure.
LEMMA EndsHolds ==
  ASSUME CodesInv, NEW c \in Client, client[c].step # "idle", Ends(c),
         now' = now, codes' = codes, account' \in {"none", "open"},
         NEW p \in Purpose, p = client[c].purpose,
         \A o \in Purpose : o # p =>
           pending'[o] = pending[o] /\ mailed'[o] = mailed[o] /\ (o \in unsure' <=> o \in unsure),
         pending' \in [Purpose -> SUBSET PendingOtp],
         delayed' \subseteq Write, unsure' \subseteq Purpose,
         mailed' \in [Purpose -> 0 .. MaxCodes],
         \A o \in Purpose : \A e \in pending'[o] : e.code <= codes,
         \A w \in delayed' : \A e \in w.entries : e.code <= codes,
         p \notin unsure' =>
           \/ Alone(c)
           \/ /\ p \notin unsure /\ pending'[p] = pending[p]
              /\ mailed'[p] = mailed[p] \/ Mailing(c, p),
         p \notin unsure' => Settled(p)' \/ \E d \in Client : d # c /\ Mailing(d, p)
  PROVE  CodesInv'
<1>1. /\ client' \in [Client -> ClientState]
      /\ client'[c].step = "idle" /\ client'[c].read = {}
      /\ \A d \in Client : d # c => client'[d] = client[d]
  BY EndsOne
<1>2. CodesTypeOK'
  BY <1>1 DEF CodesInv, CodesTypeOK
<1>3. IssuedInv'
  <2>1. \A d \in Client : \A e \in client'[d].read :
          /\ e.code <= codes
          /\ client'[d].step = "renewing" => e.count < MaxRequests
          /\ client'[d].step = "wrong" => e.attempts < MaxAttempts
    BY <1>1 DEF CodesInv, IssuedInv
  <2>2. \A d \in Client : client'[d].step = "changed" => client'[d].purpose = "password-reset"
    BY <1>1 DEF CodesInv, IssuedInv
  <2> QED
    BY <2>1, <2>2 DEF IssuedInv
<1>4. Relies(c)'
  BY <1>1 DEF Relies
<1>5. ~Mailing(c, p)'
  BY <1>1 DEF Mailing
<1> QED
  BY <1>1, <1>2, <1>3, <1>4, <1>5, OneOpenHolds

-----------------------------------------------------------------------------
(* The codes: the steps *)

\* What the clock and the count of codes give a new entry.
LEMMA FreshType ==
  ASSUME CodesInv, codes < MaxCodes
  PROVE  Fresh \in PendingOtp /\ Fresh.code = codes + 1
BY AccountBounds DEF CodesInv, CodesTypeOK, Fresh, PendingOtp

LEMMA ReadType ==
  ASSUME CodesInv, NEW c \in Client
  PROVE  /\ client[c].purpose \in Purpose
         /\ client[c].read \in SUBSET PendingOtp
         /\ codes \in Nat
         /\ \A e \in client[c].read : e.code \in Nat /\ e.code <= codes
         /\ \A p \in Purpose : \A e \in pending[p] :
              e \in PendingOtp /\ e.code \in Nat /\ e.code <= codes
BY AccountBounds DEF CodesInv, CodesTypeOK, IssuedInv, ClientState, PendingOtp

\* A request that begins, or has done with its entry, relies on what it read.
LEMMA BeginHolds ==
  ASSUME CodesInv, NEW c \in Client, NEW p \in Purpose,
         client[c].step = "idle" \/ (client[c].step = "right" /\ client[c].purpose = p),
         NEW step \in {"hashed", "renewing", "spent", "wrong", "right", "changed"},
         step = "changed" => p = "password-reset",
         NEW read \in SUBSET pending[p], Goes(c, step, p, read),
         \A e \in read : /\ step = "renewing" => e.count < MaxRequests
                         /\ step = "wrong" => e.attempts < MaxAttempts,
         UNCHANGED <<now, account, pending, delayed, unsure, codes, mailed>>
  PROVE  CodesInv'
<1>1. step \in Step /\ read \in SUBSET PendingOtp
  BY DEF Step, CodesInv, CodesTypeOK
<1>2. /\ client' \in [Client -> ClientState]
      /\ client'[c].step = step /\ client'[c].purpose = p /\ client'[c].read = read
      /\ \A d \in Client : d # c => client'[d] = client[d]
  BY <1>1, GoesOne
<1>3. CodesTypeOK'
  BY <1>2 DEF CodesInv, CodesTypeOK
<1>4. IssuedInv'
  BY <1>2 DEF CodesInv, IssuedInv
<1>5. ~Mailing(c, p) /\ ~Mailing(c, p)'
  BY <1>2 DEF Mailing
<1>6. Relies(c)'
  BY <1>2 DEF Relies
<1>7. p \notin unsure => Settled(p)' \/ \E d \in Client : d # c /\ Mailing(d, p)
  BY <1>5 DEF CodesInv, SettledInv, Settled
<1> QED
  BY <1>2, <1>3, <1>4, <1>5, <1>6, <1>7, OneOpenHolds

\* A code is made: what is kept is what the request will mail.
LEMMA MakeHolds ==
  ASSUME CodesInv, NEW c \in Client, codes < MaxCodes,
         NEW new \in PendingOtp, new.code = codes + 1, NEW read \in SUBSET PendingOtp,
         NEW step \in {"mailing", "remailing"}, NEW settled,
         \/ /\ step = "mailing" /\ read = {new} /\ settled = {client[c].purpose}
         \/ /\ step = "remailing" /\ client[c].step = "renewing" /\ settled = {}
            /\ \E e \in client[c].read : read = {e, new},
         Keep(c, {new}, settled), Goes(c, step, client[c].purpose, read),
         client[c].step \in {"hashed", "renewing"},
         codes' = codes + 1, UNCHANGED <<now, account, mailed>>
  PROVE  CodesInv'
<1> PICK p \in Purpose : p = client[c].purpose
  BY ReadType
<1>1. step \in Step /\ codes \in Nat /\ codes + 1 \in Nat
  BY ReadType DEF Step
<1>2. /\ client' \in [Client -> ClientState]
      /\ client'[c].step = step /\ client'[c].purpose = p /\ client'[c].read = read
      /\ \A d \in Client : d # c => client'[d] = client[d]
  BY <1>1, GoesOne
<1>3. /\ pending' \in [Purpose -> SUBSET PendingOtp]
      /\ delayed' \subseteq Write /\ unsure' \subseteq Purpose
      /\ \A o \in Purpose : o # p => pending'[o] = pending[o] /\ (o \in unsure' <=> o \in unsure)
      /\ \A o \in Purpose : \A e \in pending'[o] : e.code <= codes + 1
      /\ \A w \in delayed' : \A e \in w.entries : e.code <= codes + 1
      /\ p \notin unsure' =>
           pending'[p] = {new} /\ Alone(c) /\ (p \notin unsure \/ p \in settled)
  <2>1. codes <= codes + 1 /\ {new} \in SUBSET PendingOtp /\ \A e \in {new} : e.code <= codes + 1
    BY <1>1
  <2>2. settled \in SUBSET {p}
    OBVIOUS
  <2>3. p \notin unsure' => pending'[p] = {new} /\ Alone(c) /\ (p \notin unsure \/ p \in settled)
    BY KeepSure
  <2>4. /\ pending' \in [Purpose -> SUBSET PendingOtp]
        /\ delayed' \subseteq Write /\ unsure' \subseteq Purpose
    BY <1>1, <2>1, <2>2, KeepOne
  <2>5. \A o \in Purpose : o # p =>
          pending'[o] = pending[o] /\ (o \in unsure' <=> o \in unsure)
    BY <1>1, <2>1, <2>2, KeepOne
  <2>6. /\ \A o \in Purpose : \A e \in pending'[o] : e.code <= codes + 1
        /\ \A w \in delayed' : \A e \in w.entries : e.code <= codes + 1
    BY <1>1, <2>1, <2>2, KeepOne
  <2> QED
    BY <2>3, <2>4, <2>5, <2>6
<1>4. CodesTypeOK'
  BY <1>2, <1>3, AccountBounds DEF CodesInv, CodesTypeOK
<1>5. \A e \in read : e.code \in Nat /\ e.code <= codes + 1
  BY <1>1, ReadType
<1>6. IssuedInv'
  <2>2. ASSUME NEW d \in Client, NEW e \in client'[d].read
        PROVE  /\ e.code <= codes + 1
               /\ client'[d].step = "renewing" => e.count < MaxRequests
               /\ client'[d].step = "wrong" => e.attempts < MaxAttempts
    <3>1. CASE d = c
      BY <1>2, <1>5, <2>2, <3>1
    <3>2. CASE d # c
      BY <1>1, <1>2, <2>2, <3>2, ReadType DEF CodesInv, IssuedInv
    <3> QED
      BY <3>1, <3>2
  <2>3. \A d \in Client : client'[d].step = "changed" => client'[d].purpose = "password-reset"
    BY <1>2 DEF CodesInv, IssuedInv
  <2> QED
    BY <1>3, <2>2, <2>3 DEF IssuedInv
<1>7. Mailing(c, p)' /\ ~Mailing(c, p)
  BY <1>2 DEF Mailing
<1>8. p \notin unsure' => Relies(c)'
  <2>1. CASE step = "mailing"
    BY <1>2, <1>3, <2>1 DEF Relies
  <2>2. CASE step = "remailing" /\ p \notin unsure'
    <3>1. PICK e \in client[c].read : read = {e, new}
      BY <2>2
    <3>2. e.code < new.code /\ e \in PendingOtp
      BY <1>1, <3>1, ReadType
    <3>3. p \notin unsure /\ Alone(c) /\ client[c].step = "renewing"
      BY <1>3, <2>2
    <3>4. e \in pending[p]
      BY <3>1, <3>3 DEF CodesInv, ReliesInv, Relies
    <3>5. e.code = mailed[p]
      BY <1>7, <3>3, <3>4, AloneSettled DEF Settled
    <3> QED
      BY <1>2, <1>3, <2>2, <3>1, <3>2, <3>5 DEF Relies
  <2> QED
    BY <2>1, <2>2
<1> QED
  BY <1>2, <1>3, <1>4, <1>6, <1>7, <1>8, OneOpenHolds

LEMMA BeginsHold ==
  ASSUME CodesInv, NEW c \in Client,
         Register(c) \/ ForgotPassword(c) \/ Resend(c) \/ Guess(c)
  PROVE  CodesInv'
<1>1. \A p \in Purpose : {} \in SUBSET pending[p]
  OBVIOUS
<1>2. CASE Register(c)
  BY <1>1, <1>2, KeptVars, BeginHolds DEF Register, Purpose
<1>3. CASE ForgotPassword(c)
  BY <1>1, <1>3, KeptVars, BeginHolds DEF ForgotPassword, Purpose
<1>4. ASSUME NEW p \in Purpose, NEW e \in Kept(p) PROVE {e} \in SUBSET pending[p]
  BY <1>4 DEF Kept
<1>5. CASE Resend(c)
  <2>1. PICK p \in Purpose : \E e \in Kept(p) :
          /\ client[c].step = "idle" /\ e.count < MaxRequests
          /\ Goes(c, "renewing", p, {e})
    BY <1>5 DEF Resend
  <2>2. PICK e \in Kept(p) : e.count < MaxRequests /\ Goes(c, "renewing", p, {e})
    BY <2>1
  <2>3. UNCHANGED <<now, account, pending, delayed, unsure, codes, mailed>>
    BY <1>5, KeptVars DEF Resend
  <2> QED
    BY <1>4, <2>1, <2>2, <2>3, BeginHolds
<1>6. CASE Guess(c)
  <2>1. PICK p \in Purpose, step \in {"spent", "wrong", "right"} : \E e \in Kept(p) :
          /\ client[c].step = "idle"
          /\ step = "spent" <=> e.attempts >= MaxAttempts
          /\ Goes(c, step, p, {e})
    BY <1>6 DEF Guess
  <2>2. PICK e \in Kept(p) :
          (step = "spent" <=> e.attempts >= MaxAttempts) /\ Goes(c, step, p, {e})
    BY <2>1
  <2>3. e \in PendingOtp
    BY ReadType DEF Kept
  <2>4. step = "wrong" => e.attempts < MaxAttempts
    BY <2>2, <2>3, AccountBounds DEF PendingOtp
  <2>5. UNCHANGED <<now, account, pending, delayed, unsure, codes, mailed>>
    BY <1>6, KeptVars DEF Guess
  <2> QED
    BY <1>4, <2>1, <2>2, <2>4, <2>5, BeginHolds
<1> QED
  BY <1>2, <1>3, <1>5, <1>6

LEMMA MakesHold ==
  ASSUME CodesInv, NEW c \in Client, KeepNew(c) \/ KeepRenewed(c)
  PROVE  CodesInv'
<1>1. CASE KeepNew(c)
  <2>1. Fresh \in PendingOtp /\ Fresh.code = codes + 1 /\ {Fresh} \in SUBSET PendingOtp
    BY <1>1, FreshType DEF KeepNew
  <2> QED
    BY <1>1, <2>1, MakeHolds DEF KeepNew, SetNew
<1>2. CASE KeepRenewed(c)
  <2>1. PICK e \in client[c].read :
          /\ client[c].step = "renewing" /\ codes < MaxCodes /\ codes' = codes + 1
          /\ Keep(c, {Renewed(e)}, {})
          /\ Goes(c, "remailing", client[c].purpose, {e, Renewed(e)})
          /\ UNCHANGED <<now, account, mailed>>
    BY <1>2 DEF KeepRenewed, Set
  <2>2. e \in PendingOtp /\ e.count < MaxRequests
    BY <2>1, ReadType DEF CodesInv, IssuedInv
  <2>3. e.count + 1 \in 1 .. MaxRequests
    BY <2>2, AccountBounds DEF PendingOtp
  <2>4. Fresh \in PendingOtp /\ Fresh.code = codes + 1
    BY <2>1, FreshType
  <2>5. Renewed(e) \in PendingOtp /\ Renewed(e).code = codes + 1
    BY <2>3, <2>4 DEF Renewed, PendingOtp
  <2>6. {e, Renewed(e)} \in SUBSET PendingOtp
    BY <2>2, <2>5
  <2> QED
    BY <2>1, <2>5, <2>6, MakeHolds
<1> QED
  BY <1>1, <1>2

\* The mail that goes out is that of the entry that is kept, if it is sure what
\* is; of the two of a resend it is the newer.
LEMMA MailHolds ==
  ASSUME CodesInv, NEW c \in Client, SendOtpEmail(c) \/ Resent(c)
  PROVE  CodesInv'
<1> PICK p \in Purpose : p = client[c].purpose
  BY ReadType
<1>1. /\ Mailing(c, p) /\ client[c].step # "idle" /\ Ends(c)
      /\ UNCHANGED <<now, account, pending, delayed, unsure, codes>>
  BY KeptVars DEF SendOtpEmail, Mails, Resent, Mailing
<1>2. PICK e \in client[c].read :
        /\ mailed' = [mailed EXCEPT ![p] = e.code]
        /\ client[c].step = "mailing" \/ (client[c].step = "remailing" /\ e \notin Older(c))
  BY DEF SendOtpEmail, Mails, Resent
<1>3. e.code \in 0 .. MaxCodes
  BY ReadType DEF PendingOtp
<1>4. /\ mailed' \in [Purpose -> 0 .. MaxCodes] /\ mailed'[p] = e.code
      /\ \A o \in Purpose : o # p => mailed'[o] = mailed[o]
  BY <1>2, <1>3 DEF CodesInv, CodesTypeOK
<1>5. /\ pending' \in [Purpose -> SUBSET PendingOtp] /\ account' \in {"none", "open"}
      /\ delayed' \subseteq Write /\ unsure' \subseteq Purpose
      /\ \A o \in Purpose : \A d \in pending'[o] : d.code <= codes
      /\ \A w \in delayed' : \A d \in w.entries : d.code <= codes
  BY <1>1 DEF CodesInv, CodesTypeOK, IssuedInv
<1>6. p \notin unsure => pending[p] = {e}
  <2>1. CASE client[c].step = "mailing"
    BY <1>2, <2>1 DEF CodesInv, ReliesInv, Relies
  <2>2. CASE client[c].step = "remailing" /\ e \notin Older(c) /\ p \notin unsure
    <3>1. PICK old \in PendingOtp, new \in PendingOtp :
            client[c].read = {old, new} /\ pending[p] = {new} /\ old.code < new.code
      BY <2>2 DEF CodesInv, ReliesInv, Relies
    <3>2. old \in Older(c)
      BY <3>1 DEF Older, PendingOtp
    <3> QED
      BY <1>2, <2>2, <3>1, <3>2
  <2> QED
    BY <1>2, <2>1, <2>2
<1>7. p \notin unsure' => Settled(p)'
  BY <1>1, <1>4, <1>6 DEF Settled
<1> QED
  BY <1>1, <1>4, <1>5, <1>7, EndsHolds

\* Nothing, or entries that a request writes back with the code they had.
LEMMA WritesBackHolds ==
  ASSUME CodesInv, NEW c \in Client, client[c].step # "idle", Ends(c),
         NEW p \in Purpose, p = client[c].purpose,
         NEW entries \in SUBSET PendingOtp, NEW settled, Keep(c, entries, settled),
         \/ entries = {} /\ settled = {p}
         \/ /\ settled = {}
            /\ \A e \in entries :
                 e.code <= codes /\ (p \notin unsure /\ Alone(c) => e.code = mailed[p]),
         account' \in {"none", "open"}, UNCHANGED <<now, codes, mailed>>
  PROVE  CodesInv'
<1>0. codes \in Nat /\ codes <= codes /\ \A e \in entries : e.code <= codes
  BY ReadType
<1>1. /\ pending' \in [Purpose -> SUBSET PendingOtp]
      /\ delayed' \subseteq Write /\ unsure' \subseteq Purpose
      /\ \A o \in Purpose : o # p => pending'[o] = pending[o] /\ (o \in unsure' <=> o \in unsure)
      /\ \A o \in Purpose : \A e \in pending'[o] : e.code <= codes
      /\ \A w \in delayed' : \A e \in w.entries : e.code <= codes
      /\ p \notin unsure' =>
           pending'[p] = entries /\ Alone(c) /\ (p \notin unsure \/ p \in settled)
  <2>1. settled \in SUBSET {p}
    OBVIOUS
  <2>3. p \notin unsure' => pending'[p] = entries /\ Alone(c) /\ (p \notin unsure \/ p \in settled)
    BY KeepSure
  <2>4. /\ pending' \in [Purpose -> SUBSET PendingOtp]
        /\ delayed' \subseteq Write /\ unsure' \subseteq Purpose
    BY <1>0, <2>1, KeepOne
  <2>5. \A o \in Purpose : o # p =>
          pending'[o] = pending[o] /\ (o \in unsure' <=> o \in unsure)
    BY <1>0, <2>1, KeepOne
  <2>6. /\ \A o \in Purpose : \A e \in pending'[o] : e.code <= codes
        /\ \A w \in delayed' : \A e \in w.entries : e.code <= codes
    BY <1>0, <2>1, KeepOne
  <2> QED
    BY <2>3, <2>4, <2>5, <2>6
<1>2. mailed' \in [Purpose -> 0 .. MaxCodes]
  BY DEF CodesInv, CodesTypeOK
<1>3. p \notin unsure' => Settled(p)'
  <2>1. ASSUME p \notin unsure' PROVE \A e \in entries : e.code = mailed[p]
    BY <1>1, <2>1
  <2> QED
    BY <1>1, <2>1 DEF Settled
<1> QED
  BY <1>1, <1>2, <1>3, EndsHolds

\* An entry keeps its code when only its time or its count of guesses changes.
LEMMA SameCode ==
  ASSUME CodesInv, NEW e \in PendingOtp
  PROVE  /\ RemainingTtl(e) \in Nat
         /\ [e EXCEPT !.dies = RemainingTtl(e)] \in PendingOtp
         /\ [e EXCEPT !.dies = RemainingTtl(e)].code = e.code
<1>1. RemainingTtl(e) \in Nat
  BY DEF RemainingTtl, PendingOtp, CodesInv, CodesTypeOK
<1> QED
  BY <1>1 DEF PendingOtp

\* The older of the two comes back, with the code that was mailed.
LEMMA ResendFailsHolds ==
  ASSUME CodesInv, NEW c \in Client, ResendFails(c)
  PROVE  CodesInv'
<1> PICK p \in Purpose : p = client[c].purpose
  BY ReadType
<1>1. PICK d \in Restored(c) : Keep(c, {d}, {})
  BY DEF ResendFails, Set
<1>2. client[c].step = "remailing" /\ Ends(c) /\ UNCHANGED <<now, account, codes, mailed>>
  BY DEF ResendFails
<1>3. PICK e \in Older(c) : d = [e EXCEPT !.dies = RemainingTtl(e)]
  BY <1>1 DEF Restored
<1>4. e \in client[c].read /\ e \in PendingOtp /\ e.code <= codes
  BY <1>3, ReadType DEF Older
<1>5. d \in PendingOtp /\ d.code = e.code
  BY <1>3, <1>4, SameCode
<1>6. ASSUME p \notin unsure PROVE e.code = mailed[p]
  <2>1. PICK old \in PendingOtp, new \in PendingOtp :
          client[c].read = {old, new} /\ old.code < new.code /\ old.code = mailed[p]
    BY <1>2, <1>6 DEF CodesInv, ReliesInv, Relies
  <2>2. old.code \in Nat /\ new.code \in Nat /\ ~(new.code <= old.code)
    BY <2>1 DEF PendingOtp
  <2> QED
    BY <1>3, <2>1, <2>2 DEF Older
<1>7. account' \in {"none", "open"} /\ {d} \in SUBSET PendingOtp
  BY <1>2, <1>5 DEF CodesInv, CodesTypeOK
<1>8. \A f \in {d} : f.code <= codes /\ (p \notin unsure /\ Alone(c) => f.code = mailed[p])
  BY <1>4, <1>5, <1>6
<1> QED
  BY <1>1, <1>2, <1>7, <1>8, WritesBackHolds

\* A wrong guess writes its entry back, with one attempt more.
LEMMA CountAttemptHolds ==
  ASSUME CodesInv, NEW c \in Client, CountAttempt(c)
  PROVE  CodesInv'
<1> PICK p \in Purpose : p = client[c].purpose
  BY ReadType
<1>1. PICK e \in client[c].read :
        Keep(c, {[e EXCEPT !.attempts = @ + 1, !.dies = RemainingTtl(e)]}, {})
  BY DEF CountAttempt, Set
<1>2. client[c].step = "wrong" /\ Ends(c) /\ UNCHANGED <<now, account, codes, mailed>>
  BY DEF CountAttempt
<1>3. e \in PendingOtp /\ e.code <= codes /\ e.attempts < MaxAttempts
  BY <1>2, ReadType DEF CodesInv, IssuedInv
<1>4. RemainingTtl(e) \in Nat /\ e.attempts + 1 \in 0 .. MaxAttempts
  <2>1. RemainingTtl(e) \in Nat
    BY <1>3, SameCode
  <2> QED
    BY <1>3, <2>1, AccountBounds DEF PendingOtp
<1> DEFINE d == [e EXCEPT !.attempts = @ + 1, !.dies = RemainingTtl(e)]
<1>5. d \in PendingOtp /\ d.code = e.code
  <2>1. d = [[e EXCEPT !.dies = RemainingTtl(e)] EXCEPT !.attempts = e.attempts + 1]
    BY <1>3 DEF PendingOtp
  <2>2. [e EXCEPT !.dies = RemainingTtl(e)] \in PendingOtp
    BY <1>3, SameCode
  <2>3. [e EXCEPT !.dies = RemainingTtl(e)].code = e.code
    BY <1>3, SameCode
  <2> QED
    BY <1>4, <2>1, <2>2, <2>3 DEF PendingOtp
<1>6. Keep(c, {d}, {})
  BY <1>1
<1> HIDE DEF d
<1>7. account' \in {"none", "open"} /\ {d} \in SUBSET PendingOtp
  BY <1>2, <1>5 DEF CodesInv, CodesTypeOK
<1>8. p \notin unsure /\ Alone(c) => e.code = mailed[p]
  <2>1. p \notin unsure => e \in pending[p]
    BY <1>2 DEF CodesInv, ReliesInv, Relies
  <2>2. ~Mailing(c, p)
    BY <1>2 DEF Mailing
  <2> QED
    BY <2>1, <2>2, AloneSettled DEF Settled
<1>9. \A f \in {d} : f.code <= codes /\ (p \notin unsure /\ Alone(c) => f.code = mailed[p])
  BY <1>3, <1>5, <1>8
<1> QED
  BY <1>2, <1>6, <1>7, <1>9, WritesBackHolds

\* A key that goes takes its purpose with it.
LEMMA DropHolds ==
  ASSUME CodesInv, NEW c \in Client, client[c].step # "idle", Ends(c), Del(c),
         account' \in {"none", "open"}, UNCHANGED <<now, codes, mailed>>
  PROVE  CodesInv'
<1> PICK p \in Purpose : p = client[c].purpose
  BY ReadType
<1>1. Keep(c, {}, {p}) /\ {} \in SUBSET PendingOtp
  BY DEF Del
<1> QED
  BY <1>1, WritesBackHolds

LEMMA DropsHold ==
  ASSUME CodesInv, NEW c \in Client, MailFails(c) \/ DropSpent(c) \/ ResetPassword(c)
  PROVE  CodesInv'
<1>1. account \in {"none", "open"}
  BY DEF CodesInv, CodesTypeOK
<1> QED
  BY <1>1, DropHolds DEF MailFails, DropSpent, ResetPassword

\* The right code: the key goes, or it stays and still is what was mailed.
LEMMA RightHolds ==
  ASSUME CodesInv, NEW c \in Client, VerifyOtp(c) \/ UpdatePassword(c)
  PROVE  CodesInv'
<1> PICK p \in Purpose : p = client[c].purpose
  BY ReadType
<1>1. client[c].step = "right"
  BY DEF VerifyOtp, UpdatePassword
<1>2. ASSUME Ends(c), UNCHANGED <<now, pending, delayed, unsure, codes, mailed>>,
             account' \in {"none", "open"}
      PROVE  CodesInv'
  <2>1. p \notin unsure' => Settled(p)' \/ \E d \in Client : d # c /\ Mailing(d, p)
    BY <1>1, <1>2 DEF Mailing, CodesInv, SettledInv, Settled
  <2>2. /\ pending' \in [Purpose -> SUBSET PendingOtp] /\ mailed' \in [Purpose -> 0 .. MaxCodes]
        /\ delayed' \subseteq Write /\ unsure' \subseteq Purpose
    BY <1>2 DEF CodesInv, CodesTypeOK
  <2>3. /\ \A o \in Purpose : \A e \in pending'[o] : e.code <= codes
        /\ \A w \in delayed' : \A e \in w.entries : e.code <= codes
    BY <1>2 DEF CodesInv, IssuedInv
  <2> QED
    BY <1>1, <1>2, <2>1, <2>2, <2>3, EndsHolds
<1>3. account \in {"none", "open"}
  BY DEF CodesInv, CodesTypeOK
<1>4. CASE VerifyOtp(c)
  <2>1. Ends(c) /\ UNCHANGED <<now, codes, mailed>>
    BY <1>4 DEF VerifyOtp
  <2>2. account' \in {"none", "open"} /\ (Del(c) \/ UNCHANGED <<pending, delayed, unsure>>)
    BY <1>3, <1>4, KeptVars DEF VerifyOtp
  <2> QED
    BY <1>1, <1>2, <2>1, <2>2, DropHolds
<1>5. CASE UpdatePassword(c)
  <2>1. UNCHANGED <<now, account, pending, delayed, unsure, codes, mailed>>
    BY <1>5, KeptVars DEF UpdatePassword
  <2>2. p = "password-reset" /\ (Ends(c) \/ Goes(c, "changed", "password-reset", {}))
    BY <1>5 DEF UpdatePassword
  <2>3. "password-reset" \in Purpose /\ {} \in SUBSET pending["password-reset"]
    BY DEF Purpose
  <2> QED
    BY <1>1, <1>2, <1>3, <2>1, <2>2, <2>3, BeginHolds
<1> QED
  BY <1>4, <1>5

\* Of a purpose about which a write has come late nothing is claimed.
LEMMA ArrivesLateHolds ==
  ASSUME CodesInv, ArrivesLate
  PROVE  CodesInv'
<1>1. PICK w \in delayed :
        /\ Holds(w.purpose, {[e EXCEPT !.dies = now + @] : e \in w.entries})
        /\ delayed' = delayed \ {w}
        /\ unsure' = unsure \cup {w.purpose}
  BY DEF ArrivesLate
<1>2. UNCHANGED <<now, account, codes, mailed, client>>
  BY DEF ArrivesLate
<1>3. w.purpose \in Purpose /\ w.entries \in SUBSET PendingOtp
  BY DEF CodesInv, CodesTypeOK, Write
<1> PICK p \in Purpose : p = w.purpose
  BY <1>3
<1> DEFINE entries == {[e EXCEPT !.dies = now + @] : e \in w.entries}
<1>4. entries \in SUBSET PendingOtp /\ \A e \in entries : e.code <= codes
  <2>1. ASSUME NEW e \in w.entries
        PROVE  [e EXCEPT !.dies = now + @] \in PendingOtp
               /\ [e EXCEPT !.dies = now + @].code = e.code /\ e.code <= codes
    BY <1>3 DEF PendingOtp, CodesInv, CodesTypeOK, IssuedInv
  <2> QED
    BY <2>1
<1>5. Holds(p, entries)
  BY <1>1
<1> HIDE DEF entries
<1>6. /\ pending' \in [Purpose -> SUBSET PendingOtp] /\ pending'[p] = entries
      /\ \A o \in Purpose : o # p => pending'[o] = pending[o]
  BY <1>4, <1>5 DEF Holds, CodesInv, CodesTypeOK
<1>7. CodesTypeOK' /\ IssuedInv'
  <2>1. CodesTypeOK'
    BY <1>1, <1>2, <1>6 DEF CodesInv, CodesTypeOK
  <2> QED
    BY <1>1, <1>2, <1>4, <1>6, <2>1 DEF CodesInv, IssuedInv
<1>8. \A o \in Purpose : o \notin unsure' => o # p /\ o \notin unsure
  BY <1>1
<1>9. ReliesInv'
  <2>1. ASSUME NEW c \in Client PROVE Relies(c)'
    <3>1. PICK o \in Purpose : o = client[c].purpose
      BY ReadType
    <3>2. o \notin unsure' => pending'[o] = pending[o] /\ mailed'[o] = mailed[o] /\ o \notin unsure
      BY <1>2, <1>6, <1>8
    <3>3. Relies(c) /\ client'[c] = client[c]
      BY <1>2 DEF CodesInv, ReliesInv
    <3> QED
      BY <3>1, <3>2, <3>3 DEF Relies
  <2> QED
    BY <2>1 DEF ReliesInv
<1>10. MailingInv' /\ SettledInv'
  BY <1>2, <1>6, <1>8 DEF CodesInv, MailingInv, SettledInv, Settled, Mailing
<1> QED
  BY <1>7, <1>9, <1>10 DEF CodesInv

LEMMA CodesStepHolds == CodesInv /\ [CodesNext]_codeVars => CodesInv'
<1> SUFFICES ASSUME CodesInv, [CodesNext]_codeVars PROVE CodesInv'
  OBVIOUS
<1>1. ASSUME UNCHANGED <<account, pending, delayed, unsure, codes, mailed, client>>, now' \in Nat
      PROVE  CodesInv'
  <2>1. CodesTypeOK' /\ IssuedInv'
    BY <1>1 DEF CodesInv, CodesTypeOK, IssuedInv
  <2>2. ReliesInv'
    BY <1>1 DEF CodesInv, ReliesInv, Relies
  <2>3. MailingInv' /\ SettledInv'
    BY <1>1 DEF CodesInv, MailingInv, SettledInv, Settled, Mailing
  <2> QED
    BY <2>1, <2>2, <2>3 DEF CodesInv
<1>2. CASE Tick
  BY <1>1, <1>2, KeptVars DEF Tick, CodesInv, CodesTypeOK
<1>3. ASSUME NEW c \in Client, CustomerController(c)
      PROVE  CodesInv'
  BY <1>3, BeginsHold, MakesHold, MailHolds, ResendFailsHolds, CountAttemptHolds, DropsHold,
     RightHolds DEF CustomerController
<1>4. CASE UNCHANGED codeVars
  BY <1>1, <1>4 DEF codeVars, CodesInv, CodesTypeOK
<1> QED
  BY <1>2, <1>3, <1>4, ArrivesLateHolds DEF CodesNext

\* The codes do not depend on the pictures.
LEMMA PicturesKeepCodes == PicturesNext => UNCHANGED codeVars
BY DEF PicturesNext, ProfileController, CustomerImage, TenantLogo, LocalStorageProvider, Upload,
   Remove, GetStream, Save, DeleteFile, Get, RecordKey, RecordFails, ClearKey, Stopped

LEMMA CodesAlwaysHold == AccountsSpec => []CodesInv
<1>1. AccountsInit => CodesInv
  BY CodesInitHolds DEF AccountsInit
<1>2. CodesInv /\ [AccountsNext]_accountVars => CodesInv'
  <2>1. [AccountsNext]_accountVars => [CodesNext]_codeVars
    BY PicturesKeepCodes DEF AccountsNext, accountVars
  <2> QED
    BY <2>1, CodesStepHolds
<1> QED
  BY <1>1, <1>2, PTL DEF AccountsSpec

\* Codes, entries and the requests about an address keep their types: a flow
\* counts its codes and guesses within their limits.
THEOREM CodesTypeCorrect == AccountsSpec => []CodesTypeOK
<1>1. CodesInv => CodesTypeOK
  BY DEF CodesInv
<1> QED
  BY <1>1, CodesAlwaysHold, PTL

\* The code mailed last is the one that counts, for any number of requests,
\* codes, flows and expiries, and whatever Redis and the mail server refuse,
\* unless a write for that purpose failed, came late or crossed another request
\* and nothing has made it good since.
THEOREM LastMailedCounts == AccountsSpec => []LastMailedCodeCounts
<1>1. CodesInv => LastMailedCodeCounts
  BY DEF CodesInv, SettledInv, Settled, Mailing, LastMailedCodeCounts
<1> QED
  BY <1>1, CodesAlwaysHold, PTL

-----------------------------------------------------------------------------
(* The caches: types *)

LEMMA NoCallType == NoCall \in CallState
BY CacheBounds DEF NoCall, CallState, Version

LEMMA NoEditType == NoEdit \in EditorState
<1>1. (CHOOSE r \in Row : TRUE) \in Row
  BY CacheBounds
<1> QED
  BY <1>1, CacheBounds DEF NoEdit, EditorState, Version

LEMMA CacheTypeInit == Init => TypeOK
<1> SUFFICES ASSUME Init PROVE TypeOK
  OBVIOUS
<1>1. 0 \in Version
  BY CacheBounds DEF Version
<1>2. row \in [Row -> Version]
  <2>1. \A r \in Row : row[r] \in Version
    BY CacheBounds DEF Init, Version
  <2> QED
    BY <2>1 DEF Init
<1>3. kept \in [Row -> Under]
  BY DEF Init, Under
<1> QED
  BY <1>1, <1>2, <1>3, NoCallType, NoEditType DEF Init, TypeOK, Exists

\* What a call becomes is a call, and the other requests keep theirs.
LEMMA CallsOne ==
  ASSUME TypeOK, NEW q \in Request, NEW c \in CallState, Calls(q, c)
  PROVE  /\ call' \in [Request -> CallState]
         /\ call'[q] = c
         /\ \A p \in Request : p # q => call'[p] = call[p]
BY DEF TypeOK, Calls

LEMMA EditsOne ==
  ASSUME TypeOK, NEW e \in Editor, NEW s \in EditorState, Edits(e, s)
  PROVE  /\ editor' \in [Editor -> EditorState]
         /\ editor'[e] = s
         /\ \A f \in Editor : f # e => editor'[f] = editor[f]
BY DEF TypeOK, Edits

\* The call that each step of reading makes of its own.
AskedCall(q, kind, ids) ==
  LET hits == IF kind = "bare" THEN {} ELSE RequestHits(q, ids)
  IN  [NoCall EXCEPT !.step = IF hits = ids THEN "found" ELSE "asking",
                     !.kind = kind, !.ids = ids, !.hits = hits]

AnsweredCall(q, answer) ==
  LET found == {r \in Wanted(q) : answer[r] \notin {None, 0}}
      nulls == {r \in Wanted(q) : answer[r] = 0 /\ TakesNull(q)}
  IN  [call[q] EXCEPT
         !.step = IF found \cup nulls = Wanted(q) THEN "found" ELSE "missing",
         !.nulls = nulls,
         !.got = [r \in Row |-> IF r \in found THEN answer[r] ELSE 0]]

LoadedCall(q) ==
  LET missing == {r \in Wanted(q) \ call[q].nulls : call[q].got[r] = 0}
  IN  [call[q] EXCEPT !.step = "storing", !.loaded = missing,
                      !.got = [r \in Row |-> IF r \in missing THEN row[r] ELSE @[r]]]

StoredCall(q) == [call[q] EXCEPT !.step = "found", !.loaded = {}]

ReturnedCall(q) == [call[q] EXCEPT !.step = "answered", !.got = Merged(q)]

\* What the request has of a hit is still there when the call returns.
HitsInv == \A q \in Request : \A r \in call[q].hits : own[q][r] # {}

LEMMA AskedCallType ==
  ASSUME TypeOK, NEW q \in Request, NEW kind \in {"many", "single", "bare"},
         NEW ids \in SUBSET Row
  PROVE  AskedCall(q, kind, ids) \in CallState
<1> DEFINE hits == IF kind = "bare" THEN {} ELSE RequestHits(q, ids)
<1> DEFINE step == IF hits = ids THEN "found" ELSE "asking"
<1>1. hits \in SUBSET Row /\ step \in {"found", "asking"}
  BY DEF RequestHits
<1>2. AskedCall(q, kind, ids) = [NoCall EXCEPT !.step = step, !.kind = kind, !.ids = ids,
                                              !.hits = hits]
  BY DEF AskedCall
<1> HIDE DEF hits, step
<1> QED
  BY <1>1, <1>2, NoCallType DEF CallState

LEMMA AnsweredCallType ==
  ASSUME TypeOK, NEW q \in Request, NEW answer \in [Row -> Under]
  PROVE  AnsweredCall(q, answer) \in CallState
<1> DEFINE found == {r \in Wanted(q) : answer[r] \notin {None, 0}}
<1> DEFINE nulls == {r \in Wanted(q) : answer[r] = 0 /\ TakesNull(q)}
<1> DEFINE got == [r \in Row |-> IF r \in found THEN answer[r] ELSE 0]
<1>1. call[q] \in CallState
  BY DEF TypeOK
<1>2. got \in [Row -> Version]
  BY CacheBounds DEF Version, Under
<1>3. nulls \in SUBSET Row
  BY <1>1 DEF Wanted, CallState
<1>4. AnsweredCall(q, answer) =
        [call[q] EXCEPT !.step = IF found \cup nulls = Wanted(q) THEN "found" ELSE "missing",
                        !.nulls = nulls, !.got = got]
  BY DEF AnsweredCall
<1> HIDE DEF found, nulls, got
<1> QED
  BY <1>1, <1>2, <1>3, <1>4 DEF CallState

LEMMA LoadedCallType ==
  ASSUME TypeOK, NEW q \in Request
  PROVE  LoadedCall(q) \in CallState
<1>1. call[q] \in CallState /\ row \in [Row -> Version]
  BY DEF TypeOK
<1>2. Wanted(q) \in SUBSET Row
  BY <1>1 DEF Wanted, CallState
<1> QED
  BY <1>1, <1>2 DEF LoadedCall, CallState

LEMMA StoredCallType ==
  ASSUME TypeOK, NEW q \in Request
  PROVE  StoredCall(q) \in CallState
<1>1. call[q] \in CallState
  BY DEF TypeOK
<1> QED
  BY <1>1 DEF StoredCall, CallState

LEMMA ReturnedCallType ==
  ASSUME TypeOK, HitsInv, NEW q \in Request
  PROVE  ReturnedCall(q) \in CallState
<1>1. call[q] \in CallState
  BY DEF TypeOK
<1>2. Merged(q) \in [Row -> Version]
  <2>1. ASSUME NEW r \in Row, r \in call[q].hits
        PROVE  (CHOOSE v \in own[q][r] : TRUE) \in Version
    <3>1. own[q][r] # {} /\ own[q][r] \subseteq Version
      BY <2>1 DEF HitsInv, TypeOK
    <3> QED
      BY <3>1
  <2>2. ASSUME NEW r \in Row
        PROVE  call[q].got[r] \in Version
    BY <1>1 DEF CallState
  <2> QED
    BY <2>1, <2>2 DEF Merged
<1> QED
  BY <1>1, <1>2 DEF ReturnedCall, CallState

-----------------------------------------------------------------------------
(* The caches: the invariant *)

\* What a caller of a cached method will get of a row that was there all along:
\* it is not 0 in what the request has, and not in what the call has found.
PresentInv == \A q \in Request : \A r \in there[q] : row[r] # 0 /\ 0 \notin own[q][r]

AnswersInv == \A q \in Request :
  call[q].step \in {"storing", "found"} =>
    \A r \in Wanted(q) \cap there[q] : call[q].got[r] # 0 \/ r \in call[q].nulls

\* Only a read of many rows from Redis takes a null for an answer, or one that
\* asks the provider itself.
NullsInv == \A q \in Request :
  call[q].nulls # {} => call[q].step # "idle" /\ TakesNull(q)

CallsInv == HitsInv /\ PresentInv /\ AnswersInv /\ NullsInv /\ EveryRowIsAnswered

\* Two commands that are under way are about different rows.
ApartInv == \A e, f \in Editor :
  e # f /\ editor[e].step # "idle" /\ editor[f].step # "idle" => editor[e].row # editor[f].row

\* A key that a SCAN did not see holds nothing that is old without an excuse.
ScanInv == \A e \in Editor : LET r == editor[e].row IN
  editor[e].step = "scanned" /\ r \notin editor[e].seen => kept[r] \in {None, row[r]} \/ r \in excused

\* What a call has loaded and not stored is the row's version, or overtaken.
LoadsInv == \A q \in Request :
  /\ call[q].step # "storing" => call[q].loaded = {}
  /\ \A r \in call[q].loaded : call[q].got[r] = row[r] \/ r \in overtaken[q]

StaleInv == ApartInv /\ ScanInv /\ LoadsInv /\ StaleNeedsAnExcuse

\* The inductive invariant.
CacheInv == TypeOK /\ CallsInv /\ StaleInv

LEMMA CacheInitHolds == Init => CacheInv
<1> SUFFICES ASSUME Init PROVE CacheInv
  OBVIOUS
<1>1. TypeOK
  BY CacheTypeInit
<1>2. CallsInv
  BY DEF Init, NoCall, Exists, CallsInv, HitsInv, PresentInv, AnswersInv, NullsInv,
     EveryRowIsAnswered
<1>3. StaleInv
  BY DEF Init, NoCall, NoEdit, StaleInv, ApartInv, ScanInv, LoadsInv, StaleNeedsAnExcuse
<1> QED
  BY <1>1, <1>2, <1>3 DEF CacheInv

-----------------------------------------------------------------------------
(* The caches: reading *)

\* A step of one request, while the rows stay as they are.
LEMMA CallsHold ==
  ASSUME CacheInv, NEW q \in Request, NEW c \in CallState, Calls(q, c),
         UNCHANGED <<row, provider>>,
         \A p \in Request : p # q => own'[p] = own[p] /\ there'[p] = there[p],
         \A r \in there'[q] : row[r] # 0 /\ 0 \notin own'[q][r],
         \A r \in c.hits : own'[q][r] # {},
         c.step \in {"storing", "found"} =>
           \A r \in (c.ids \ c.hits) \cap there'[q] : c.got[r] # 0 \/ r \in c.nulls,
         c.nulls # {} => /\ c.step # "idle"
                         /\ c.kind = "bare" \/ (c.kind = "many" /\ provider = "redis"),
         c.step = "answered" =>
           \A r \in c.ids \cap there'[q] : c.got[r] # 0 \/ r \in c.nulls
  PROVE  CallsInv'
<1>1. /\ call'[q] = c
      /\ \A p \in Request : p # q => call'[p] = call[p]
  BY CallsOne DEF CacheInv
<1>2. HitsInv'
  BY <1>1 DEF CacheInv, CallsInv, HitsInv
<1>3. PresentInv'
  BY DEF CacheInv, CallsInv, PresentInv
<1>4. AnswersInv'
  BY <1>1 DEF CacheInv, CallsInv, AnswersInv, Wanted
<1>5. NullsInv'
  BY <1>1 DEF CacheInv, CallsInv, NullsInv, TakesNull
<1>6. EveryRowIsAnswered'
  <2>1. c.nulls # {} => c.kind # "single"
    OBVIOUS
  <2> QED
    BY <1>1, <2>1 DEF CacheInv, CallsInv, EveryRowIsAnswered
<1> QED
  BY <1>2, <1>3, <1>4, <1>5, <1>6 DEF CallsInv

LEMMA LoadsHold ==
  ASSUME CacheInv, NEW q \in Request, NEW c \in CallState, Calls(q, c),
         UNCHANGED <<row, kept, editor, overtaken, excused>>,
         c.step # "storing" => c.loaded = {},
         \A r \in c.loaded : c.got[r] = row[r]
  PROVE  StaleInv'
<1>1. /\ call'[q] = c
      /\ \A p \in Request : p # q => call'[p] = call[p]
  BY CallsOne DEF CacheInv
<1>2. LoadsInv'
  BY <1>1 DEF CacheInv, StaleInv, LoadsInv
<1> QED
  BY <1>2 DEF CacheInv, StaleInv, ApartInv, ScanInv, StaleNeedsAnExcuse

\* A call that begins, or one that ends, has loaded nothing.
LEMMA AskHolds ==
  ASSUME CacheInv, NEW q \in Request, NEW kind \in {"many", "single", "bare"},
         NEW ids \in SUBSET Row, Ask(q, kind, ids)
  PROVE  CacheInv'
<1> DEFINE c == AskedCall(q, kind, ids)
<1>1. c \in CallState /\ Calls(q, c)
  BY AskedCallType DEF CacheInv, Ask, AskedCall
<1>2. UNCHANGED <<provider, row, kept, breaker, late, own, editor, there, overtaken, excused>>
  BY DEF Ask, stores, ghosts
<1>3. /\ c.step \in {"found", "asking"} /\ c.loaded = {} /\ c.ids = ids
      /\ c.nulls = {} /\ c.hits \subseteq ids
      /\ c.step = "found" => c.hits = ids
      /\ \A r \in c.hits : own[q][r] # {}
  <2> DEFINE hits == IF kind = "bare" THEN {} ELSE RequestHits(q, ids)
  <2>1. hits \subseteq ids /\ \A r \in hits : own[q][r] # {}
    BY DEF RequestHits
  <2>2. c = [NoCall EXCEPT !.step = IF hits = ids THEN "found" ELSE "asking",
                           !.kind = kind, !.ids = ids, !.hits = hits]
    BY DEF AskedCall
  <2> HIDE DEF hits, c
  <2> QED
    BY <2>1, <2>2 DEF NoCall
<1> HIDE DEF c
<1>4. CallsInv'
  BY <1>1, <1>2, <1>3, CallsHold DEF CacheInv, CallsInv, PresentInv
<1>5. StaleInv'
  BY <1>1, <1>2, <1>3, LoadsHold
<1>6. TypeOK'
  BY <1>1, <1>2, CallsOne DEF CacheInv, TypeOK
<1> QED
  BY <1>4, <1>5, <1>6 DEF CacheInv

\* What is found is not 0, and what is not found is loaded or a null.
LEMMA AnswerHolds ==
  ASSUME CacheInv, NEW q \in Request, NEW answer \in [Row -> Under], Answer(q, answer),
         breaker' \in {"closed", "open", "halfOpen"}, UNCHANGED <<there, overtaken, excused>>
  PROVE  CacheInv'
<1> DEFINE c == AnsweredCall(q, answer)
<1>1. c \in CallState /\ Calls(q, c) /\ call[q].step = "asking"
  BY AnsweredCallType DEF CacheInv, Answer, AnsweredCall
<1>2. UNCHANGED <<provider, row, kept, late, own, editor>>
  BY DEF Answer
<1>3. /\ c.step \in {"found", "missing"} /\ c.loaded = {}
      /\ c.ids = call[q].ids /\ c.hits = call[q].hits
      /\ c.step = "found" => \A r \in (c.ids \ c.hits) : c.got[r] # 0 \/ r \in c.nulls
      /\ c.nulls # {} => c.kind = "bare" \/ (c.kind = "many" /\ provider = "redis")
  <2> DEFINE found == {r \in Wanted(q) : answer[r] \notin {None, 0}}
  <2> DEFINE nulls == {r \in Wanted(q) : answer[r] = 0 /\ TakesNull(q)}
  <2>1. call[q] \in CallState /\ call[q].loaded = {}
    BY <1>1 DEF CacheInv, TypeOK, StaleInv, LoadsInv
  <2>2. c = [call[q] EXCEPT !.step = IF found \cup nulls = Wanted(q) THEN "found"
                                                                      ELSE "missing",
                            !.nulls = nulls,
                            !.got = [r \in Row |-> IF r \in found THEN answer[r] ELSE 0]]
    BY DEF AnsweredCall
  <2>3. c.ids \ c.hits = Wanted(q) /\ Wanted(q) \subseteq Row
    BY <2>1, <2>2 DEF Wanted, CallState
  <2>4. /\ \A r \in found : answer[r] # 0 /\ r \in Row
        /\ nulls # {} => TakesNull(q)
    BY <2>3
  <2> HIDE DEF found, nulls, c
  <2>5. c.step = "found" => found \cup nulls = Wanted(q)
    BY <2>1, <2>2 DEF CallState
  <2>6. c.got = [r \in Row |-> IF r \in found THEN answer[r] ELSE 0]
    BY <2>1, <2>2 DEF CallState
  <2>7. /\ c.step \in {"found", "missing"} /\ c.loaded = {}
        /\ c.ids = call[q].ids /\ c.hits = call[q].hits
        /\ c.nulls = nulls /\ c.kind = call[q].kind
    BY <2>1, <2>2 DEF CallState
  <2>8. c.nulls # {} => c.kind = "bare" \/ (c.kind = "many" /\ provider = "redis")
    BY <2>4, <2>7 DEF TakesNull
  <2> QED
    BY <2>3, <2>4, <2>5, <2>6, <2>7, <2>8
<1> HIDE DEF c
<1>4. CallsInv'
  BY <1>1, <1>2, <1>3, CallsHold
     DEF CacheInv, CallsInv, PresentInv, HitsInv, NullsInv, TakesNull
<1>5. StaleInv'
  BY <1>1, <1>2, <1>3, LoadsHold
<1>6. TypeOK'
  BY <1>1, <1>2, CallsOne DEF CacheInv, TypeOK
<1> QED
  BY <1>4, <1>5, <1>6 DEF CacheInv

\* A row that was there all along is there when it is loaded.
LEMMA LoadHolds ==
  ASSUME CacheInv, NEW q \in Request, LoadMany(q)
  PROVE  CacheInv'
<1> DEFINE c == LoadedCall(q)
<1>1. c \in CallState /\ Calls(q, c)
  BY LoadedCallType DEF CacheInv, LoadMany, LoadedCall
<1>2. UNCHANGED <<provider, row, kept, breaker, late, own, editor, there, overtaken, excused>>
  BY DEF LoadMany, stores, ghosts
<1>3. /\ c.step = "storing"
      /\ c.ids = call[q].ids /\ c.hits = call[q].hits
      /\ \A r \in c.loaded : c.got[r] = row[r]
      /\ c.nulls = call[q].nulls /\ c.kind = call[q].kind
      /\ \A r \in (c.ids \ c.hits) \cap there[q] : c.got[r] # 0 \/ r \in c.nulls
  <2> DEFINE missing == {r \in Wanted(q) \ call[q].nulls : call[q].got[r] = 0}
  <2>1. call[q] \in CallState
    BY DEF CacheInv, TypeOK
  <2>2. c = [call[q] EXCEPT !.step = "storing", !.loaded = missing,
                            !.got = [r \in Row |-> IF r \in missing THEN row[r] ELSE @[r]]]
    BY DEF LoadedCall
  <2>3. c.ids \ c.hits = Wanted(q) /\ Wanted(q) \subseteq Row
    BY <2>1, <2>2 DEF Wanted, CallState
  <2>4. \A r \in Wanted(q) : r \in missing \/ call[q].got[r] # 0 \/ r \in call[q].nulls
    OBVIOUS
  <2>5. missing \subseteq Row /\ \A r \in there[q] : row[r] # 0
    BY <2>3 DEF CacheInv, CallsInv, PresentInv
  <2> HIDE DEF missing, c
  <2>6. /\ c.step = "storing" /\ c.loaded = missing
        /\ c.ids = call[q].ids /\ c.hits = call[q].hits
        /\ c.nulls = call[q].nulls /\ c.kind = call[q].kind
        /\ c.got = [r \in Row |-> IF r \in missing THEN row[r] ELSE call[q].got[r]]
    BY <2>1, <2>2 DEF CallState
  <2> QED
    BY <2>3, <2>4, <2>5, <2>6
<1> HIDE DEF c
<1>4. CallsInv'
  BY <1>1, <1>2, <1>3, CallsHold
     DEF CacheInv, CallsInv, PresentInv, HitsInv, NullsInv, TakesNull
<1>5. StaleInv'
  BY <1>1, <1>2, <1>3, LoadsHold
<1>6. TypeOK'
  BY <1>1, <1>2, CallsOne DEF CacheInv, TypeOK
<1> QED
  BY <1>4, <1>5, <1>6 DEF CacheInv

\* What was loaded is stored: it is the row, or it was overtaken and is excused.
LEMMA SetManyHolds ==
  ASSUME CacheInv, NEW q \in Request, SetMany(q) \/ SetManyFails(q)
  PROVE  CacheInv'
<1> DEFINE c == StoredCall(q)
<1>1. c \in CallState /\ Calls(q, c) /\ call[q].step = "storing"
  BY StoredCallType DEF CacheInv, SetMany, SetManyFails, StoredCall
<1>2. /\ UNCHANGED <<provider, row, own, editor, there>>
      /\ overtaken' = [overtaken EXCEPT ![q] = {}]
      /\ breaker' \in {"closed", "open", "halfOpen"}
  BY DEF SetMany, SetManyFails, Succeeds, Fails
<1>3. /\ c.step = "found" /\ c.loaded = {} /\ c.got = call[q].got
      /\ c.nulls = call[q].nulls /\ c.kind = call[q].kind
      /\ c.ids = call[q].ids /\ c.hits = call[q].hits
  BY DEF StoredCall, CacheInv, TypeOK, CallState
<1>4. Stored(q) \subseteq call[q].loaded /\ Stored(q) \subseteq Row /\ call[q] \in CallState
  BY DEF Stored, CacheInv, TypeOK, CallState
<1> HIDE DEF c
<1>5. CallsInv'
  <2>1. \A r \in (c.ids \ c.hits) \cap there[q] : c.got[r] # 0 \/ r \in c.nulls
    BY <1>1, <1>3 DEF CacheInv, CallsInv, AnswersInv, Wanted
  <2> QED
    BY <1>1, <1>2, <1>3, <2>1, CallsHold
       DEF CacheInv, CallsInv, PresentInv, HitsInv, NullsInv, TakesNull
<1>6. /\ call'[q] = c
      /\ \A p \in Request : p # q => call'[p] = call[p] /\ overtaken'[p] = overtaken[p]
      /\ call' \in [Request -> CallState]
      /\ overtaken' \in [Request -> SUBSET Row]
  BY <1>1, <1>2, CallsOne DEF CacheInv, TypeOK
<1>7. LoadsInv'
  BY <1>2, <1>3, <1>6 DEF CacheInv, StaleInv, LoadsInv
<1>8. CASE SetMany(q)
  <2>1. /\ kept' = [r \in Row |-> IF r \in Stored(q) THEN call[q].got[r] ELSE kept[r]]
        /\ excused' = (excused \ Stored(q)) \cup (Stored(q) \cap overtaken[q])
        /\ late' = late
    BY <1>8 DEF SetMany
  <2>2. TypeOK'
    <3>1. kept' \in [Row -> Under]
      BY <1>4, <2>1 DEF CacheInv, TypeOK, CallState, Under
    <3>2. excused' \in SUBSET Row
      BY <1>4, <2>1 DEF CacheInv, TypeOK
    <3> QED
      BY <1>2, <1>6, <2>1, <3>1, <3>2 DEF CacheInv, TypeOK
  <2>3. ASSUME NEW r \in Row
        PROVE  \/ kept'[r] = row[r] \/ r \in excused'
               \/ kept'[r] = kept[r] /\ (r \in excused' <=> r \in excused)
    BY <1>4, <2>1 DEF CacheInv, StaleInv, LoadsInv
  <2>4. StaleNeedsAnExcuse'
    BY <1>2, <2>3 DEF CacheInv, StaleInv, StaleNeedsAnExcuse
  <2>5. ScanInv'
    <3>1. \A e \in Editor : editor[e].row \in Row
      BY DEF CacheInv, TypeOK, EditorState
    <3> QED
      BY <1>2, <2>3, <3>1 DEF CacheInv, StaleInv, ScanInv
  <2>6. ApartInv'
    BY <1>2 DEF CacheInv, StaleInv, ApartInv
  <2> QED
    BY <1>5, <1>7, <2>2, <2>4, <2>5, <2>6 DEF CacheInv, StaleInv
<1>9. CASE SetManyFails(q)
  <2>1. /\ UNCHANGED <<kept, excused>>
        /\ MayArrive({[row |-> r, version |-> call[q].got[r]] : r \in Stored(q)})
    BY <1>9 DEF SetManyFails
  <2>2. {[row |-> r, version |-> call[q].got[r]] : r \in Stored(q)} \subseteq [row: Row, version: Under]
    BY <1>4 DEF CallState, Under
  <2>3. late' \subseteq [row: Row, version: Under]
    BY <2>1, <2>2 DEF MayArrive, CacheInv, TypeOK
  <2>4. TypeOK'
    BY <1>2, <1>6, <2>1, <2>3 DEF CacheInv, TypeOK
  <2> QED
    BY <1>2, <1>5, <1>7, <2>1, <2>4
       DEF CacheInv, StaleInv, ApartInv, ScanInv, StaleNeedsAnExcuse
<1> QED
  BY <1>8, <1>9

\* The answer is merged of what the request had and what came from below; both
\* have every row that was there all along.
LEMMA ReturnHolds ==
  ASSUME CacheInv, NEW q \in Request, Return(q)
  PROVE  CacheInv'
<1> DEFINE c == ReturnedCall(q)
<1>1. c \in CallState /\ Calls(q, c) /\ call[q].step = "found"
  BY ReturnedCallType DEF CacheInv, CallsInv, Return, ReturnedCall
<1>2. UNCHANGED <<provider, row, kept, breaker, late, editor, there, overtaken, excused>>
  BY DEF Return, stores, ghosts
<1>3. call[q] \in CallState /\ call[q].loaded = {}
  BY <1>1 DEF CacheInv, TypeOK, StaleInv, LoadsInv
<1>4. /\ c.step = "answered" /\ c.loaded = {} /\ c.got = Merged(q)
      /\ c.ids = call[q].ids /\ c.hits = call[q].hits
      /\ c.nulls = call[q].nulls /\ c.kind = call[q].kind
  BY <1>3 DEF ReturnedCall, CallState
<1> HIDE DEF c
<1>5. /\ \A p \in Request : p # q => own'[p] = own[p]
      /\ \A r \in Row : own'[q][r] = IF r \in Wanted(q) /\ Remembered(q, r)
                                     THEN {call[q].got[r]} ELSE own[q][r]
      /\ own' \in [Request -> [Row -> SUBSET Version]]
  BY <1>3 DEF Return, CacheInv, TypeOK, CallState
<1>6. Wanted(q) \subseteq Row /\ call[q].hits \subseteq Row /\ call[q].ids \subseteq Row
  BY <1>3 DEF Wanted, CallState
<1>7. there[q] \subseteq Row
  BY DEF CacheInv, TypeOK
<1>8. \A r \in Wanted(q) \cap there[q] : call[q].got[r] # 0 \/ r \in call[q].nulls
  BY <1>1 DEF CacheInv, CallsInv, AnswersInv
<1>9. \A r \in there[q] : row[r] # 0 /\ 0 \notin own'[q][r]
  <2>1. call[q].nulls # {} => call[q].kind # "single"
    BY DEF CacheInv, CallsInv, NullsInv, TakesNull
  <2> QED
    BY <1>5, <1>7, <1>8, <2>1 DEF CacheInv, CallsInv, PresentInv, Remembered
<1>10. \A r \in c.hits : own'[q][r] # {}
  BY <1>4, <1>5, <1>6 DEF CacheInv, CallsInv, HitsInv
<1>11. ASSUME NEW r \in c.ids \cap there'[q]
       PROVE  c.got[r] # 0 \/ r \in c.nulls
  <2>1. r \in Row /\ r \in call[q].ids /\ r \in there[q]
    BY <1>2, <1>4, <1>6
  <2>2. CASE r \in call[q].hits
    <3>1. own[q][r] # {} /\ 0 \notin own[q][r]
      BY <2>1, <2>2 DEF CacheInv, CallsInv, HitsInv, PresentInv
    <3>2. c.got[r] = CHOOSE v \in own[q][r] : TRUE
      BY <1>4, <2>1, <2>2 DEF Merged
    <3>3. c.got[r] \in own[q][r]
      BY <3>1, <3>2
    <3> QED
      BY <3>1, <3>3
  <2>3. CASE r \notin call[q].hits
    <3>1. c.got[r] = call[q].got[r]
      BY <1>4, <2>1, <2>3 DEF Merged
    <3> QED
      BY <1>4, <1>8, <2>1, <2>3, <3>1 DEF Wanted
  <2> QED
    BY <2>2, <2>3
<1>12. CallsInv'
  <2>1. call[q].nulls # {} => TakesNull(q)
    BY DEF CacheInv, CallsInv, NullsInv
  <2> QED
    BY <1>1, <1>2, <1>4, <1>5, <1>9, <1>10, <1>11, <2>1, CallsHold DEF TakesNull
<1>13. StaleInv'
  BY <1>1, <1>2, <1>4, LoadsHold
<1>14. TypeOK'
  BY <1>1, <1>2, <1>5, CallsOne DEF CacheInv, TypeOK
<1> QED
  BY <1>12, <1>13, <1>14 DEF CacheInv

\* The request goes on, or ends and begins again with nothing of its own.
LEMMA RequestContextHolds ==
  ASSUME CacheInv, NEW q \in Request, RequestContext(q)
  PROVE  CacheInv'
<1>1. NoCall \in CallState /\ Calls(q, NoCall)
  BY NoCallType DEF RequestContext, Continue, EndRequest
<1>2. UNCHANGED <<provider, row, kept, breaker, late, editor, overtaken, excused>>
  BY DEF RequestContext, Continue, EndRequest, stores, ghosts
<1>3. NoCall.step = "idle" /\ NoCall.loaded = {} /\ NoCall.hits = {} /\ NoCall.nulls = {}
  BY DEF NoCall
<1>4. /\ \A p \in Request : p # q => own'[p] = own[p] /\ there'[p] = there[p]
      /\ own' \in [Request -> [Row -> SUBSET Version]]
      /\ there' \in [Request -> SUBSET Row]
      /\ \A r \in there'[q] : row[r] # 0 /\ 0 \notin own'[q][r]
  <2>1. CASE Continue(q)
    BY <2>1 DEF Continue, ghosts, CacheInv, TypeOK, CallsInv, PresentInv
  <2>2. CASE EndRequest(q)
    BY <2>2 DEF EndRequest, Exists, CacheInv, TypeOK
  <2> QED
    BY <2>1, <2>2 DEF RequestContext
<1>5. CallsInv'
  BY <1>1, <1>2, <1>3, <1>4, CallsHold
<1>6. StaleInv'
  BY <1>1, <1>2, <1>3, LoadsHold
<1>7. TypeOK'
  BY <1>1, <1>2, <1>4, CallsOne DEF CacheInv, TypeOK
<1> QED
  BY <1>5, <1>6, <1>7 DEF CacheInv

-----------------------------------------------------------------------------
(* The caches: what Redis does on its own *)

LEMMA StoreHolds ==
  ASSUME CacheInv, HalfOpen \/ Arrives \/ (\E r \in Row : Expire(r))
  PROVE  CacheInv'
<1>1. UNCHANGED <<provider, row, own, call, editor, there, overtaken>>
  BY DEF HalfOpen, Arrives, Expire, ghosts
<1>2. CallsInv'
  BY <1>1 DEF CacheInv, CallsInv, HitsInv, PresentInv, AnswersInv, NullsInv,
     EveryRowIsAnswered, Wanted, TakesNull
<1>3. /\ kept' \in [Row -> Under] /\ excused' \in SUBSET Row
      /\ late' \subseteq [row: Row, version: Under]
      /\ breaker' \in {"closed", "open", "halfOpen"}
      /\ \A r \in Row : \/ kept'[r] = None \/ r \in excused'
                        \/ kept'[r] = kept[r] /\ (r \in excused' <=> r \in excused)
  <2>1. CASE HalfOpen
    BY <2>1 DEF HalfOpen, ghosts, CacheInv, TypeOK
  <2>2. CASE Arrives
    <3>1. PICK d \in late :
            /\ late' = late \ {d}
            /\ kept' = [kept EXCEPT ![d.row] = d.version]
            /\ excused' = IF d.version = None THEN excused \ {d.row} ELSE excused \cup {d.row}
            /\ breaker' = breaker
      BY <2>2 DEF Arrives
    <3>2. d.row \in Row /\ d.version \in Under
      BY DEF CacheInv, TypeOK
    <3> QED
      BY <3>1, <3>2 DEF CacheInv, TypeOK
  <2>3. CASE \E r \in Row : Expire(r)
    <3>1. None \in Under
      BY DEF Under
    <3> QED
      BY <2>3, <3>1 DEF Expire, CacheInv, TypeOK
  <2> QED
    BY <2>1, <2>2, <2>3
<1>4. TypeOK'
  BY <1>1, <1>3 DEF CacheInv, TypeOK
<1>5. \A e \in Editor : editor[e].row \in Row
  BY DEF CacheInv, TypeOK, EditorState
<1>6. StaleInv'
  BY <1>1, <1>3, <1>5
     DEF CacheInv, StaleInv, ApartInv, ScanInv, LoadsInv, StaleNeedsAnExcuse
<1> QED
  BY <1>2, <1>4, <1>6 DEF CacheInv

-----------------------------------------------------------------------------
(* The caches: writing *)

\* A command that changes neither rows nor keys leaves what requests rely on.
LEMMA EditKeepsCalls ==
  ASSUME CacheInv, UNCHANGED <<provider, row, own, call, there>>
  PROVE  CallsInv'
BY DEF CacheInv, CallsInv, HitsInv, PresentInv, AnswersInv, NullsInv, EveryRowIsAnswered,
       Wanted, TakesNull

\* A command begins about a row that no other is about, or is given up before it
\* has written.
LEMMA OpenHolds ==
  ASSUME CacheInv, NEW e \in Editor, Open(e) \/ Rollback(e)
  PROVE  CacheInv'
<1>1. UNCHANGED <<provider, row, kept, breaker, late, own, call, there, overtaken, excused>>
  BY DEF Open, Rollback, stores, ghosts
<1>2. /\ editor' \in [Editor -> EditorState]
      /\ \A f \in Editor : f # e => editor'[f] = editor[f]
      /\ editor[e].step \notin {"written", "scanned"}
      /\ \/ editor'[e].step = "idle"
         \/ /\ editor'[e].step = "open"
            /\ \A f \in Editor \ {e} : editor[f].step # "idle" => editor[f].row # editor'[e].row
  <2>1. CASE Open(e)
    <3>1. PICK r \in Row, v \in Version, how \in {"key", "prefix", "inside", "other"} :
            /\ editor[e].step = "idle"
            /\ \A f \in Editor \ {e} : editor[f].step # "idle" => editor[f].row # r
            /\ Edits(e, [step |-> "open", row |-> r, version |-> v, how |-> how, seen |-> {}])
      BY <2>1 DEF Open
    <3>2. [step |-> "open", row |-> r, version |-> v, how |-> how, seen |-> {}] \in EditorState
      BY DEF EditorState
    <3> QED
      BY <3>1, <3>2, EditsOne DEF CacheInv
  <2>2. CASE Rollback(e)
    BY <2>2, EditsOne, NoEditType DEF Rollback, CacheInv, NoEdit
  <2> QED
    BY <2>1, <2>2
<1>3. TypeOK'
  BY <1>1, <1>2 DEF CacheInv, TypeOK
<1>4. ApartInv'
  BY <1>2 DEF CacheInv, StaleInv, ApartInv
<1>5. ScanInv' /\ StaleNeedsAnExcuse' /\ LoadsInv'
  BY <1>1, <1>2 DEF CacheInv, StaleInv, ScanInv, StaleNeedsAnExcuse, LoadsInv
<1> QED
  BY <1>1, <1>3, <1>4, <1>5, EditKeepsCalls DEF CacheInv, StaleInv

\* A row that is written has its eviction to come, or came too late for it; what
\* was loaded of it is overtaken.
LEMMA CommitHolds ==
  ASSUME CacheInv, NEW e \in Editor, Commit(e)
  PROVE  CacheInv'
<1> DEFINE w == editor[e].row
<1> DEFINE s == IF EvictsAfter(e) THEN [editor[e] EXCEPT !.step = "written"] ELSE NoEdit
<1>1. /\ editor[e].step \in {"open", "evicted"}
      /\ row' = [row EXCEPT ![w] = editor[e].version]
      /\ there' = [q \in Request |-> there[q] \ {r \in {w} : editor[e].version = 0}]
      /\ overtaken' = [q \in Request |-> overtaken[q] \cup ({w} \cap call[q].loaded)]
      /\ excused' = IF EvictsAfter(e) THEN excused ELSE excused \cup {w}
      /\ Edits(e, s)
      /\ UNCHANGED <<provider, kept, breaker, late, own, call>>
  BY DEF Commit, CommitsAt
<1>2. editor[e] \in EditorState /\ w \in Row /\ editor[e].version \in Version
  BY DEF CacheInv, TypeOK, EditorState
<1>3. s \in EditorState
  BY <1>2, NoEditType DEF EditorState
<1>4. /\ editor' \in [Editor -> EditorState] /\ editor'[e] = s
      /\ \A f \in Editor : f # e => editor'[f] = editor[f]
  BY <1>1, <1>3, EditsOne DEF CacheInv
<1>5. \/ s.step = "idle" /\ w \in excused'
      \/ s.step = "written" /\ s.row = w
  BY <1>1, <1>2 DEF EditorState, NoEdit
<1> HIDE DEF s
<1>6. /\ row' \in [Row -> Version] /\ row'[w] = editor[e].version
      /\ \A r \in Row : r # w => row'[r] = row[r]
  BY <1>1, <1>2 DEF CacheInv, TypeOK
<1>7. excused \subseteq excused' /\ excused' \subseteq Row
  BY <1>1, <1>2 DEF CacheInv, TypeOK
<1>8. TypeOK'
  <2>1. there' \in [Request -> SUBSET Row] /\ overtaken' \in [Request -> SUBSET Row]
    BY <1>1, <1>2 DEF CacheInv, TypeOK
  <2> QED
    BY <1>1, <1>4, <1>6, <1>7, <2>1 DEF CacheInv, TypeOK
<1>9. CallsInv'
  <2>1. \A q \in Request : there'[q] \subseteq there[q] /\ there[q] \subseteq Row
    BY <1>1 DEF CacheInv, TypeOK
  <2>2. \A q \in Request : w \in there'[q] => editor[e].version # 0
    BY <1>1
  <2>3. PresentInv'
    BY <1>1, <1>6, <2>1, <2>2 DEF CacheInv, CallsInv, PresentInv
  <2>4. HitsInv' /\ AnswersInv' /\ NullsInv' /\ EveryRowIsAnswered'
    BY <1>1, <2>1
       DEF CacheInv, CallsInv, HitsInv, AnswersInv, NullsInv, EveryRowIsAnswered, Wanted,
           TakesNull
  <2> QED
    BY <2>3, <2>4 DEF CallsInv
<1>10. ApartInv'
  BY <1>1, <1>4, <1>5 DEF CacheInv, StaleInv, ApartInv
<1>11. ScanInv'
  <2>1. ASSUME NEW f \in Editor, editor'[f].step = "scanned"
        PROVE  /\ f # e /\ editor'[f] = editor[f]
               /\ editor[f].row # w /\ editor[f].row \in Row
    BY <1>1, <1>4, <1>5, <2>1 DEF CacheInv, StaleInv, ApartInv, TypeOK, EditorState
  <2> QED
    BY <1>1, <1>6, <1>7, <2>1 DEF CacheInv, StaleInv, ScanInv
<1>12. LoadsInv'
  <2>1. ASSUME NEW q \in Request
        PROVE  /\ call[q].loaded \subseteq Row /\ call'[q] = call[q]
               /\ overtaken'[q] = overtaken[q] \cup ({w} \cap call[q].loaded)
    BY <1>1 DEF CacheInv, TypeOK, CallState
  <2> QED
    BY <1>6, <2>1 DEF CacheInv, StaleInv, LoadsInv
<1>13. StaleNeedsAnExcuse'
  <2>1. ASSUME NEW r \in Row, kept'[r] \notin {None, row'[r]}
        PROVE  \/ r \in excused'
               \/ \E f \in Editor : editor'[f].row = r /\ editor'[f].step \in {"written", "scanned"}
    <3>1. CASE r = w
      BY <1>4, <1>5, <3>1
    <3>2. CASE r # w
      <4>1. \/ r \in excused
            \/ \E f \in Editor : editor[f].row = r /\ editor[f].step \in {"written", "scanned"}
        BY <1>1, <1>6, <2>1, <3>2 DEF CacheInv, StaleInv, StaleNeedsAnExcuse
      <4> QED
        BY <1>4, <1>7, <3>2, <4>1
    <3> QED
      BY <3>1, <3>2
  <2> QED
    BY <2>1 DEF StaleNeedsAnExcuse
<1> QED
  BY <1>8, <1>9, <1>10, <1>11, <1>12, <1>13 DEF CacheInv, StaleInv

\* What the SCAN does not see is not there, or it is the row by now.
LEMMA ScanHolds ==
  ASSUME CacheInv, NEW e \in Editor, Scan(e)
  PROVE  CacheInv'
<1> DEFINE s == [editor[e] EXCEPT !.step = "scanned", !.seen = {r \in Row : kept[r] # None}]
<1>1. /\ editor[e].step = "written" /\ Edits(e, s)
      /\ breaker' \in {"closed", "open", "halfOpen"}
      /\ UNCHANGED <<provider, row, kept, late, own, call, there, overtaken, excused>>
  BY DEF Scan, Succeeds, ghosts
<1>2. editor[e] \in EditorState
  BY DEF CacheInv, TypeOK
<1>3. /\ s \in EditorState /\ s.step = "scanned" /\ s.row = editor[e].row
      /\ s.seen = {r \in Row : kept[r] # None} /\ s.row \in Row
  BY <1>2 DEF EditorState
<1> HIDE DEF s
<1>4. /\ editor' \in [Editor -> EditorState] /\ editor'[e] = s
      /\ \A f \in Editor : f # e => editor'[f] = editor[f]
  BY <1>1, <1>3, EditsOne DEF CacheInv
<1>5. TypeOK'
  BY <1>1, <1>4 DEF CacheInv, TypeOK
<1>6. ApartInv' /\ ScanInv' /\ LoadsInv'
  BY <1>1, <1>3, <1>4 DEF CacheInv, StaleInv, ApartInv, ScanInv, LoadsInv
<1>7. StaleNeedsAnExcuse'
  BY <1>1, <1>3, <1>4 DEF CacheInv, StaleInv, StaleNeedsAnExcuse
<1> QED
  BY <1>1, <1>5, <1>6, <1>7, EditKeepsCalls DEF CacheInv, StaleInv

\* What an eviction makes of its command.
LEMMA EvictedOne ==
  ASSUME CacheInv, NEW e \in Editor, Evicted(e)
  PROVE  /\ editor' \in [Editor -> EditorState]
         /\ \A f \in Editor : f # e => editor'[f] = editor[f]
         /\ \/ editor'[e].step = "idle"
            \/ editor'[e].step = "evicted" /\ editor'[e].row = editor[e].row
<1> DEFINE s == IF EvictsBefore(e) THEN [editor[e] EXCEPT !.step = "evicted"] ELSE NoEdit
<1>1. Edits(e, s) /\ editor[e] \in EditorState
  BY DEF Evicted, CacheInv, TypeOK
<1>2. s \in EditorState
  BY <1>1, NoEditType DEF EditorState
<1>3. \/ s.step = "idle"
      \/ s.step = "evicted" /\ s.row = editor[e].row
  BY <1>1 DEF NoEdit, EditorState
<1> HIDE DEF s
<1> QED
  BY <1>1, <1>2, <1>3, EditsOne DEF CacheInv

\* A key that is evicted holds nothing; a row whose key the SCAN did not see was
\* accounted for then, and is.
LEMMA EvictHolds ==
  ASSUME CacheInv, NEW e \in Editor, Evict(e)
  PROVE  CacheInv'
<1>1. PICK rows \in SUBSET Row :
        /\ Evicts(e, rows)
        /\ Evicted(e)
        /\ Succeeds
        /\ kept' = [r \in Row |-> IF r \in rows THEN None ELSE kept[r]]
        /\ excused' = excused \ rows
        /\ UNCHANGED <<provider, row, late, own, call, there, overtaken>>
  BY DEF Evict
<1>2. /\ editor' \in [Editor -> EditorState]
      /\ \A f \in Editor : f # e => editor'[f] = editor[f]
      /\ \/ editor'[e].step = "idle"
         \/ editor'[e].step = "evicted" /\ editor'[e].row = editor[e].row
  BY <1>1, EvictedOne
<1>3. \/ editor[e].row \in rows
      \/ editor[e].step = "scanned" /\ rows = editor[e].seen
  BY <1>1 DEF Evicts
<1>4. editor[e].step # "idle"
  BY <1>1 DEF Evicts
<1>5. TypeOK'
  <2>1. kept' \in [Row -> Under]
    BY <1>1 DEF CacheInv, TypeOK, Under
  <2> QED
    BY <1>1, <1>2, <2>1 DEF CacheInv, TypeOK, Succeeds
<1>6. \A f \in Editor : editor[f].row \in Row
  BY DEF CacheInv, TypeOK, EditorState
<1>7. ASSUME NEW r \in Row
      PROVE  \/ kept'[r] = None
             \/ r \notin rows /\ kept'[r] = kept[r] /\ (r \in excused' <=> r \in excused)
  BY <1>1
<1>8. ApartInv'
  BY <1>2, <1>4 DEF CacheInv, StaleInv, ApartInv
<1>9. ScanInv'
  BY <1>1, <1>2, <1>6, <1>7 DEF CacheInv, StaleInv, ScanInv
<1>10. LoadsInv'
  BY <1>1 DEF CacheInv, StaleInv, LoadsInv
<1>11. StaleNeedsAnExcuse'
  <2>1. ASSUME NEW r \in Row, kept'[r] \notin {None, row'[r]}
        PROVE  \/ r \in excused'
               \/ \E f \in Editor : editor'[f].row = r /\ editor'[f].step \in {"written", "scanned"}
    <3>1. r \notin rows /\ kept'[r] = kept[r] /\ (r \in excused' <=> r \in excused)
      BY <1>7, <2>1
    <3>2. CASE r = editor[e].row
      BY <1>1, <1>3, <2>1, <3>1, <3>2 DEF CacheInv, StaleInv, ScanInv
    <3>3. CASE r # editor[e].row
      <4>1. \/ r \in excused
            \/ \E f \in Editor : editor[f].row = r /\ editor[f].step \in {"written", "scanned"}
        BY <1>1, <2>1, <3>1 DEF CacheInv, StaleInv, StaleNeedsAnExcuse
      <4> QED
        BY <1>2, <3>1, <3>3, <4>1
    <3> QED
      BY <3>2, <3>3
  <2> QED
    BY <2>1 DEF StaleNeedsAnExcuse
<1> QED
  BY <1>1, <1>5, <1>8, <1>9, <1>10, <1>11, EditKeepsCalls DEF CacheInv, StaleInv

\* A failed eviction excuses its row.
LEMMA EvictFailsHolds ==
  ASSUME CacheInv, NEW e \in Editor, EvictFails(e)
  PROVE  CacheInv'
<1>1. PICK rows \in SUBSET Row :
        /\ \/ Evicts(e, rows)
           \/ editor[e].step = "written" /\ editor[e].how = "prefix" /\ rows = {}
        /\ Evicted(e)
        /\ Fails
        /\ MayArrive({[row |-> r, version |-> None] : r \in rows})
        /\ excused' = excused \cup rows \cup {editor[e].row}
        /\ UNCHANGED <<provider, row, kept, own, call, there, overtaken>>
  BY DEF EvictFails
<1>2. /\ editor' \in [Editor -> EditorState]
      /\ \A f \in Editor : f # e => editor'[f] = editor[f]
      /\ \/ editor'[e].step = "idle"
         \/ editor'[e].step = "evicted" /\ editor'[e].row = editor[e].row
  BY <1>1, EvictedOne
<1>3. editor[e].step # "idle"
  BY <1>1 DEF Evicts
<1>4. \A f \in Editor : editor[f].row \in Row
  BY DEF CacheInv, TypeOK, EditorState
<1>5. TypeOK'
  <2>1. {[row |-> r, version |-> None] : r \in rows} \subseteq [row: Row, version: Under]
    BY DEF Under
  <2>2. late' \subseteq [row: Row, version: Under]
    BY <1>1, <2>1 DEF MayArrive, CacheInv, TypeOK
  <2> QED
    BY <1>1, <1>2, <1>4, <2>2 DEF CacheInv, TypeOK, Fails
<1>6. ApartInv'
  BY <1>2, <1>3 DEF CacheInv, StaleInv, ApartInv
<1>7. ScanInv' /\ LoadsInv'
  BY <1>1, <1>2 DEF CacheInv, StaleInv, ScanInv, LoadsInv
<1>8. StaleNeedsAnExcuse'
  BY <1>1, <1>2 DEF CacheInv, StaleInv, StaleNeedsAnExcuse
<1> QED
  BY <1>1, <1>5, <1>6, <1>7, <1>8, EditKeepsCalls DEF CacheInv, StaleInv

-----------------------------------------------------------------------------
LEMMA CacheStepHolds == CacheInv /\ [Next]_cacheVars => CacheInv'
<1> SUFFICES ASSUME CacheInv, [Next]_cacheVars PROVE CacheInv'
  OBVIOUS
<1>1. ASSUME NEW q \in Request, Cacheable(q) \/ PermissionCacheService(q)
      PROVE  CacheInv'
  <2>1. CASE \E kind \in {"many", "single", "bare"}, ids \in SUBSET Row : Ask(q, kind, ids)
    BY <2>1, AskHolds
  <2>2. CASE Return(q)
    BY <2>2, ReturnHolds
  <2>3. \A r \in Row : {r} \in SUBSET Row
    OBVIOUS
  <2> QED
    BY <1>1, <2>1, <2>2, <2>3 DEF Cacheable, CacheableMany, CacheableSingle,
                                  PermissionCacheService, GetUserRoleIds
<1>2. ASSUME NEW q \in Request, GetMany(q) \/ GetManyFails(q)
      PROVE  CacheInv'
  <2>1. PICK answer \in [Row -> Under] : Answer(q, answer)
    <3>1. [r \in Row |-> None] \in [Row -> Under]
      BY DEF Under
    <3> QED
      BY <1>2, <3>1 DEF GetMany, GetManyFails, CacheInv, TypeOK
  <2>2. UNCHANGED <<there, overtaken, excused>> /\ breaker' \in {"closed", "open", "halfOpen"}
    BY <1>2 DEF GetMany, GetManyFails, Answer, ghosts, Succeeds, Fails
  <2> QED
    BY <2>1, <2>2, AnswerHolds
<1>3. CASE \E q \in Request : RequestContext(q)
  BY <1>3, RequestContextHolds
<1>4. CASE \E e \in Editor : CacheEvict(e)
  BY <1>4, OpenHolds, CommitHolds DEF CacheEvict
<1>5. CASE InMemoryCacheProvider
  BY <1>2, <1>5, LoadHolds, SetManyHolds, ScanHolds, EvictHolds, StoreHolds
     DEF InMemoryCacheProvider
<1>6. CASE RedisCacheProvider
  BY <1>2, <1>6, SetManyHolds, EvictFailsHolds, StoreHolds DEF RedisCacheProvider
<1>7. CASE UNCHANGED cacheVars
  <2>1. TypeOK'
    BY <1>7 DEF cacheVars, CacheInv, TypeOK
  <2>2. CallsInv'
    BY <1>7, EditKeepsCalls DEF cacheVars
  <2>3. StaleInv'
    BY <1>7 DEF cacheVars, CacheInv, StaleInv, ApartInv, ScanInv, LoadsInv, StaleNeedsAnExcuse
  <2> QED
    BY <2>1, <2>2, <2>3 DEF CacheInv
<1> QED
  BY <1>1, <1>3, <1>4, <1>5, <1>6, <1>7 DEF Next

\* Tables, keys, calls and commands keep their types.
THEOREM CacheTypeCorrect == Spec => []TypeOK
<1>1. CacheInv => TypeOK
  BY DEF CacheInv
<1> QED
  BY <1>1, CacheInitHolds, CacheStepHolds, PTL DEF Spec

\* An old version under a key has a reason with a name, for any number of requests
\* and commands, any Redis, and evictions before and after the commit.
THEOREM StaleIsExcused == Spec => []StaleNeedsAnExcuse
<1>1. CacheInv => StaleNeedsAnExcuse
  BY DEF CacheInv, StaleInv
<1> QED
  BY <1>1, CacheInitHolds, CacheStepHolds, PTL DEF Spec

\* A cached method leaves out no row that was there all along, however its answer
\* was put together, but one with a stored null under its key.
THEOREM AnswersAreWhole == Spec => []EveryRowIsAnswered
<1>1. CacheInv => EveryRowIsAnswered
  BY DEF CacheInv, CallsInv
<1> QED
  BY <1>1, CacheInitHolds, CacheStepHolds, PTL DEF Spec
================================================================================
