----------------------- MODULE DisplayTransactionProofs -----------------------
(***************************************************************************)
(* For any outputs, CRTCs, modes, clients and failures: platform and       *)
(* engine agree on the pending change, an unconfirmed picture can always   *)
(* be taken back, a client keeps the change it was asked about, and a      *)
(* change of the mode is a trial.                                          *)
(*                                                                         *)
(* What makes it inductive is OldIsConfirmed: an output whose CRTC has no  *)
(* pending change shows what is confirmed, and the mode the engine would   *)
(* go back to is the confirmed one of every output of its CRTC.            *)
(***************************************************************************)
EXTENDS DisplayTransaction, TLAPS

Changes == [transaction : Nat \ {0}, crtc : Crtcs, output : Outputs, old : Modes]
Begun == [transaction : Nat \ {0}, output : Outputs, mode : Modes, topology : Nat,
          expired : BOOLEAN]
Asked == [transaction : Nat \ {0}, output : Outputs, mode : Modes]

ChangeTypes ==
    /\ crtc \in [Outputs -> Crtcs \cup {NoCrtc}]
    /\ mode \in [Crtcs -> Modes \cup {Dark}]
    /\ confirmed \in [Outputs -> Modes \cup {Dark}]
    /\ engine \in {NoPending} \cup Changes
    /\ coordinator \in {NoPending} \cup Begun

\* What a begin takes over from the X server and from its own check.
RequestTypes ==
    /\ connected \subseteq Outputs
    /\ time \in Nat
    /\ issued \in Nat
    /\ call.at = "apply" => call.topology \in Nat /\ call.mode \in Modes

\* A CRTC that an output is on has a mode.
CrtcsAreOn == \A o \in Outputs : crtc[o] # NoCrtc => mode[crtc[o]] # Dark

\* The output is on the CRTC of a pending change.
Changing(o) == engine # NoPending /\ crtc[o] = engine.crtc

\* The engine goes back to a mode that was confirmed for every output of the
\* CRTC it changed, and no other output shows what is not confirmed.
OldIsConfirmed ==
    /\ engine # NoPending => Changing(engine.output)
    /\ \A o \in Outputs : IF Changing(o) THEN engine.old = confirmed[o]
                          ELSE Picture[o] = confirmed[o]

ChangeInv == ChangeTypes /\ SidesAgree /\ CrtcsAreOn /\ OldIsConfirmed

AnswersInv == DOMAIN answer = Clients /\ AnswerIsLive

DisplayInv == ChangeInv /\ RequestTypes /\ AnswersInv

-----------------------------------------------------------------------------
(* The pending change. *)

LEMMA ChangeIsPending ==
    /\ \A e \in Changes : e # NoPending
    /\ \A b \in Begun : b # NoPending
    /\ \A a \in Asked : a # NoPending
<1>1. NoPending.transaction = 0  BY DEF NoPending
<1> QED  BY <1>1 DEF Changes, Begun, Asked

LEMMA ChangeKept ==
    ASSUME ChangeInv, UNCHANGED change
    PROVE  ChangeInv'
  BY DEF ChangeInv, ChangeTypes, SidesAgree, CrtcsAreOn, OldIsConfirmed, Changing,
         Picture, Pending, change, screen

\* What SetCrtcConfig leaves on the screen.
LEMMA CrtcSet ==
    ASSUME ChangeTypes, NEW k \in Crtcs, NEW m \in Modes,
           NEW outputs \in SUBSET Outputs, SetCrtc(k, m, outputs)
    PROVE  /\ crtc' \in [Outputs -> Crtcs \cup {NoCrtc}]
           /\ mode' \in [Crtcs -> Modes \cup {Dark}]
           /\ mode'[k] = m
           /\ \A o \in outputs : crtc'[o] = k /\ Picture'[o] = m
           /\ \A o \in Outputs \ outputs :
                 /\ crtc'[o] # k
                 /\ crtc[o] = k => crtc'[o] = NoCrtc /\ Picture'[o] = Dark
                 /\ crtc[o] # k => crtc'[o] = crtc[o] /\ Picture'[o] = Picture[o]
<1>1. NoCrtc \notin Crtcs  BY DisplayAssumption
<1>2. /\ mode' = [mode EXCEPT ![k] = m]
      /\ crtc' = [o \in Outputs |-> IF o \in outputs THEN k
                                    ELSE IF crtc[o] = k THEN NoCrtc ELSE crtc[o]]
  BY DEF SetCrtc
<1>3. /\ crtc' \in [Outputs -> Crtcs \cup {NoCrtc}]
      /\ mode' \in [Crtcs -> Modes \cup {Dark}]
      /\ mode'[k] = m
  BY <1>2 DEF ChangeTypes
<1>4. ASSUME NEW o \in outputs
      PROVE  crtc'[o] = k /\ Picture'[o] = m
  <2>1. o \in Outputs /\ crtc'[o] = k  BY <1>2
  <2> QED  BY <1>1, <1>3, <2>1 DEF Picture
<1>5. ASSUME NEW o \in Outputs \ outputs, crtc[o] = k
      PROVE  crtc'[o] = NoCrtc /\ Picture'[o] = Dark
  BY <1>2, <1>5 DEF Picture
<1>6. ASSUME NEW o \in Outputs \ outputs, crtc[o] # k
      PROVE  crtc'[o] = crtc[o] /\ Picture'[o] = Picture[o]
  <2>1. crtc'[o] = crtc[o]  BY <1>2, <1>6
  <2>2. crtc[o] # NoCrtc => mode'[crtc[o]] = mode[crtc[o]]
    BY <1>2, <1>6 DEF ChangeTypes
  <2> QED  BY <2>1, <2>2 DEF Picture
<1> QED  BY <1>1, <1>3, <1>4, <1>5, <1>6

LEMMA PendingIsOnTrial ==
    ASSUME ChangeInv, Pending
    PROVE  /\ engine \in Changes /\ engine # NoPending /\ engine.transaction # 0
           /\ engine.crtc \in Crtcs /\ engine.output \in Outputs
           /\ engine.old \in Modes /\ crtc[engine.output] = engine.crtc
<1>1. engine \in Changes /\ engine # NoPending
  BY ChangeIsPending DEF ChangeInv, ChangeTypes, SidesAgree, Pending
<1> QED  BY <1>1 DEF Changes, ChangeInv, OldIsConfirmed, Changing

\* A rollback leaves the output of the change with its confirmed mode and its
\* mirrors dark; the outputs of other CRTCs notice nothing.
LEMMA PictureReverted ==
    ASSUME ChangeInv, Pending, RevertPending
    PROVE  /\ \A o \in Outputs : Picture'[o] = IF o \in Mirrors THEN Dark ELSE confirmed[o]
           /\ Mirrors \subseteq Outputs
           /\ \A o \in Outputs : crtc'[o] # NoCrtc => mode'[crtc'[o]] # Dark
           /\ crtc' \in [Outputs -> Crtcs \cup {NoCrtc}]
           /\ mode' \in [Crtcs -> Modes \cup {Dark}]
<1> DEFINE k == engine.crtc
<1>1. /\ engine # NoPending /\ k \in Crtcs /\ engine.output \in Outputs
      /\ engine.old \in Modes /\ crtc[engine.output] = k
  BY PendingIsOnTrial
<1>2. SetCrtc(k, engine.old, {engine.output})  BY DEF RevertPending
<1>3. ChangeTypes /\ Dark \notin Modes /\ NoCrtc \notin Crtcs
  BY DisplayAssumption DEF ChangeInv
<1>4. \A o \in Outputs : o \in Mirrors <=> crtc[o] = k /\ o # engine.output
  BY DEF Mirrors, On
<1> HIDE DEF k
<1>5. /\ crtc' \in [Outputs -> Crtcs \cup {NoCrtc}]
      /\ mode' \in [Crtcs -> Modes \cup {Dark}]
      /\ mode'[k] = engine.old /\ crtc'[engine.output] = k
      /\ Picture'[engine.output] = engine.old
      /\ \A o \in Outputs \ {engine.output} :
            /\ crtc'[o] # k
            /\ crtc[o] = k => crtc'[o] = NoCrtc /\ Picture'[o] = Dark
            /\ crtc[o] # k => crtc'[o] = crtc[o] /\ Picture'[o] = Picture[o]
  BY <1>1, <1>2, <1>3, CrtcSet
<1>6. ASSUME NEW o \in Outputs
      PROVE  Picture'[o] = IF o \in Mirrors THEN Dark ELSE confirmed[o]
  <2>1. CASE o = engine.output
    BY <1>1, <1>4, <1>5, <2>1 DEF ChangeInv, OldIsConfirmed, Changing, k
  <2>2. CASE o # engine.output /\ crtc[o] = k
    BY <1>4, <1>5, <2>2
  <2>3. CASE o # engine.output /\ crtc[o] # k
    BY <1>4, <1>5, <2>3 DEF ChangeInv, OldIsConfirmed, Changing, k
  <2> QED  BY <2>1, <2>2, <2>3
<1>7. ASSUME NEW o \in Outputs, crtc'[o] # NoCrtc PROVE mode'[crtc'[o]] # Dark
  <2>1. CASE o = engine.output  BY <1>1, <1>3, <1>5, <2>1
  <2>2. CASE o # engine.output
    <3>1. crtc'[o] = crtc[o] /\ crtc[o] # k  BY <1>5, <1>7, <2>2
    <3>2. mode'[crtc[o]] = mode[crtc[o]]
      BY <1>2, <1>3, <1>7, <3>1 DEF SetCrtc, ChangeTypes
    <3> QED  BY <1>7, <3>1, <3>2 DEF ChangeInv, CrtcsAreOn
  <2> QED  BY <2>1, <2>2
<1> QED  BY <1>5, <1>6, <1>7 DEF Mirrors, On

LEMMA ChangeReverted ==
    ASSUME ChangeInv, Pending, RevertPending
    PROVE  ChangeInv'
<1>1. /\ engine' = NoPending /\ coordinator' = NoPending
      /\ confirmed' = [o \in Outputs |-> IF o \in Mirrors THEN Dark ELSE confirmed[o]]
  BY DEF RevertPending
<1>2. /\ \A o \in Outputs : Picture'[o] = confirmed'[o]
      /\ \A o \in Outputs : crtc'[o] # NoCrtc => mode'[crtc'[o]] # Dark
      /\ crtc' \in [Outputs -> Crtcs \cup {NoCrtc}]
      /\ mode' \in [Crtcs -> Modes \cup {Dark}]
  BY <1>1, PictureReverted
<1>3. ChangeTypes'
  BY <1>1, <1>2 DEF ChangeInv, ChangeTypes
<1>4. SidesAgree'  BY <1>1 DEF SidesAgree, Pending
<1>5. CrtcsAreOn'  BY <1>2 DEF CrtcsAreOn
<1>6. OldIsConfirmed'  BY <1>1, <1>2 DEF OldIsConfirmed, Changing
<1> QED  BY <1>3, <1>4, <1>5, <1>6 DEF ChangeInv

\* refresh gives up a stranded change or leaves it alone.
LEMMA ChangeGivenUp ==
    ASSUME ChangeInv, GiveUp
    PROVE  ChangeInv'
<1>1. CASE Stranded
  BY <1>1, ChangeReverted DEF GiveUp, Stranded
<1>2. CASE ~Stranded
  BY <1>2, ChangeKept DEF GiveUp
<1> QED  BY <1>1, <1>2

\* A begin sets the mode of the CRTC, and with it the picture of the output and
\* of every mirror; all of them had the old mode for good.
LEMMA ModeApplied ==
    ASSUME RequestTypes, ChangeInv, BeginApply
    PROVE  LET k == crtc[call.output]
           IN  /\ call.output \in Outputs /\ k \in Crtcs /\ call.mode \in Modes
               /\ mode[k] \in Modes
               /\ crtc' = crtc
               /\ mode' \in [Crtcs -> Modes \cup {Dark}] /\ mode'[k] = call.mode
               /\ \A o \in Outputs : crtc[o] # NoCrtc => mode'[crtc[o]] # Dark
               /\ \A o \in On(k) : Picture'[o] = call.mode /\ confirmed[o] = mode[k]
               /\ \A o \in Outputs \ On(k) :
                     Picture'[o] = Picture[o] /\ Picture[o] = confirmed[o]
<1> DEFINE k == crtc[call.output]
<1>1. /\ call.output \in Outputs /\ call.mode \in Modes /\ k # NoCrtc
      /\ engine = NoPending /\ SetCrtc(k, call.mode, On(k))
  BY DEF BeginApply, RequestTypes
<1>2. k \in Crtcs /\ mode[k] \in Modes
  BY <1>1 DEF ChangeInv, ChangeTypes, CrtcsAreOn
<1>3. \A o \in Outputs : Picture[o] = confirmed[o]
  BY <1>1 DEF ChangeInv, OldIsConfirmed, Changing
<1>4. \A o \in On(k) : confirmed[o] = mode[k]
  BY <1>2, <1>3, DisplayAssumption DEF On, Picture
<1>5. On(k) \subseteq Outputs /\ Dark \notin Modes  BY DisplayAssumption DEF On
<1>6. \A o \in Outputs : o \in On(k) <=> crtc[o] = k  BY DEF On
<1> HIDE DEF k
<1>7. /\ crtc' \in [Outputs -> Crtcs \cup {NoCrtc}]
      /\ mode' \in [Crtcs -> Modes \cup {Dark}] /\ mode'[k] = call.mode
      /\ \A o \in On(k) : crtc'[o] = k /\ Picture'[o] = call.mode
      /\ \A o \in Outputs \ On(k) : crtc'[o] = crtc[o] /\ Picture'[o] = Picture[o]
  BY <1>1, <1>2, <1>5, <1>6, CrtcSet DEF ChangeInv
<1>8. crtc' = crtc
  <2>1. \A o \in Outputs : crtc'[o] = crtc[o]  BY <1>6, <1>7
  <2> QED  BY <1>7, <2>1 DEF ChangeInv, ChangeTypes
<1>9. ASSUME NEW o \in Outputs, crtc[o] # NoCrtc PROVE mode'[crtc[o]] # Dark
  <2>1. CASE crtc[o] = k  BY <1>1, <1>5, <1>7, <2>1
  <2>2. CASE crtc[o] # k
    <3>1. mode'[crtc[o]] = mode[crtc[o]]
      BY <1>1, <1>9, <2>2 DEF SetCrtc, ChangeInv, ChangeTypes
    <3> QED  BY <1>9, <3>1 DEF ChangeInv, CrtcsAreOn
  <2> QED  BY <2>1, <2>2
<1> QED  BY <1>1, <1>2, <1>3, <1>4, <1>7, <1>8, <1>9 DEF k

LEMMA ChangeBegun ==
    ASSUME RequestTypes, ChangeInv, BeginApply
    PROVE  ChangeInv'
<1> DEFINE o == call.output
           k == crtc[call.output]
<1>1. call.topology \in Nat /\ issued + 1 \in Nat \ {0}
  BY DEF BeginApply, RequestTypes
<1>2. /\ o \in Outputs /\ k \in Crtcs /\ call.mode \in Modes /\ mode[k] \in Modes
      /\ crtc' = crtc /\ mode' \in [Crtcs -> Modes \cup {Dark}]
      /\ \A p \in Outputs : crtc[p] # NoCrtc => mode'[crtc[p]] # Dark
      /\ \A p \in On(k) : confirmed[p] = mode[k]
      /\ \A p \in Outputs \ On(k) : Picture'[p] = confirmed[p]
  BY ModeApplied
<1>3. /\ engine' = [transaction |-> issued + 1, crtc |-> k, output |-> o,
                    old |-> mode[k]]
      /\ coordinator' = [transaction |-> issued + 1, output |-> o,
                         mode |-> call.mode, topology |-> call.topology,
                         expired |-> FALSE]
      /\ confirmed' = confirmed
  BY DEF BeginApply, NewNumber
<1>4. engine' \in Changes /\ coordinator' \in Begun
  BY <1>1, <1>2, <1>3 DEF Changes, Begun
<1>5. engine' # NoPending /\ coordinator' # NoPending
  BY <1>4, ChangeIsPending
<1>6. /\ engine'.transaction = coordinator'.transaction
      /\ engine'.output = o /\ coordinator'.output = o
      /\ engine'.old = mode[k] /\ engine'.crtc = k /\ crtc[o] = k
  BY <1>3
<1>7. \A p \in Outputs : p \in On(k) <=> crtc[p] = k  BY DEF On
<1> HIDE DEF o, k
<1>8. ChangeTypes'
  BY <1>2, <1>3, <1>4 DEF ChangeInv, ChangeTypes
<1>9. SidesAgree'
  BY <1>5, <1>6 DEF SidesAgree, Pending
<1>10. CrtcsAreOn'  BY <1>2 DEF CrtcsAreOn
<1>11. OldIsConfirmed'
  BY <1>2, <1>3, <1>5, <1>6, <1>7 DEF OldIsConfirmed, Changing
<1> QED  BY <1>8, <1>9, <1>10, <1>11 DEF ChangeInv

LEMMA ChangeKeptForGood ==
    ASSUME ChangeInv, NEW c \in Clients, Keep(c)
    PROVE  ChangeInv'
<1>1. /\ confirmed' = Picture /\ engine' = NoPending /\ coordinator' = NoPending
      /\ crtc' = crtc /\ mode' = mode
  BY DEF Keep, serverVars, screen
<1>2. Picture' = Picture  BY <1>1 DEF Picture
<1>3. Picture \in [Outputs -> Modes \cup {Dark}]
  BY DEF Picture, ChangeInv, ChangeTypes
<1>4. ChangeTypes'  BY <1>1, <1>3 DEF ChangeInv, ChangeTypes
<1>5. SidesAgree'  BY <1>1 DEF SidesAgree, Pending
<1>6. CrtcsAreOn'  BY <1>1 DEF ChangeInv, CrtcsAreOn
<1>7. OldIsConfirmed'  BY <1>1, <1>2 DEF OldIsConfirmed, Changing
<1> QED  BY <1>4, <1>5, <1>6, <1>7 DEF ChangeInv

LEMMA ChangeExpires ==
    ASSUME ChangeInv, TimePasses
    PROVE  ChangeInv'
<1>1. coordinator \in Begun
  BY DEF ChangeInv, ChangeTypes, TimePasses, Pending
<1>2. /\ coordinator' = [coordinator EXCEPT !.expired = TRUE]
      /\ UNCHANGED <<crtc, mode, confirmed, engine>>
  BY DEF TimePasses, serverVars, engineVars, screen
<1>3. /\ coordinator' \in Begun
      /\ coordinator'.transaction = coordinator.transaction
      /\ coordinator'.output = coordinator.output
  BY <1>1, <1>2 DEF Begun
<1>4. coordinator' # NoPending /\ coordinator # NoPending
  BY <1>1, <1>3, ChangeIsPending
<1> QED
  BY <1>2, <1>3, <1>4
  DEF ChangeInv, ChangeTypes, SidesAgree, CrtcsAreOn, OldIsConfirmed, Changing,
      Picture, Pending

-----------------------------------------------------------------------------
(* Every step. *)

LEMMA InitDisplay == Init => DisplayInv
<1> SUFFICES ASSUME Init PROVE DisplayInv  OBVIOUS
<1>1. RequestTypes
  BY DEF Init, RequestTypes, Topologies, NoCall
<1>2. ChangeInv
  <2>1. Picture \in [Outputs -> Modes \cup {Dark}]
    BY DEF Init, Picture
  <2>2. CrtcsAreOn
    BY DEF Init, CrtcsAreOn, On
  <2> QED
    BY <2>1, <2>2
    DEF Init, ChangeInv, ChangeTypes, SidesAgree, OldIsConfirmed, Changing, Pending
<1>3. AnswersInv
  BY DEF Init, AnswersInv, AnswerIsLive, NoSnapshot
<1> QED  BY <1>1, <1>2, <1>3 DEF DisplayInv

LEMMA ChangeStep ==
    ASSUME ChangeInv, RequestTypes, [Next]_vars
    PROVE  ChangeInv'
<1>1. CASE BeginApply  BY <1>1, ChangeBegun
<1>2. ASSUME NEW c \in Clients, Keep(c) PROVE ChangeInv'
  BY <1>2, ChangeKeptForGood
<1>3. ASSUME NEW c \in Clients, GetDisplays(c) \/ BeginStale(c) PROVE ChangeInv'
  BY <1>3, ChangeGivenUp DEF GetDisplays, BeginStale, Refresh
<1>4. CASE GetDisplaysFails
  BY <1>4, ChangeGivenUp, ChangeKept DEF GetDisplaysFails
<1>5. ASSUME NEW c \in Clients, Revert(c) PROVE ChangeInv'
  BY <1>5, ChangeReverted DEF Revert, Names
<1>6. CASE Tick  BY <1>6, ChangeReverted DEF Tick, Expired
<1>7. CASE TimePasses  BY <1>7, ChangeExpires
<1>8. ASSUME UNCHANGED change PROVE ChangeInv'  BY <1>8, ChangeKept
<1>9. ASSUME NEW c \in Clients,
             \/ \E o \in Outputs, m \in Modes : BeginCheck(c, o, m)
             \/ RevertRefused(c) \/ SetShellScale(c) \/ Die(c)
      PROVE  ChangeInv'
  BY <1>8, <1>9 DEF BeginCheck, RevertRefused, Refuse, SetShellScale, Die,
                    serverVars, engineVars, serviceVars, change
<1>10. CASE BeginRefused \/ BeginPublish \/ BeginUnpublished \/ Hotplug
  BY <1>8, <1>10 DEF BeginRefused, BeginPublish, BeginUnpublished, Hotplug,
                     serverVars, engineVars, serviceVars, change
<1>11. CASE UNCHANGED vars  BY <1>8, <1>11 DEF vars, change
<1> QED
  BY <1>1, <1>2, <1>3, <1>4, <1>5, <1>6, <1>7, <1>9, <1>10, <1>11
  DEF Next, Begin, Decide, Read

LEMMA RequestStep ==
    ASSUME RequestTypes, [Next]_vars
    PROVE  RequestTypes'
<1>1. ASSUME UNCHANGED <<connected, time, issued>>, call' = call \/ call' = NoCall
      PROVE  RequestTypes'
  BY <1>1 DEF RequestTypes, NoCall
<1>2. CASE BeginApply
  <2>1. /\ time' \in {time} \cup ({time + 1} \cap 1 .. MaxTime)
        /\ issued' = issued + 1 /\ connected' = connected
        /\ call'.at = "publish"
    BY <1>2 DEF BeginApply
  <2> QED  BY <2>1 DEF RequestTypes
<1>3. ASSUME NEW c \in Clients, NEW o \in Outputs, NEW m \in Modes,
             BeginCheck(c, o, m)
      PROVE  RequestTypes'
  BY <1>3 DEF BeginCheck, RequestTypes, serverVars, engineVars
<1>4. CASE Hotplug
  <2>1. time' \in Nat  BY <1>4 DEF Hotplug, RequestTypes
  <2>2. connected' \subseteq Outputs /\ UNCHANGED <<issued, call>>
    BY <1>4 DEF Hotplug, Topologies, engineVars
  <2> QED  BY <2>1, <2>2 DEF RequestTypes
<1>5. ASSUME NEW c \in Clients,
             \/ Keep(c) \/ Revert(c) \/ RevertRefused(c) \/ GetDisplays(c)
             \/ BeginStale(c) \/ SetShellScale(c) \/ Die(c)
      PROVE  RequestTypes'
  BY <1>1, <1>5 DEF Keep, Revert, RevertRefused, GetDisplays, BeginStale,
                    SetShellScale, Die, serverVars, engineVars
<1>6. CASE BeginRefused \/ BeginPublish \/ BeginUnpublished \/ GetDisplaysFails
           \/ TimePasses \/ Tick
  BY <1>1, <1>6 DEF BeginRefused, BeginPublish, BeginUnpublished,
                    GetDisplaysFails, TimePasses, Tick, serverVars, engineVars
<1>7. CASE UNCHANGED vars  BY <1>1, <1>7 DEF vars
<1> QED
  BY <1>2, <1>3, <1>4, <1>5, <1>6, <1>7 DEF Next, Begin, Decide, Read

\* A refresh publishes no pending change whose output is gone.
LEMMA PublishedIsLive ==
    ASSUME ChangeTypes, Refresh
    PROVE  cached'.pending # 0 => cached'.output \in cached'.connected
<1> DEFINE p == IF Stranded THEN NoPending ELSE coordinator
<1>1. /\ cached'.pending = p.transaction /\ cached'.connected = connected
      /\ cached'.output = IF p = NoPending THEN NoOutput ELSE p.output
  BY DEF Refresh, Publish, Snapshot
<1>2. NoPending.transaction = 0  BY DEF NoPending
<1>3. p # NoPending => p = coordinator /\ Pending /\ ~Stranded  BY DEF Pending
<1>4. p # NoPending => p.output \in connected  BY <1>3 DEF Stranded
<1> QED  BY <1>1, <1>2, <1>4

LEMMA AnswersStep ==
    ASSUME ChangeInv, AnswersInv, [Next]_vars
    PROVE  AnswersInv'
<1>1. ASSUME UNCHANGED answer PROVE AnswersInv'
  BY <1>1 DEF AnswersInv, AnswerIsLive
<1>2. ASSUME NEW c \in Clients, GetDisplays(c) PROVE AnswersInv'
  <2>1. answer' = [answer EXCEPT ![c] = cached'] /\ Refresh
    BY <1>2 DEF GetDisplays
  <2>2. cached'.pending # 0 => cached'.output \in cached'.connected
    BY <2>1, PublishedIsLive DEF ChangeInv
  <2> QED  BY <2>1, <2>2 DEF AnswersInv, AnswerIsLive
<1>3. ASSUME NEW c \in Clients, Die(c) PROVE AnswersInv'
  <2>1. answer' = [answer EXCEPT ![c] = NoSnapshot] /\ NoSnapshot.pending = 0
    BY <1>3 DEF Die, NoSnapshot
  <2> QED  BY <2>1 DEF AnswersInv, AnswerIsLive
<1>4. ASSUME NEW c \in Clients,
             \/ Keep(c) \/ Revert(c) \/ RevertRefused(c)
             \/ BeginStale(c) \/ SetShellScale(c)
             \/ \E o \in Outputs, m \in Modes : BeginCheck(c, o, m)
      PROVE  AnswersInv'
  BY <1>1, <1>4 DEF Keep, Revert, RevertRefused, BeginStale, SetShellScale,
                    BeginCheck, clientVars
<1>5. CASE BeginApply \/ BeginRefused \/ BeginPublish \/ BeginUnpublished
           \/ GetDisplaysFails \/ TimePasses \/ Tick \/ Hotplug
  BY <1>1, <1>5 DEF BeginApply, BeginRefused, BeginPublish, BeginUnpublished,
                    GetDisplaysFails, TimePasses, Tick, Hotplug, clientVars
<1>6. CASE UNCHANGED vars  BY <1>1, <1>6 DEF vars
<1> QED
  BY <1>2, <1>3, <1>4, <1>5, <1>6 DEF Next, Begin, Decide, Read

LEMMA NextDisplay == DisplayInv /\ [Next]_vars => DisplayInv'
  BY ChangeStep, RequestStep, AnswersStep DEF DisplayInv

\* DisplayInv, the inductive invariant, holds in every reachable state.
THEOREM DisplayInvariance == Spec => []DisplayInv
  BY InitDisplay, NextDisplay, PTL DEF Spec

\* Platform and engine never disagree on the pending change.
THEOREM DisplaySidesAgree == Spec => []SidesAgree
<1>1. DisplayInv => SidesAgree  BY DEF DisplayInv, ChangeInv
<1> QED  BY <1>1, DisplayInvariance, PTL

\* A picture nobody confirmed is on an output only while it can be taken back.
THEOREM DisplayRevertible == Spec => []UnconfirmedIsRevertible
<1>1. DisplayInv => UnconfirmedIsRevertible
  BY DEF DisplayInv, ChangeInv, OldIsConfirmed, Changing, UnconfirmedIsRevertible
<1> QED  BY <1>1, DisplayInvariance, PTL

\* No client is told of a change on an output that is gone.
THEOREM DisplayAnswerIsLive == Spec => []AnswerIsLive
<1>1. DisplayInv => AnswerIsLive  BY DEF DisplayInv, AnswersInv
<1> QED  BY <1>1, DisplayInvariance, PTL

-----------------------------------------------------------------------------
(* What a client is asked about. *)

offer == Pended(coordinator)

\* Whoever holds the number of the pending change was told its output and mode:
\* no number is given twice, and the one a client holds was given before.
HeldInv ==
    /\ issued \in Nat
    /\ held \in [Clients -> {NoPending} \cup Asked]
    /\ offer \in {NoPending} \cup Asked
    /\ offer.transaction <= issued
    /\ \A c \in Clients :
          /\ held[c].transaction <= issued
          /\ held[c].transaction = offer.transaction => held[c] = offer

\* What the platform offers is what is set.
OfferIsSet == Pending => coordinator.mode = mode[engine.crtc]

LEMMA PendedIsAsked ==
    ASSUME NEW p \in {NoPending} \cup Begun
    PROVE  /\ Pended(p) \in {NoPending} \cup Asked
           /\ Pended(p).transaction = p.transaction
           /\ p # NoPending => Pended(p).output = p.output /\ Pended(p).mode = p.mode
  BY DEF Pended, Begun, Asked, NoPending

LEMMA OnlyNothingIsZero ==
    ASSUME NEW a \in {NoPending} \cup Asked
    PROVE  a.transaction \in Nat /\ (a.transaction = 0 <=> a = NoPending)
  BY DEF NoPending, Asked

\* No new number is given: a client holds what it held, nothing, or the change
\* that is offered.
LEMMA HeldKept ==
    ASSUME HeldInv, issued' = issued, offer' \in {offer, NoPending},
           held' \in [Clients -> {NoPending} \cup Asked],
           \A c \in Clients : held'[c] \in {held[c], NoPending, offer'}
    PROVE  HeldInv'
<1>1. NoPending.transaction = 0  BY DEF NoPending
<1>2. offer' \in {NoPending} \cup Asked /\ offer'.transaction <= issued
  BY <1>1, OnlyNothingIsZero DEF HeldInv
<1>3. ASSUME NEW c \in Clients
      PROVE  /\ held'[c].transaction <= issued
             /\ held'[c].transaction = offer'.transaction => held'[c] = offer'
  <2>1. held'[c] \in {NoPending} \cup Asked /\ held[c] \in {NoPending} \cup Asked
    BY DEF HeldInv
  <2>2. held'[c].transaction <= issued
    BY <1>1, <1>2, <1>3 DEF HeldInv
  <2>3. ASSUME held'[c].transaction = offer'.transaction PROVE held'[c] = offer'
    <3>1. held'[c].transaction = 0 <=> held'[c] = NoPending
      BY <2>1, OnlyNothingIsZero
    <3>2. offer'.transaction = 0 <=> offer' = NoPending
      BY <1>2, OnlyNothingIsZero
    <3>3. held[c].transaction = offer.transaction => held[c] = offer  BY DEF HeldInv
    <3> QED  BY <1>1, <1>3, <2>3, <3>1, <3>2, <3>3
  <2> QED  BY <2>2, <2>3
<1> QED  BY <1>2, <1>3 DEF HeldInv

\* A begin takes a number above every one that is held.
LEMMA HeldAtBegin ==
    ASSUME ChangeInv, RequestTypes, HeldInv, BeginApply
    PROVE  HeldInv' /\ OfferIsSet'
<1>1. ChangeInv'  BY ChangeBegun
<1>2. /\ issued' = issued + 1 /\ held' = held
      /\ coordinator'.transaction = issued + 1 /\ coordinator'.mode = call.mode
      /\ engine'.crtc = crtc[call.output]
  BY DEF BeginApply, NewNumber, clientVars
<1>3. offer' \in {NoPending} \cup Asked /\ offer'.transaction = issued + 1
  BY <1>1, <1>2, PendedIsAsked DEF ChangeInv, ChangeTypes, offer
<1>4. ASSUME NEW c \in Clients
      PROVE  held[c].transaction < issued + 1
  <2>1. held[c].transaction \in Nat  BY OnlyNothingIsZero DEF HeldInv
  <2> QED  BY <2>1 DEF HeldInv
<1>5. HeldInv'
  <2>1. issued + 1 \in Nat  BY DEF HeldInv
  <2>2. \A c \in Clients : held[c].transaction \in Nat
    BY OnlyNothingIsZero DEF HeldInv
  <2> QED  BY <1>2, <1>3, <1>4, <2>1, <2>2 DEF HeldInv
<1>6. mode'[crtc[call.output]] = call.mode  BY ModeApplied
<1> QED  BY <1>2, <1>5, <1>6 DEF OfferIsSet

\* Every other step ends what is offered or leaves it.
LEMMA OfferKept ==
    ASSUME ChangeInv, OfferIsSet, [Next]_vars, ~BeginApply
    PROVE  /\ OfferIsSet' /\ issued' = issued
           /\ offer' \in {offer, NoPending}
           /\ coordinator' = NoPending => offer' = NoPending
<1>1. ASSUME UNCHANGED <<coordinator, mode, engine>>
      PROVE  OfferIsSet' /\ offer' = offer
  BY <1>1 DEF OfferIsSet, offer, Pended, Pending
<1>2. ASSUME coordinator' = NoPending
      PROVE  OfferIsSet' /\ offer' = NoPending
  BY <1>2 DEF OfferIsSet, offer, Pended, Pending
<1>3. GiveUp => UNCHANGED <<coordinator, mode, engine>> \/ coordinator' = NoPending
  BY DEF GiveUp, RevertPending, change, screen
<1>4. CASE TimePasses
  <2>1. coordinator \in Begun /\ coordinator # NoPending
    BY <1>4 DEF TimePasses, Pending, ChangeInv, ChangeTypes
  <2>2. /\ coordinator' = [coordinator EXCEPT !.expired = TRUE]
        /\ UNCHANGED <<mode, engine, issued>>
    BY <1>4 DEF TimePasses, serverVars, engineVars, screen
  <2>3. /\ coordinator' \in Begun /\ coordinator' # NoPending
        /\ coordinator'.transaction = coordinator.transaction
        /\ coordinator'.output = coordinator.output
        /\ coordinator'.mode = coordinator.mode
    BY <2>1, <2>2, ChangeIsPending DEF Begun
  <2> QED  BY <2>1, <2>2, <2>3 DEF OfferIsSet, offer, Pended, Pending
<1>5. ASSUME NEW c \in Clients, Keep(c) \/ Revert(c)
      PROVE  coordinator' = NoPending /\ issued' = issued
  BY <1>5 DEF Keep, Revert, RevertPending
<1>6. ASSUME Tick PROVE coordinator' = NoPending /\ issued' = issued
  BY <1>6 DEF Tick, RevertPending
<1>7. ASSUME NEW c \in Clients, GetDisplays(c) \/ BeginStale(c)
      PROVE  /\ UNCHANGED <<coordinator, mode, engine>> \/ coordinator' = NoPending
             /\ issued' = issued
  BY <1>3, <1>7 DEF GetDisplays, BeginStale, Refresh
<1>8. ASSUME GetDisplaysFails
      PROVE  /\ UNCHANGED <<coordinator, mode, engine>> \/ coordinator' = NoPending
             /\ issued' = issued
  BY <1>3, <1>8 DEF GetDisplaysFails, change, screen
<1>9. ASSUME NEW c \in Clients,
             \/ \E o \in Outputs, m \in Modes : BeginCheck(c, o, m)
             \/ RevertRefused(c) \/ SetShellScale(c) \/ Die(c)
      PROVE  UNCHANGED <<coordinator, mode, engine, issued>>
  BY <1>9 DEF BeginCheck, RevertRefused, Refuse, SetShellScale, Die, serverVars,
              engineVars, serviceVars, screen
<1>10. ASSUME BeginRefused \/ BeginPublish \/ BeginUnpublished \/ Hotplug \/ UNCHANGED vars
       PROVE  UNCHANGED <<coordinator, mode, engine, issued>>
  BY <1>10 DEF BeginRefused, BeginPublish, BeginUnpublished, Hotplug, serverVars,
               engineVars, serviceVars, screen, vars
<1>11. \/ /\ UNCHANGED <<coordinator, mode, engine>> \/ coordinator' = NoPending
          /\ issued' = issued
       \/ TimePasses
  BY <1>5, <1>6, <1>7, <1>8, <1>9, <1>10 DEF Next, Begin, Decide, Read
<1>12. coordinator' = NoPending => offer' = NoPending  BY <1>2
<1>13. TimePasses => issued' = issued  BY DEF TimePasses, engineVars
<1> QED  BY <1>1, <1>2, <1>4, <1>11, <1>12, <1>13

\* A client holds what it held, what it is told, or nothing.
LEMMA HeldStep ==
    ASSUME DisplayInv, HeldInv, OfferIsSet, [Next]_vars
    PROVE  HeldInv' /\ OfferIsSet'
<1>1. CASE BeginApply  BY <1>1, HeldAtBegin DEF DisplayInv
<1>2. CASE ~BeginApply
  <2>1. OfferIsSet' /\ issued' = issued /\ offer' \in {offer, NoPending}
    BY <1>2, OfferKept DEF DisplayInv
  <2>2. offer' \in {NoPending} \cup Asked  BY <2>1 DEF HeldInv
  <2>3. ASSUME NEW c \in Clients, NEW a \in {NoPending, offer'},
               held' = [held EXCEPT ![c] = a]
        PROVE  HeldInv'
    <3>1. held' \in [Clients -> {NoPending} \cup Asked]
      BY <2>2, <2>3 DEF HeldInv
    <3>2. \A d \in Clients : held'[d] \in {held[d], NoPending, offer'}
      BY <2>3 DEF HeldInv
    <3> QED  BY <2>1, <3>1, <3>2, HeldKept
  <2>4. ASSUME held' = held PROVE HeldInv'
    <3>1. /\ held' \in [Clients -> {NoPending} \cup Asked]
          /\ \A d \in Clients : held'[d] \in {held[d], NoPending, offer'}
      BY <2>4 DEF HeldInv
    <3> QED  BY <2>1, <3>1, HeldKept
  <2>5. ASSUME NEW c \in Clients, GetDisplays(c) PROVE HeldInv'
    BY <2>3, <2>5 DEF GetDisplays, offer
  <2>6. ASSUME BeginPublish PROVE HeldInv'
    <3>1. held' = [held EXCEPT ![call.client] = offer']
      BY <2>6 DEF BeginPublish, offer, Pended
    <3>2. CASE call.client \in Clients  BY <2>3, <3>1, <3>2
    <3>3. CASE call.client \notin Clients
      <4>1. held' = held  BY <3>1, <3>3 DEF HeldInv
      <4> QED  BY <2>4, <4>1
    <3> QED  BY <3>2, <3>3
  <2>7. ASSUME NEW c \in Clients, Keep(c) \/ Revert(c) PROVE HeldInv'
    BY <2>3, <2>4, <2>7 DEF Keep, Revert, Told
  <2>8. ASSUME NEW c \in Clients, Die(c) PROVE HeldInv'
    BY <2>3, <2>8 DEF Die
  <2>9. ASSUME NEW c \in Clients,
               \/ \E o \in Outputs, m \in Modes : BeginCheck(c, o, m)
               \/ BeginStale(c) \/ RevertRefused(c) \/ SetShellScale(c)
        PROVE  HeldInv'
    BY <2>4, <2>9 DEF BeginCheck, BeginStale, RevertRefused, SetShellScale, clientVars
  <2>10. ASSUME \/ BeginRefused \/ BeginUnpublished \/ GetDisplaysFails \/ Hotplug
                \/ TimePasses \/ Tick \/ UNCHANGED vars
         PROVE  HeldInv'
    <3>1. held' = held
      BY <2>10 DEF BeginRefused, BeginUnpublished, GetDisplaysFails, Hotplug,
                   TimePasses, Tick, clientVars, vars
    <3> QED  BY <2>4, <3>1
  <2> QED
    BY <1>2, <2>1, <2>5, <2>6, <2>7, <2>8, <2>9, <2>10 DEF Next, Begin, Decide, Read
<1> QED  BY <1>1, <1>2

LEMMA InitHeld == Init => HeldInv /\ OfferIsSet
<1> SUFFICES ASSUME Init PROVE HeldInv /\ OfferIsSet  OBVIOUS
<1>1. offer = NoPending /\ NoPending.transaction = 0
  BY DEF Init, offer, Pended, NoPending
<1> QED  BY <1>1 DEF Init, HeldInv, OfferIsSet, Pending

\* Clients that keep, revert and begin in any order, die or are told of errors:
\* the change a client keeps is the one whose output and mode it was shown.
THEOREM DisplayKeepsAsked == Spec => KeepsWhatItWasAsked
<1> DEFINE Asks == \A c \in Clients :
                      Keep(c) => /\ held[c].output = engine.output
                                 /\ held[c].mode = mode[engine.crtc]
<1>1. Spec => [](HeldInv /\ OfferIsSet)
  BY InitHeld, HeldStep, DisplayInvariance, PTL DEF Spec
<1>2. DisplayInv /\ HeldInv /\ OfferIsSet /\ [Next]_vars => [Asks]_vars
  <2> SUFFICES ASSUME DisplayInv, HeldInv, OfferIsSet, NEW c \in Clients, Keep(c)
               PROVE  /\ held[c].output = engine.output
                      /\ held[c].mode = mode[engine.crtc]
    OBVIOUS
  <2>1. Pending /\ held[c].transaction = coordinator.transaction
    BY DEF Keep, Names
  <2>2. /\ offer.transaction = coordinator.transaction
        /\ offer.output = coordinator.output /\ offer.mode = coordinator.mode
    BY <2>1, PendedIsAsked DEF DisplayInv, ChangeInv, ChangeTypes, offer, Pending
  <2>3. held[c] = offer  BY <2>1, <2>2 DEF HeldInv
  <2>4. coordinator.output = engine.output
    BY <2>1 DEF DisplayInv, ChangeInv, SidesAgree
  <2> QED  BY <2>1, <2>2, <2>3, <2>4 DEF OfferIsSet
<1> QED  BY <1>1, <1>2, DisplayInvariance, PTL DEF Spec, KeepsWhatItWasAsked

-----------------------------------------------------------------------------
(* A change of the mode is a trial that ends in one of two ways. *)

\* With no change pending every picture is the confirmed one.
LEMMA PicturesAtRest ==
    ASSUME ChangeInv, engine = NoPending
    PROVE  Picture = confirmed
<1>1. \A o \in Outputs : Picture[o] = confirmed[o]
  BY DEF ChangeInv, OldIsConfirmed, Changing
<1>2. Picture = [o \in Outputs |-> Picture[o]]  BY DEF Picture
<1> QED  BY <1>1, <1>2 DEF ChangeInv, ChangeTypes

LEMMA BeginTries ==
    ASSUME ChangeInv, RequestTypes, BeginApply
    PROVE  \E o \in Outputs, others \in SUBSET Outputs, m \in Modes :
              Trial!Try(o, others, m)
<1> DEFINE k == crtc[call.output]
           others == On(k) \ {call.output}
<1>1. /\ call.output \in Outputs /\ k \in Crtcs /\ call.mode \in Modes
      /\ mode[k] \in Modes /\ crtc' = crtc
      /\ \A o \in On(k) : Picture'[o] = call.mode /\ confirmed[o] = mode[k]
      /\ \A o \in Outputs \ On(k) : Picture'[o] = confirmed[o]
  BY ModeApplied
<1>2. call.output \in On(k) /\ On(k) \subseteq Outputs  BY <1>1 DEF On
<1>3. /\ engine = NoPending /\ engine.transaction = 0
      /\ engine'.transaction = issued + 1 /\ issued' = issued + 1
      /\ confirmed' = confirmed /\ engine'.crtc = k /\ engine'.output = call.output
  BY DEF BeginApply, NoPending, NewNumber
<1>4. engine' # NoPending
  BY ChangeBegun, <1>3 DEF RequestTypes, NoPending
<1>5. Mirrors' = others  BY <1>1, <1>3 DEF Mirrors, On
<1>6. confirmed[call.output] # Dark
  BY <1>1, <1>2, DisplayAssumption
<1>7. Picture' = [p \in Outputs |-> IF p \in others \cup {call.output}
                                   THEN call.mode ELSE confirmed[p]]
  <2>1. Picture' = [p \in Outputs |-> Picture'[p]]  BY DEF Picture
  <2>2. \A p \in Outputs : Picture'[p] = IF p \in others \cup {call.output}
                                         THEN call.mode ELSE confirmed[p]
    BY <1>1, <1>2
  <2> QED  BY <2>1, <2>2
<1>8. \A p \in others : confirmed[p] = confirmed[call.output]
  BY <1>1, <1>2
<1> HIDE DEF others
<1>9. Trial!Try(call.output, others, call.mode)
  BY <1>3, <1>4, <1>5, <1>6, <1>7, <1>8 DEF Trial!Try, others
<1> QED  BY <1>1, <1>2, <1>9 DEF others

LEMMA KeepKeeps ==
    ASSUME ChangeInv, NEW c \in Clients, Keep(c)
    PROVE  Trial!Keep
<1>1. engine.transaction # 0
  BY PendingIsOnTrial DEF Keep, Names
<1>2. /\ confirmed' = Picture /\ engine' = NoPending /\ issued' = issued
      /\ crtc' = crtc /\ mode' = mode
  BY DEF Keep, serverVars, screen
<1>3. Picture' = Picture /\ engine'.transaction = 0
  BY <1>2 DEF Picture, NoPending
<1> QED  BY <1>1, <1>2, <1>3 DEF Trial!Keep

\* A rollback sets one CRTC, and with it all outputs are as they were, but for
\* the mirrors.
LEMMA RevertUndoes ==
    ASSUME ChangeInv, Pending, RevertPending, issued' = issued
    PROVE  Trial!Undo
<1>1. engine.transaction # 0 /\ engine # NoPending  BY PendingIsOnTrial
<1>2. /\ engine' = NoPending /\ engine'.transaction = 0
      /\ confirmed' = [o \in Outputs |-> IF o \in Mirrors THEN Dark ELSE confirmed[o]]
  BY DEF RevertPending, NoPending
<1>3. Picture' = confirmed'
  <2>1. Picture' = [o \in Outputs |-> Picture'[o]]  BY DEF Picture
  <2> QED  BY <1>2, <2>1, PictureReverted
<1> QED  BY <1>1, <1>2, <1>3 DEF Trial!Undo

LEMMA GivingUpUndoes ==
    ASSUME ChangeInv, GiveUp, issued' = issued
    PROVE  [Trial!Next]_(Trial!vars)
<1>1. CASE Stranded
  BY <1>1, RevertUndoes DEF GiveUp, Stranded, Trial!Next
<1>2. CASE ~Stranded
  BY <1>2 DEF GiveUp, Trial!vars, change, screen, Picture, Mirrors, On
<1> QED  BY <1>1, <1>2

LEMMA TrialStep ==
    ASSUME ChangeInv, RequestTypes, [Next]_vars
    PROVE  [Trial!Next]_(Trial!vars)
<1>1. CASE BeginApply
  BY <1>1, BeginTries DEF Trial!Next
<1>2. ASSUME NEW c \in Clients, Keep(c) PROVE Trial!Next
  BY <1>2, KeepKeeps DEF Trial!Next
<1>3. ASSUME NEW c \in Clients, Revert(c) PROVE Trial!Next
  BY <1>3, RevertUndoes DEF Revert, Names, Trial!Next
<1>4. CASE Tick
  BY <1>4, RevertUndoes DEF Tick, Expired, Trial!Next
<1>5. ASSUME NEW c \in Clients, GetDisplays(c) \/ BeginStale(c)
      PROVE  [Trial!Next]_(Trial!vars)
  BY <1>5, GivingUpUndoes DEF GetDisplays, BeginStale, Refresh
<1>6. ASSUME UNCHANGED <<crtc, mode, engine, confirmed, issued>>
      PROVE  [Trial!Next]_(Trial!vars)
  BY <1>6 DEF Trial!vars, Picture, Mirrors, On
<1>7. CASE GetDisplaysFails
  BY <1>6, <1>7, GivingUpUndoes DEF GetDisplaysFails, change, screen
<1>8. ASSUME NEW c \in Clients,
             \/ \E o \in Outputs, m \in Modes : BeginCheck(c, o, m)
             \/ RevertRefused(c) \/ SetShellScale(c) \/ Die(c)
      PROVE  [Trial!Next]_(Trial!vars)
  BY <1>6, <1>8 DEF BeginCheck, RevertRefused, Refuse, SetShellScale, Die,
                    serverVars, engineVars, screen
<1>9. CASE \/ BeginRefused \/ BeginPublish \/ BeginUnpublished
           \/ Hotplug \/ TimePasses \/ UNCHANGED vars
  BY <1>6, <1>9 DEF BeginRefused, BeginPublish, BeginUnpublished, Hotplug,
                    TimePasses, serverVars, engineVars, screen, vars
<1> QED
  BY <1>1, <1>2, <1>3, <1>4, <1>5, <1>7, <1>8, <1>9 DEF Next, Begin, Decide, Read

\* Every step of the platform, the engine, the X server, the timer and the
\* clients is a step of the trial, or none of it (begin_mode, keep, revert,
\* refresh and tick of DisplayService).
THEOREM DisplayRefinement == Spec => ImplementsTrial
<1>1. Init => Trial!Init
  <2> SUFFICES ASSUME Init PROVE Trial!Init  OBVIOUS
  <2>1. Picture \in [Outputs -> Modes \cup {Dark}]
    BY DEF Init, Picture
  <2> QED  BY <2>1 DEF Init, Trial!Init, NoPending
<1>2. DisplayInv /\ [Next]_vars => [Trial!Next]_(Trial!vars)
  BY TrialStep DEF DisplayInv
<1> QED
  BY <1>1, <1>2, DisplayInvariance, PTL DEF Spec, ImplementsTrial, Trial!Spec

\* Without mirrors at the start there are none later, and a change that ends
\* without a keep leaves every output as before.
THEOREM DisplayRestores == Spec /\ Unmirrored => UndoneIsAsBefore
<1> DEFINE Restored == engine # NoPending /\ engine' = NoPending
                          => Picture' \in {Picture, confirmed}
<1>1. DisplayInv /\ Unmirrored /\ [Next]_vars => Unmirrored'
  <2> SUFFICES ASSUME ChangeInv, RequestTypes, Unmirrored, [Next]_vars
               PROVE  Unmirrored'
    BY DEF DisplayInv
  <2>1. crtc' = crtc \/ (Pending /\ RevertPending)
    <3>1. CASE BeginApply  BY <3>1, ModeApplied
    <3>2. GiveUp => crtc' = crtc \/ (Pending /\ RevertPending)
      BY DEF GiveUp, Stranded, change, screen
    <3>3. CASE ~BeginApply
      BY <3>2, <3>3
      DEF Next, Begin, BeginCheck, BeginStale, BeginRefused, BeginPublish,
          BeginUnpublished, Decide, Keep, Revert, Names, RevertRefused, Read,
          GetDisplays, GetDisplaysFails, Refresh, SetShellScale, Die, TimePasses,
          Tick, Expired, Hotplug, change, serverVars, screen, vars
    <3> QED  BY <3>1, <3>3
  <2>2. \A o \in Outputs : crtc'[o] \in {crtc[o], NoCrtc}
    <3>1. CASE crtc' = crtc  BY <3>1
    <3>2. CASE Pending /\ RevertPending
      <4>1. /\ engine.output \in Outputs /\ crtc[engine.output] = engine.crtc
            /\ crtc' = [o \in Outputs |-> IF o \in {engine.output} THEN engine.crtc
                                          ELSE IF crtc[o] = engine.crtc THEN NoCrtc
                                          ELSE crtc[o]]
        BY <3>2, PendingIsOnTrial DEF RevertPending, SetCrtc
      <4> QED  BY <4>1
    <3> QED  BY <2>1, <3>1, <3>2
  <2> QED  BY <2>2 DEF Unmirrored
<1>2. DisplayInv /\ Unmirrored /\ [Next]_vars => [Restored]_vars
  <2> SUFFICES ASSUME ChangeInv, RequestTypes, Unmirrored, [Next]_vars,
                      engine # NoPending, engine' = NoPending
               PROVE  Picture' \in {Picture, confirmed}
    BY DEF DisplayInv
  <2>1. [Trial!Next]_(Trial!vars)  BY TrialStep
  <2>2. Pending  BY DEF ChangeInv, SidesAgree, Pending
  <2>3. Mirrors = {}
    BY <2>2, PendingIsOnTrial, DisplayAssumption DEF Unmirrored, Mirrors, On
  <2>4. engine.transaction # 0 /\ engine'.transaction = 0
    BY <2>2, PendingIsOnTrial DEF NoPending
  <2>5. CASE Trial!Keep  BY <2>5 DEF Trial!Keep
  <2>6. CASE Trial!Undo
    BY <2>3, <2>6 DEF Trial!Undo, ChangeInv, ChangeTypes
  <2>7. ~(\E o \in Outputs, others \in SUBSET Outputs, m \in Modes :
             Trial!Try(o, others, m))
    BY <2>4 DEF Trial!Try
  <2> QED  BY <2>1, <2>4, <2>5, <2>6, <2>7 DEF Trial!Next, Trial!vars
<1> QED  BY <1>1, <1>2, DisplayInvariance, PTL DEF Spec, UndoneIsAsBefore

-----------------------------------------------------------------------------
(* The types of what clients and the service remember. *)

Memory ==
    /\ connected \in Topologies
    /\ time \in 1 .. MaxTime
    /\ cached \in Snapshots
    /\ seenTime \in 0 .. MaxTime
    /\ call \in Calls
    /\ answer \in [Clients -> Snapshots]
    /\ scalings \in 0 .. MaxScalings
    /\ faults \in 0 .. MaxFaults

LEMMA NoSnapshotType == NoSnapshot \in Snapshots /\ NoSnapshot.pending = 0
  BY DEF NoSnapshot, Snapshots, Topologies

LEMMA SnapshotType ==
    ASSUME ChangeTypes, Memory, NEW g \in Nat, NEW p \in {NoPending, coordinator}
    PROVE  Snapshot(g, p) \in Snapshots
<1>1. p.transaction \in Nat
  BY DEF ChangeTypes, NoPending, Begun
<1>2. (IF p = NoPending THEN NoOutput ELSE p.output) \in Outputs \cup {NoOutput}
  BY DEF ChangeTypes, Begun
<1> QED  BY <1>1, <1>2 DEF Snapshot, Snapshots, Memory

\* Whatever is published under a natural generation is a snapshot.
LEMMA PublishType ==
    ASSUME ChangeTypes, Memory, NEW g \in Nat, NEW p \in {NoPending, coordinator},
           Publish(g, p)
    PROVE  cached' \in Snapshots /\ seenTime' \in 0 .. MaxTime
<1>1. cached' = Snapshot(g, p) /\ seenTime' = time  BY DEF Publish
<1>2. time \in 0 .. MaxTime  BY DisplayAssumption DEF Memory
<1> QED  BY <1>1, <1>2, SnapshotType

LEMMA Generations ==
    ASSUME Memory
    PROVE  /\ NextGeneration \in Nat /\ Generation \in Nat
           /\ Generation + 1 \in Nat /\ cached.generation + 1 \in Nat
<1>1. cached.generation \in Nat /\ time \in Nat
  BY DisplayAssumption DEF Memory, Snapshots
<1> QED  BY <1>1 DEF NextGeneration, Generation

LEMMA RefreshType ==
    ASSUME ChangeTypes, Memory, Refresh
    PROVE  cached' \in Snapshots /\ seenTime' \in 0 .. MaxTime
  BY Generations, PublishType DEF Refresh

LEMMA FaultType ==
    ASSUME Memory, Fault PROVE faults' \in 0 .. MaxFaults
  BY DisplayAssumption DEF Memory, Fault

\* The handlers that end a change publish, or fail to and count a fault.
LEMMA EndedType ==
    ASSUME ChangeTypes, Memory, NEW c \in Clients, NEW g \in Nat,
           \/ Publish(g, NoPending) /\ Told(c, TRUE) /\ UNCHANGED faults
           \/ Fault /\ Told(c, FALSE) /\ UNCHANGED <<cached, seenTime>>
    PROVE  /\ cached' \in Snapshots /\ seenTime' \in 0 .. MaxTime
           /\ faults' \in 0 .. MaxFaults
  BY PublishType, FaultType DEF Memory

LEMMA MemoryStep ==
    ASSUME ChangeTypes, Memory, [Next]_vars
    PROVE  Memory'
<1>1. ASSUME NEW c \in Clients, GetDisplays(c) PROVE Memory'
  <2>1. cached' \in Snapshots /\ seenTime' \in 0 .. MaxTime
    BY <1>1, RefreshType DEF GetDisplays
  <2>2. /\ answer' = [answer EXCEPT ![c] = cached']
        /\ UNCHANGED <<connected, time, call, scalings, faults>>
    BY <1>1 DEF GetDisplays
  <2> QED  BY <2>1, <2>2 DEF Memory
<1>2. ASSUME NEW c \in Clients, BeginStale(c) PROVE Memory'
  <2>1. cached' \in Snapshots /\ seenTime' \in 0 .. MaxTime
    BY <1>2, RefreshType DEF BeginStale
  <2> QED  BY <1>2, <2>1 DEF BeginStale, Memory, clientVars
<1>3. ASSUME NEW c \in Clients, NEW o \in Outputs, NEW m \in Modes,
             BeginCheck(c, o, m)
      PROVE  Memory'
  <2>1. call' \in Calls
    BY <1>3, DisplayAssumption DEF BeginCheck, Calls, Memory
  <2> QED
    BY <1>3, <2>1 DEF BeginCheck, Memory, serverVars, serviceVars, clientVars
<1>4. CASE BeginApply
  <2>1. call.client \in Clients
    BY <1>4 DEF BeginApply, Memory, Calls, NoCall
  <2>2. call' \in Calls  BY <1>4, <2>1 DEF BeginApply, Calls
  <2>3. time' \in 1 .. MaxTime  BY <1>4 DEF BeginApply, Memory
  <2> QED  BY <1>4, <2>2, <2>3 DEF BeginApply, Memory, clientVars
<1>5. CASE BeginRefused \/ BeginUnpublished
  <2>1. faults' \in 0 .. MaxFaults
    BY <1>5, FaultType DEF BeginRefused, BeginUnpublished, Memory
  <2> QED
    BY <1>5, <2>1 DEF BeginRefused, BeginUnpublished, Memory, Calls, serverVars,
                      serviceVars, clientVars
<1>6. CASE BeginPublish
  <2>1. cached' \in Snapshots /\ seenTime' \in 0 .. MaxTime
    BY <1>6, Generations, PublishType DEF BeginPublish
  <2> QED
    BY <1>6, <2>1 DEF BeginPublish, Memory, Calls, serverVars
<1>7. ASSUME NEW c \in Clients, Keep(c) \/ Revert(c) PROVE Memory'
  <2>1. /\ cached' \in Snapshots /\ seenTime' \in 0 .. MaxTime
        /\ faults' \in 0 .. MaxFaults
    BY <1>7, Generations, EndedType DEF Keep, Revert
  <2> QED  BY <1>7, <2>1 DEF Keep, Revert, Memory, serverVars
<1>8. ASSUME NEW c \in Clients, RevertRefused(c) PROVE Memory'
  BY <1>8, FaultType DEF RevertRefused, Memory, serverVars, clientVars
<1>9. CASE GetDisplaysFails
  BY <1>9, FaultType DEF GetDisplaysFails, Memory, clientVars
<1>10. ASSUME NEW c \in Clients, SetShellScale(c) PROVE Memory'
  <2>1. cached' = [cached EXCEPT !.generation = @ + 1]
    BY <1>10 DEF SetShellScale
  <2>2. cached' \in Snapshots  BY <2>1 DEF Memory, Snapshots
  <2>3. scalings' \in 0 .. MaxScalings
    BY <1>10, DisplayAssumption DEF SetShellScale, Memory
  <2> QED
    BY <1>10, <2>2, <2>3 DEF SetShellScale, Memory, serverVars, clientVars
<1>11. ASSUME NEW c \in Clients, Die(c) PROVE Memory'
  BY <1>11, NoSnapshotType DEF Die, Memory, serverVars, serviceVars
<1>12. CASE TimePasses
  BY <1>12 DEF TimePasses, Memory, serverVars, clientVars
<1>13. CASE Tick
  <2>1. /\ cached' \in Snapshots /\ seenTime' \in 0 .. MaxTime
        /\ faults' \in 0 .. MaxFaults
    BY <1>13, Generations, PublishType, FaultType DEF Tick, Memory
  <2> QED  BY <1>13, <2>1 DEF Tick, Memory, clientVars
<1>14. CASE Hotplug
  <2>1. time' \in 1 .. MaxTime
    BY <1>14, DisplayAssumption DEF Hotplug, Memory
  <2> QED  BY <1>14, <2>1 DEF Hotplug, Memory, serviceVars, clientVars
<1>15. CASE UNCHANGED vars  BY <1>15 DEF vars, Memory
<1> QED
  BY <1>1, <1>2, <1>3, <1>4, <1>5, <1>6, <1>7, <1>8, <1>9, <1>10, <1>11, <1>12,
     <1>13, <1>14, <1>15
  DEF Next, Begin, Decide, Read

\* The variables keep their types, for any number of changes and failures.
THEOREM DisplayTypeCorrect == Spec => []TypeOK
<1>1. Init => Memory
  <2> SUFFICES ASSUME Init PROVE Memory  OBVIOUS
  <2>1. time = 1 /\ seenTime = 0 /\ scalings = 0 /\ faults = 0  BY DEF Init
  <2>2. /\ 1 \in 1 .. MaxTime /\ 0 \in 0 .. MaxTime
        /\ 0 \in 0 .. MaxScalings /\ 0 \in 0 .. MaxFaults
    BY DisplayAssumption
  <2>3. /\ connected \in Topologies /\ cached \in Snapshots /\ call \in Calls
        /\ answer \in [Clients -> Snapshots]
    BY NoSnapshotType DEF Init, Calls
  <2> QED  BY <2>1, <2>2, <2>3 DEF Memory
<1>2. DisplayInv /\ Memory /\ [Next]_vars => Memory'
  BY MemoryStep DEF DisplayInv, ChangeInv
<1>3. Spec => []Memory  BY <1>1, <1>2, DisplayInvariance, PTL DEF Spec
<1>4. Spec => []HeldInv
  BY InitHeld, HeldStep, DisplayInvariance, PTL DEF Spec
<1>5. DisplayInv /\ Memory /\ HeldInv => TypeOK
  BY DEF HeldInv, Asked, DisplayInv, ChangeInv, ChangeTypes, RequestTypes, Changes, Begun, Memory,
         TypeOK
<1> QED  BY <1>3, <1>4, <1>5, DisplayInvariance, PTL
=============================================================================
