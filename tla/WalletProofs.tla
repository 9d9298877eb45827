---------------------------- MODULE WalletProofs ----------------------------
(***************************************************************************)
(* Proofs about Wallet: what the created outputs are, for every plan, on   *)
(* every platform, with any number of writes of other code to the Buffers. *)
(***************************************************************************)
EXTENDS Wallet, CommitmentsProofs, FiniteSetTheorems

IsFull(d) == plan.drafts[d].form = "full"

\* The drawn asset blinding was left alone.
LeftAlone(d) == IsFull(d) /\ Abf(d) \notin disturbed

\* A record opens itself, under the tag of the token, blinded if it has to be.
Opens(d, record) ==
  /\ record.generator = create_asset_commitment(plan.drafts[d].token, record.abf)
  /\ record.commitment = Commit(plan.drafts[d].value, record.vbf, record.generator)
  /\ ~IsFull(d) => record.abf = ZERO_TWEAK
  /\ LeftAlone(d) => record.abf # ZERO_TWEAK

\* A creation is still to be made, and its blindings are drawn.
IsDrawn(d) ==
  /\ stage[d] \in {"drawn", "balanced"}
  /\ call[d] = None \/ call[d].op \in {"balance", "factored"}

\* A zero never gets on the way from the draw to the output: not into the Buffer,
\* not into a copy that crosses the bridge, not into an answer.
DraftInvariant(d) ==
  /\ output[d] # None => Opens(d, output[d])
  /\ call[d] # None =>
       /\ call[d].op = "created" => Opens(d, call[d])
       /\ call[d].op = "create" /\ LeftAlone(d) =>
            /\ call[d].arguments[Abf(d)].is = "copy"
            /\ call[d].arguments[Abf(d)].of # ZERO_TWEAK
       /\ call[d].op \in {"balance", "factored"} /\ IsFull(d) => stage[d] = "drawn"
  /\ IsDrawn(d) /\ LeftAlone(d) => buffers[Abf(d)] # ZERO_TWEAK

Domains ==
  /\ plan \in Plans
  /\ DOMAIN buffers = Buffers /\ DOMAIN stage = Drafts
  /\ DOMAIN call = Drafts /\ DOMAIN output = Drafts

WalletInvariant == Domains /\ \A d \in Drafts : DraftInvariant(d)

LEMMA AbfIsBuffer ==
  ASSUME Domains
  PROVE  \A d \in Drafts : d \in 0 .. Last /\ Abf(d) \in Buffers
<1>1. plan.drafts \in Seq([form : Form \ {"transparent"}, token : Tokens, value : Amounts])
  BY PlanAssumption DEF Domains
<1>2. \A d \in Drafts : d \in 0 .. Last BY <1>1 DEF Drafts, Last
<1> QED  BY <1>2 DEF Buffers, Abf

LEMMA DraftInvariantInit ==
  ASSUME Init
  PROVE  WalletInvariant
BY DEF Init, WalletInvariant, Domains, DraftInvariant, IsDrawn, Drafts

\* What leaves alone a draft, its call, its output and its Buffer keeps its part.
LEMMA DraftUntouched ==
  ASSUME NEW d, DraftInvariant(d), plan' = plan, disturbed \subseteq disturbed',
         output'[d] = output[d], call'[d] = call[d], stage'[d] = stage[d],
         buffers'[Abf(d)] = buffers[Abf(d)] \/ ~IsDrawn(d) \/ Abf(d) \in disturbed'
  PROVE  DraftInvariant(d)'
BY DEF DraftInvariant, IsDrawn, LeftAlone, IsFull, Opens, Abf

----------------------------------------------------------------------------
(* One lemma per operation on a draft.                                     *)

LEMMA DrawKeeps ==
  ASSUME WalletInvariant, NEW d \in Drafts, Draw(d)
  PROVE  WalletInvariant'
<1> DEFINE needs == (IF d = Last THEN {} ELSE {Vbf(d)})
                    \cup (IF plan.drafts[d].form = "full" THEN {Abf(d)} ELSE {})
<1>1. PICK drawn \in [needs -> RandomBlindingFactor] :
        buffers' = [b \in Buffers |-> IF b \in needs THEN drawn[b] ELSE buffers[b]]
  BY DEF Draw
<1>2. Domains' BY <1>1 DEF Draw, WalletInvariant, Domains, Buffers, Drafts, Last
<1>3. ASSUME NEW e \in Drafts PROVE DraftInvariant(e)'
  <2>1. DraftInvariant(e) /\ Abf(e) \in Buffers BY AbfIsBuffer DEF WalletInvariant
  <2>2. CASE e # d
    <3>1. Abf(e) \notin needs BY <2>2 DEF Abf, Vbf
    <3>2. buffers'[Abf(e)] = buffers[Abf(e)] BY <1>1, <2>1, <3>1
    <3> QED  BY <2>1, <2>2, <3>2, DraftUntouched DEF Draw
  <2>3. CASE e = d
    <3>1. IsFull(d) => buffers'[Abf(d)] # ZERO_TWEAK
      <4> SUFFICES ASSUME IsFull(d) PROVE buffers'[Abf(d)] # ZERO_TWEAK
        OBVIOUS
      <4>1. Abf(d) \in needs BY DEF IsFull
      <4> HIDE DEF needs
      <4>2. drawn[Abf(d)] # ZERO_TWEAK BY <4>1 DEF RandomBlindingFactor
      <4> QED  BY <1>1, <2>1, <2>3, <4>1, <4>2
    <3> QED  BY <2>1, <2>3, <3>1
             DEF Draw, DraftInvariant, IsDrawn, LeftAlone, IsFull, Opens, Abf
  <2> QED  BY <2>2, <2>3
<1> QED  BY <1>2, <1>3 DEF WalletInvariant, Draw, Drafts

LEMMA UnsupportedKeeps ==
  ASSUME WalletInvariant, NEW d \in Drafts, Unsupported(d)
  PROVE  WalletInvariant'
<1>1. Domains' BY DEF Unsupported, Fail, WalletInvariant, Domains, Buffers, Drafts, Last
<1>2. ASSUME NEW e \in Drafts PROVE DraftInvariant(e)'
  <2>1. DraftInvariant(e) BY DEF WalletInvariant
  <2>2. CASE e # d BY <2>1, <2>2, DraftUntouched DEF Unsupported, Fail
  <2>3. CASE e = d
    <3>1. stage'[d] = "failed" BY DEF Unsupported, Fail, WalletInvariant, Domains
    <3> QED  BY <2>1, <2>3, <3>1
             DEF Unsupported, Fail, DraftInvariant, IsDrawn, LeftAlone, IsFull, Opens, Abf
  <2> QED  BY <2>2, <2>3
<1> QED  BY <1>1, <1>2 DEF WalletInvariant, Unsupported, Fail, Drafts

\* An answer opens itself; its asset blinding is the one that native code read.
LEMMA AnswerOpens ==
  ASSUME NEW d, NEW op \in {"create", "balance"}, NEW arguments,
         Answer(d, op, arguments).op = "created",
         LeftAlone(d) => Contents(arguments[Abf(d)]) # ZERO_TWEAK
  PROVE  Opens(d, Answer(d, op, arguments))
BY DEF Answer, Refused, CreateAnswer, FactorAnswer, Opens, AbfOf, LeftAlone, IsFull

LEMMA AnswerOp ==
  ASSUME NEW d, NEW op \in {"create", "balance"}, NEW arguments
  PROVE  /\ Answer(d, op, arguments).op \in
              {"refused", IF op = "create" THEN "created" ELSE "factored"}
         /\ Answer(d, op, arguments) # None
<1>1. Answer(d, op, arguments).op \in
        {"refused", IF op = "create" THEN "created" ELSE "factored"}
  BY DEF Answer, Refused, CreateAnswer, FactorAnswer
<1>2. Answer(d, op, arguments) # None
  <2>1. "op" \in DOMAIN Answer(d, op, arguments)
    BY DEF Answer, Refused, CreateAnswer, FactorAnswer
  <2>2. "op" \notin DOMAIN None BY DEF None
  <2> QED  BY <2>1, <2>2
<1> QED  BY <1>1, <1>2

\* A call that is refused, wherever it is, is nothing but refused.
LEMMA RefusedKeeps ==
  ASSUME WalletInvariant, NEW d \in Drafts, call' = [call EXCEPT ![d] = Refused],
         UNCHANGED <<platform, plan, spent, buffers, stage, output, result, writes, disturbed>>
  PROVE  WalletInvariant'
<1>1. call' = [call EXCEPT ![d] = Refused]
      /\ UNCHANGED <<platform, plan, spent, buffers, stage, output, result, writes, disturbed>>
  OBVIOUS
<1>2. Domains' BY <1>1 DEF WalletInvariant, Domains, Buffers, Drafts, Last
<1>3. call'[d] = Refused BY <1>1 DEF WalletInvariant, Domains
<1>4. DraftInvariant(d)'
  <2>1. DraftInvariant(d) BY DEF WalletInvariant
  <2>2. Refused # None /\ Refused.op = "refused"
    <3>1. "op" \in DOMAIN Refused /\ "op" \notin DOMAIN None BY DEF Refused, None
    <3>2. Refused.op = "refused" BY DEF Refused
    <3> QED  BY <3>1, <3>2
  <2> QED  BY <1>1, <1>3, <2>1, <2>2
           DEF DraftInvariant, IsDrawn, LeftAlone, IsFull, Opens, Abf
<1>5. ASSUME NEW e \in Drafts, e # d PROVE DraftInvariant(e)'
  <2>1. DraftInvariant(e) BY DEF WalletInvariant
  <2>2. call'[e] = call[e] BY <1>1, <1>5 DEF WalletInvariant, Domains
  <2> QED  BY <1>1, <2>1, <2>2, DraftUntouched
<1> QED  BY <1>1, <1>2, <1>4, <1>5 DEF WalletInvariant, Drafts

LEMMA CallKeeps ==
  ASSUME WalletInvariant, NEW d \in Drafts, NEW op \in {"create", "balance"}, Call(d, op)
  PROVE  WalletInvariant'
<1>0. CASE call' = [call EXCEPT ![d] = Refused]
  BY <1>0, RefusedKeeps DEF Call
<1> SUFFICES ASSUME call' # [call EXCEPT ![d] = Refused] PROVE WalletInvariant'
  BY <1>0
<1> DEFINE arguments == [b \in Reads(d, op) |-> EncodeBytes(b)]
           answer == Answer(d, op, arguments)
<1>1. call' = [call EXCEPT ![d] = IF RunsInTurn THEN answer
                                  ELSE [op |-> op, arguments |-> arguments]]
      /\ call[d] = None /\ Ready(d, op)
      /\ UNCHANGED <<platform, plan, spent, buffers, stage, output, result, writes, disturbed>>
  BY DEF Call
<1>2. Domains' BY <1>1 DEF WalletInvariant, Domains, Buffers, Drafts, Last
<1>3. call'[d] = IF RunsInTurn THEN answer ELSE [op |-> op, arguments |-> arguments]
  BY <1>1 DEF WalletInvariant, Domains
<1>4. DraftInvariant(d) BY DEF WalletInvariant
<1>5. op = "create" =>
        (LeftAlone(d) => /\ Contents(arguments[Abf(d)]) # ZERO_TWEAK
                         /\ ~RunsInTurn => /\ arguments[Abf(d)].is = "copy"
                                           /\ arguments[Abf(d)].of # ZERO_TWEAK)
  <2> SUFFICES ASSUME op = "create", LeftAlone(d)
               PROVE  /\ Contents(arguments[Abf(d)]) # ZERO_TWEAK
                      /\ ~RunsInTurn => /\ arguments[Abf(d)].is = "copy"
                                        /\ arguments[Abf(d)].of # ZERO_TWEAK
    OBVIOUS
  <2>1. Abf(d) \in Reads(d, op) BY DEF Reads, CreateReads, LeftAlone, IsFull
  <2>2. arguments[Abf(d)] = EncodeBytes(Abf(d)) BY <2>1
  <2>3. buffers[Abf(d)] # ZERO_TWEAK
    BY <1>1, <1>4 DEF DraftInvariant, IsDrawn, Ready
  <2> HIDE DEF arguments
  <2> QED  BY <2>2, <2>3 DEF Contents, EncodeBytes, RunsInTurn
<1>6. op = "balance" /\ IsFull(d) => stage[d] = "drawn" BY <1>1 DEF Ready, IsFull
<1>7. DraftInvariant(d)'
  <2>1. CASE RunsInTurn
    <3>1. answer.op \in {"refused", IF op = "create" THEN "created" ELSE "factored"}
      BY AnswerOp
    <3>2. answer.op = "created" => Opens(d, answer)
      <4>1. ASSUME answer.op = "created" PROVE op = "create" BY <3>1, <4>1
      <4> HIDE DEF arguments
      <4> QED  BY <1>5, <4>1, AnswerOpens DEF answer
    <3> HIDE DEF answer
    <3>3. IsDrawn(d)' => op = "balance" BY <1>3, <2>1, <3>1, AnswerOp DEF IsDrawn, answer
    <3>4. IsDrawn(d)' => IsDrawn(d) BY <1>1 DEF IsDrawn
    <3> QED  BY <1>1, <1>3, <1>4, <1>6, <2>1, <3>1, <3>2, <3>3, <3>4
             DEF DraftInvariant, LeftAlone, IsFull, Opens, Abf
  <2>2. CASE ~RunsInTurn
    <3>1. call'[d] = [op |-> op, arguments |-> arguments] BY <1>3, <2>2
    <3> HIDE DEF arguments
    <3>2. call'[d].op = op /\ call'[d].arguments = arguments BY <3>1
    <3>3. IsDrawn(d)' => IsDrawn(d) BY <1>1 DEF IsDrawn
    <3> QED  BY <1>1, <1>4, <1>5, <1>6, <2>2, <3>2, <3>3
             DEF DraftInvariant, LeftAlone, IsFull, Opens, Abf
  <2> QED  BY <2>1, <2>2
<1>8. ASSUME NEW e \in Drafts, e # d PROVE DraftInvariant(e)'
  <2>1. DraftInvariant(e) BY DEF WalletInvariant
  <2>2. call'[e] = call[e] BY <1>1, <1>8 DEF WalletInvariant, Domains
  <2> QED  BY <1>1, <2>1, <2>2, DraftUntouched
<1> QED  BY <1>1, <1>2, <1>7, <1>8 DEF WalletInvariant, Drafts

LEMMA RunKeeps ==
  ASSUME WalletInvariant, NEW d \in Drafts, Run(d)
  PROVE  WalletInvariant'
<1> DEFINE op == call[d].op
           answer == Answer(d, op, call[d].arguments)
<1>1. call' = [call EXCEPT ![d] = answer] /\ call[d] # None /\ op \in {"create", "balance"}
      /\ UNCHANGED <<platform, plan, spent, buffers, stage, output, result, writes, disturbed>>
  BY DEF Run, OnItsWay
<1>2. Domains' BY <1>1 DEF WalletInvariant, Domains, Buffers, Drafts, Last
<1>3. call'[d] = answer BY <1>1 DEF WalletInvariant, Domains
<1>4. DraftInvariant(d) BY DEF WalletInvariant
<1>5. answer.op \in {"refused", IF op = "create" THEN "created" ELSE "factored"}
  BY <1>1, AnswerOp
<1>6. ASSUME answer.op = "created" PROVE Opens(d, answer)
  <2>1. op = "create" BY <1>1, <1>5, <1>6
  <2>2. LeftAlone(d) => Contents(call[d].arguments[Abf(d)]) # ZERO_TWEAK
    BY <1>1, <1>4, <2>1 DEF DraftInvariant, Contents
  <2> QED  BY <1>1, <1>6, <2>2, AnswerOpens
<1>7. DraftInvariant(d)'
  <2>1. answer # None BY <1>1, AnswerOp
  <2> HIDE DEF answer
  <2>2. IsDrawn(d)' => IsDrawn(d) /\ op = "balance"
    BY <1>1, <1>3, <1>5, <2>1 DEF IsDrawn
  <2> QED  BY <1>1, <1>3, <1>4, <1>5, <1>6, <2>2
           DEF DraftInvariant, LeftAlone, IsFull, Opens, Abf
<1>8. ASSUME NEW e \in Drafts, e # d PROVE DraftInvariant(e)'
  <2>1. DraftInvariant(e) BY DEF WalletInvariant
  <2>2. call'[e] = call[e] BY <1>1, <1>8 DEF WalletInvariant, Domains
  <2> QED  BY <1>1, <2>1, <2>2, DraftUntouched
<1> QED  BY <1>1, <1>2, <1>7, <1>8 DEF WalletInvariant, Drafts

LEMMA BreakKeeps ==
  ASSUME WalletInvariant, NEW d \in Drafts, Break(d)
  PROVE  WalletInvariant'
BY RefusedKeeps DEF Break

LEMMA CreatedKeeps ==
  ASSUME WalletInvariant, NEW d \in Drafts, Created(d)
  PROVE  WalletInvariant'
<1>1. call[d] # None /\ call[d].op = "created" /\ call' = [call EXCEPT ![d] = None]
      /\ plan' = plan /\ disturbed' = disturbed
  BY DEF Created
<1>2. Domains'
  BY DEF Created, WalletInvariant, Domains, Buffers, Drafts, Last
<1>3. call'[d] = None BY <1>1 DEF WalletInvariant, Domains
<1>4. DraftInvariant(d) /\ Opens(d, call[d]) BY <1>1 DEF WalletInvariant, DraftInvariant
<1>5. ~IsDrawn(d) BY <1>1 DEF IsDrawn
<1>6. DraftInvariant(d)'
  <2>1. CASE result' = "ok"
    <3> DEFINE made == [generator |-> call[d].generator, commitment |-> call[d].commitment,
                        vbf |-> ReturnedBlindingFactor(d), abf |-> call[d].abf]
    <3>1. output' = [output EXCEPT ![d] = made] /\ stage' = [stage EXCEPT ![d] = "created"]
      BY <2>1 DEF Created
    <3>2. output'[d] = made /\ stage'[d] = "created" BY <3>1 DEF WalletInvariant, Domains
    <3>3. Opens(d, made) BY <1>4 DEF Opens, ReturnedBlindingFactor
    <3> HIDE DEF made
    <3> QED  BY <1>1, <1>3, <3>2, <3>3
             DEF DraftInvariant, IsDrawn, LeftAlone, IsFull, Opens, Abf
  <2>2. CASE result' # "ok"
    <3>1. output' = output /\ stage' = [stage EXCEPT ![d] = "failed"]
      BY <2>2 DEF Created
    <3>2. stage'[d] = "failed" BY <3>1 DEF WalletInvariant, Domains
    <3> QED  BY <1>1, <1>3, <1>4, <3>1, <3>2
             DEF DraftInvariant, IsDrawn, LeftAlone, IsFull, Opens, Abf
  <2> QED  BY <2>1, <2>2
<1>7. ASSUME NEW e \in Drafts, e # d PROVE DraftInvariant(e)'
  <2>1. DraftInvariant(e) /\ Abf(e) \in Buffers BY AbfIsBuffer DEF WalletInvariant
  <2>2. call'[e] = call[e] BY <1>1, <1>7 DEF WalletInvariant, Domains
  <2>3. output'[e] = output[e] /\ stage'[e] = stage[e]
    BY <1>7 DEF Created, WalletInvariant, Domains
  <2>4. buffers'[Abf(e)] = buffers[Abf(e)]
    <3>1. Abf(e) # BlindingFactor(d) /\ Abf(e) # AssetBlindingFactor(d)
      BY DEF Abf, BlindingFactor, AssetBlindingFactor
    <3>2. CASE result' = "ok"
      <4>1. buffers' = [b \in Buffers |->
              CASE b = BlindingFactor(d) -> ReturnedBlindingFactor(d)
                [] b = AssetBlindingFactor(d) /\ plan.drafts[d].form = "full" -> call[d].abf
                [] OTHER -> buffers[b]]
        BY <3>2 DEF Created
      <4> QED  BY <2>1, <3>1, <4>1, Zenon
    <3>3. CASE result' # "ok" BY <3>3 DEF Created
    <3> QED  BY <3>2, <3>3
  <2> QED  BY <1>1, <2>1, <2>2, <2>3, <2>4, DraftUntouched
<1> QED  BY <1>1, <1>2, <1>6, <1>7 DEF WalletInvariant, Drafts

LEMMA BalancedKeeps ==
  ASSUME WalletInvariant, NEW d \in Drafts, Balanced(d)
  PROVE  WalletInvariant'
<1>1. call[d] # None /\ call[d].op = "factored" /\ call' = [call EXCEPT ![d] = None]
      /\ stage' = [stage EXCEPT ![d] = "balanced"]
      /\ buffers' = [buffers EXCEPT ![Vbf(d)] = call[d].factor]
      /\ UNCHANGED <<platform, plan, spent, output, result, writes, disturbed>>
  BY DEF Balanced
<1>2. Domains' BY <1>1 DEF WalletInvariant, Domains, Buffers, Drafts, Last
<1>3. call'[d] = None /\ stage'[d] = "balanced" BY <1>1 DEF WalletInvariant, Domains
<1>4. \A e \in Drafts : buffers'[Abf(e)] = buffers[Abf(e)]
  <2>1. \A e : Abf(e) # Vbf(d) BY DEF Abf, Vbf
  <2> QED  BY <1>1, <2>1, AbfIsBuffer DEF WalletInvariant, Domains
<1>5. DraftInvariant(d)'
  <2>1. DraftInvariant(d) BY DEF WalletInvariant
  <2>2. LeftAlone(d) => IsDrawn(d)
    BY <1>1, <2>1 DEF DraftInvariant, IsDrawn, LeftAlone
  <2> QED  BY <1>1, <1>3, <1>4, <2>1, <2>2
           DEF DraftInvariant, LeftAlone, IsFull, Opens, Abf
<1>6. ASSUME NEW e \in Drafts, e # d PROVE DraftInvariant(e)'
  <2>1. DraftInvariant(e) BY DEF WalletInvariant
  <2>2. call'[e] = call[e] /\ stage'[e] = stage[e]
    BY <1>1, <1>6 DEF WalletInvariant, Domains
  <2> QED  BY <1>1, <1>4, <2>1, <2>2, DraftUntouched
<1> QED  BY <1>1, <1>2, <1>5, <1>6 DEF WalletInvariant, Drafts

LEMMA RejectedKeeps ==
  ASSUME WalletInvariant, NEW d \in Drafts, Rejected(d)
  PROVE  WalletInvariant'
<1>1. call' = [call EXCEPT ![d] = None] /\ stage' = [stage EXCEPT ![d] = "failed"]
      /\ UNCHANGED <<platform, plan, spent, buffers, output, result, writes, disturbed>>
  BY DEF Rejected, Fail
<1>2. Domains' BY <1>1 DEF WalletInvariant, Domains, Buffers, Drafts, Last
<1>3. call'[d] = None /\ stage'[d] = "failed" BY <1>1 DEF WalletInvariant, Domains
<1>4. DraftInvariant(d)'
  <2>1. DraftInvariant(d) BY DEF WalletInvariant
  <2> QED  BY <1>1, <1>3, <2>1 DEF DraftInvariant, IsDrawn, LeftAlone, IsFull, Opens, Abf
<1>5. ASSUME NEW e \in Drafts, e # d PROVE DraftInvariant(e)'
  <2>1. DraftInvariant(e) BY DEF WalletInvariant
  <2>2. call'[e] = call[e] /\ stage'[e] = stage[e]
    BY <1>1, <1>5 DEF WalletInvariant, Domains
  <2> QED  BY <1>1, <2>1, <2>2, DraftUntouched
<1> QED  BY <1>1, <1>2, <1>4, <1>5 DEF WalletInvariant, Drafts

\* A write to a Buffer that a creation has still to read is noticed.
LEMMA WriteKeeps ==
  ASSUME WalletInvariant, NEW b \in Buffers, NEW bytes, Write(b, bytes)
  PROVE  WalletInvariant'
<1>1. buffers' = [buffers EXCEPT ![b] = bytes]
      /\ disturbed' = (IF b \in ReadLater THEN disturbed \cup {b} ELSE disturbed)
      /\ UNCHANGED <<platform, plan, spent, stage, call, output, result>>
  BY DEF Write
<1>2. Domains' BY <1>1 DEF WalletInvariant, Domains, Buffers, Drafts, Last
<1>3. ASSUME NEW e \in Drafts PROVE DraftInvariant(e)'
  <2>1. DraftInvariant(e) BY DEF WalletInvariant
  <2>2. CASE ~LeftAlone(e)
    BY <1>1, <2>1, <2>2 DEF DraftInvariant, IsDrawn, LeftAlone, IsFull, Opens, Abf
  <2>3. CASE LeftAlone(e) /\ b = Abf(e) /\ IsDrawn(e)
    <3>1. e \in ToCreate BY <2>3 DEF ToCreate, IsDrawn
    <3>2. Abf(e) \in CreateReads(e) BY <2>3 DEF CreateReads, LeftAlone, IsFull
    <3>3. b \in ReadLater BY <2>3, <3>1, <3>2 DEF ReadLater
    <3>4. b \in disturbed' BY <1>1, <3>3
    <3> QED  BY <1>1, <2>1, <2>3, <3>4, DraftUntouched
  <2>4. CASE LeftAlone(e) /\ ~(b = Abf(e) /\ IsDrawn(e))
    <3>1. buffers'[Abf(e)] = buffers[Abf(e)] \/ ~IsDrawn(e)
      BY <1>1, <2>4 DEF WalletInvariant, Domains
    <3>2. disturbed \subseteq disturbed' BY <1>1
    <3> QED  BY <1>1, <2>1, <3>1, <3>2, DraftUntouched
  <2> QED  BY <2>2, <2>3, <2>4
<1> QED  BY <1>1, <1>2, <1>3 DEF WalletInvariant, Drafts

----------------------------------------------------------------------------
(* The invariant, and what it shows.                                       *)

LEMMA OthersKeep ==
  ASSUME WalletInvariant,
         UNCHANGED <<platform, plan, buffers, stage, call, output, disturbed>>
  PROVE  WalletInvariant'
<1>1. Domains' BY DEF WalletInvariant, Domains, Buffers, Drafts, Last
<1>2. ASSUME NEW e \in Drafts PROVE DraftInvariant(e)'
  BY DraftUntouched DEF WalletInvariant
<1> QED  BY <1>1, <1>2 DEF WalletInvariant, Drafts

\* Every step of the wallet, of native code and of other code keeps what is said
\* of the drafts, their calls and their outputs.
THEOREM WalletCorrect == Spec => []WalletInvariant
<1>1. Init => WalletInvariant BY DraftInvariantInit
<1>2. WalletInvariant /\ [Next]_vars => WalletInvariant'
  <2> SUFFICES ASSUME WalletInvariant, [Next]_vars PROVE WalletInvariant'
    OBVIOUS
  <2>1. CASE Spend BY <2>1, OthersKeep DEF Spend
  <2>2. CASE Submit BY <2>2, OthersKeep DEF Submit
  <2>3. ASSUME NEW d \in Drafts,
               Draw(d) \/ Unsupported(d) \/ Call(d, "create") \/ Call(d, "balance")
                 \/ Created(d) \/ Balanced(d) \/ Rejected(d)
        PROVE  WalletInvariant'
    BY <2>3, DrawKeeps, UnsupportedKeeps, CallKeeps, CreatedKeeps, BalancedKeeps,
       RejectedKeeps
  <2>4. ASSUME NEW d \in Drafts, Run(d) \/ Break(d) PROVE WalletInvariant'
    BY <2>4, RunKeeps, BreakKeeps
  <2>5. ASSUME NEW b \in Buffers, NEW bytes, Write(b, bytes) PROVE WalletInvariant'
    BY <2>5, WriteKeeps
  <2>6. CASE UNCHANGED vars BY <2>6, OthersKeep DEF vars
  <2> QED  BY <2>1, <2>2, <2>3, <2>4, <2>5, <2>6 DEF Next, WalletNext, NativeNext
<1> QED  BY <1>1, <1>2, PTL DEF Spec

----------------------------------------------------------------------------
(* Types.  What a call reads has been set, its answer holds scalars, and   *)
(* the last draft is balanced when the others are created.                 *)

Word == Scalars \cup {Malformed, Unset}
Argument == [is : {"copy"}, of : Scalars \cup {Malformed}]
Record == [generator : Generator, commitment : Point, vbf : Scalars, abf : Scalars]

Refusal(d) == call[d].op = "refused"
ReadyStage(d) == IF d = Last THEN "balanced" ELSE "drawn"

Creating(d) ==
  /\ call[d].op = "create" /\ stage[d] = ReadyStage(d)
  /\ call[d].arguments \in [Reads(d, "create") -> Argument]
Balancing(d) ==
  /\ call[d].op = "balance" /\ d = Last /\ stage[d] \in {"planned", "drawn"}
  /\ call[d].arguments \in [Reads(d, "balance") -> Argument]
Creation(d) ==
  /\ call[d].op = "created" /\ stage[d] = ReadyStage(d)
  /\ call[d].vbf \in Scalars /\ call[d].abf \in Scalars
  /\ call[d].result = CreateResult(plan.drafts[d].value, call[d].vbf)
Factoring(d) ==
  /\ call[d].op = "factored" /\ d = Last /\ stage[d] \in {"planned", "drawn"}
  /\ call[d].factor \in Scalars

CallTyped(d) ==
  call[d] # None =>
    Refusal(d) \/ Creating(d) \/ Balancing(d) \/ Creation(d) \/ Factoring(d)

IsSet(b) == buffers[b] # Unset

DrawnAreSet(d) ==
  /\ stage[d] = "drawn" /\ d # Last => IsSet(Vbf(d))
  /\ stage[d] = "balanced" => d = Last /\ IsSet(Vbf(d))
  /\ stage[d] \in {"drawn", "balanced"} /\ IsFull(d) => IsSet(Abf(d))

CreatedAreSet(d) ==
  stage[d] = "created" =>
    /\ call[d] = None /\ IsSet(BlindingFactor(d))
    /\ IsFull(d) => IsSet(AssetBlindingFactor(d))

OutputTyped(d) ==
  /\ stage[d] = "created" <=> output[d] # None
  /\ output[d] # None => output[d] \in Record

\* A draft has been started on.
Begun(d) == stage[d] # "planned" \/ call[d] # None

\* The factor has been asked for.
AskedFor(d) ==
  \/ stage[d] \in {"balanced", "created"}
  \/ call[d] # None /\ call[d].op \in {"balance", "factored"}

DraftTyped(d) ==
  /\ CallTyped(d) /\ DrawnAreSet(d) /\ CreatedAreSet(d) /\ OutputTyped(d)
  /\ Begun(d) => spent
  /\ call[d] # None => platform # "browser"

OthersCreated == AskedFor(Last) => \A d \in Drafts : d # Last => stage[d] = "created"

InputIsSet ==
  /\ IsSet(Zero)
  /\ plan.input.form # "transparent" => IsSet(BlindingFactor(0))
  /\ plan.input.form = "full" => IsSet(AssetBlindingFactor(0))

Results == {"none", "ok", "InvalidCommitment", "RangeProofError", "true", "false", "throw", "abort"}

Globals ==
  /\ platform \in Platforms /\ spent \in BOOLEAN /\ result \in Results
  /\ buffers \in [Buffers -> Word]
  /\ stage \in [Drafts -> {"planned", "drawn", "balanced", "created", "failed"}]
  /\ writes \in 0 .. MaxWrites /\ disturbed \subseteq Buffers

WalletTyped ==
  /\ WalletInvariant /\ Globals /\ InputIsSet /\ OthersCreated
  /\ \A d \in Drafts : DraftTyped(d)

LEMMA PlanIs ==
  ASSUME plan \in Plans
  PROVE  /\ Last \in Nat \ {0} /\ Last <= MaxDrafts /\ Drafts = 1 .. Last /\ Last \in Drafts
         /\ \A d \in Drafts : /\ plan.drafts[d].value \in Amounts /\ plan.drafts[d].token \in Tokens
                              /\ plan.drafts[d].form \in {"amount", "full"}
         /\ plan.input.value \in Amounts \ {0} /\ plan.input.token \in Tokens
         /\ plan.input.vbf \in Scalars /\ plan.input.abf \in Scalars
<1> DEFINE Draft == [form : Form \ {"transparent"}, token : Tokens, value : Amounts]
           list == plan.drafts
<1>1. list \in Seq(Draft) /\ Len(list) \in 1 .. MaxDrafts BY PlanAssumption
<1>2. Len(list) \in Nat /\ DOMAIN list = 1 .. Len(list) BY <1>1
<1>3. \A d \in DOMAIN list : list[d] \in Draft
  <2> HIDE DEF Draft, list
  <2> QED  BY <1>1
<1>4. \A x \in Draft : x.value \in Amounts /\ x.token \in Tokens /\ x.form \in {"amount", "full"}
  BY DEF Form
<1>5. /\ plan.input.value \in Amounts \ {0} /\ plan.input.token \in Tokens
      /\ plan.input.vbf \in Scalars /\ plan.input.abf \in Scalars
  BY PlanAssumption
<1> HIDE DEF Draft, list
<1>6. Last = Len(list) /\ Drafts = DOMAIN list BY DEF Last, Drafts, list
<1>7. \A d \in Drafts : list[d] \in Draft BY <1>3, <1>6
<1>8. \A d \in Drafts : /\ list[d].value \in Amounts /\ list[d].token \in Tokens
                        /\ list[d].form \in {"amount", "full"}
  BY <1>4, <1>7
<1>9. Last \in Nat \ {0} /\ Last <= MaxDrafts /\ Drafts = 1 .. Last /\ Last \in Drafts
  BY <1>1, <1>2, <1>6, WalletAssumption
<1> QED  BY <1>5, <1>8, <1>9 DEF list

LEMMA BuffersAre ==
  ASSUME plan \in Plans
  PROVE  /\ Zero \in Buffers
         /\ \A d \in 0 .. Last : /\ Vbf(d) \in Buffers /\ Abf(d) \in Buffers
                                 /\ BlindingFactor(d) \in Buffers
                                 /\ AssetBlindingFactor(d) \in Buffers
                                 /\ EntryVbf(d) \in Buffers /\ EntryGbf(d) \in Buffers
         /\ LastGbf \in Buffers
<1>1. Last \in 0 .. Last BY PlanIs
<1>2. \A d \in 0 .. Last : /\ Vbf(d) \in Buffers /\ Abf(d) \in Buffers
                           /\ BlindingFactor(d) \in Buffers /\ AssetBlindingFactor(d) \in Buffers
  BY DEF Buffers, Vbf, Abf, BlindingFactor, AssetBlindingFactor
<1>3. Zero \in Buffers BY DEF Buffers
<1> QED  BY <1>1, <1>2, <1>3 DEF EntryVbf, EntryGbf, LastGbf

\* The blindings of all the entries but the last.
Others == (0 .. Last) \ {Last}

LEMMA ReadsAre ==
  ASSUME plan \in Plans, NEW d \in Drafts
  PROVE  /\ CreateReads(d) \subseteq Buffers /\ BalanceReads \subseteq Buffers
         /\ Vbf(d) \in CreateReads(d)
         /\ IsFull(d) => Abf(d) \in CreateReads(d)
         /\ LastGbf \in BalanceReads
         /\ \A e \in Others : EntryVbf(e) \in BalanceReads /\ EntryGbf(e) \in BalanceReads
<1>1. d \in 0 .. Last BY PlanIs
<1>2. CreateReads(d) \subseteq Buffers BY <1>1, BuffersAre DEF CreateReads
<1>3. BalanceReads \subseteq Buffers BY BuffersAre DEF BalanceReads
<1> QED  BY <1>2, <1>3 DEF CreateReads, BalanceReads, IsFull, Others

LEMMA TypedUntouched ==
  ASSUME plan \in Plans, NEW d \in Drafts, DraftTyped(d), plan' = plan, platform' = platform,
         output'[d] = output[d], call'[d] = call[d], stage'[d] = stage[d], spent => spent',
         \A b \in Buffers : IsSet(b) => IsSet(b)'
  PROVE  DraftTyped(d)'
<1>1. d \in 0 .. Last BY PlanIs
<1>2. /\ Vbf(d) \in Buffers /\ Abf(d) \in Buffers
      /\ BlindingFactor(d) \in Buffers /\ AssetBlindingFactor(d) \in Buffers
  BY <1>1, BuffersAre
<1>3. /\ IsSet(Vbf(d)) => IsSet(Vbf(d))'
      /\ IsSet(Abf(d)) => IsSet(Abf(d))'
      /\ IsSet(BlindingFactor(d)) => IsSet(BlindingFactor(d))'
      /\ IsSet(AssetBlindingFactor(d)) => IsSet(AssetBlindingFactor(d))'
  BY <1>2 DEF Vbf, Abf, BlindingFactor, AssetBlindingFactor
<1>4. /\ IsFull(d)' = IsFull(d) /\ Last' = Last
      /\ Reads(d, "create")' = Reads(d, "create") /\ Reads(d, "balance")' = Reads(d, "balance")
  BY DEF IsFull, Last, Reads, CreateReads, BalanceReads, LastGbf, EntryVbf, EntryGbf, Zero, Vbf,
         Abf, BlindingFactor, AssetBlindingFactor
<1>5. CallTyped(d)'
  <2>1. /\ Refusal(d) => Refusal(d)'
        /\ Creating(d) => Creating(d)'
        /\ Balancing(d) => Balancing(d)'
        /\ Factoring(d) => Factoring(d)'
    BY <1>4 DEF Refusal, Creating, Balancing, Factoring, ReadyStage
  <2>2. Creation(d) => Creation(d)'
    BY <1>4 DEF Creation, ReadyStage, CreateResult, RejectedByCreateCommitment
  <2>3. CallTyped(d) BY DEF DraftTyped
  <2>4. call'[d] # None' => call[d] # None BY DEF None
  <2> QED  BY <2>1, <2>2, <2>3, <2>4 DEF CallTyped
<1>6. DrawnAreSet(d)' /\ CreatedAreSet(d)' /\ OutputTyped(d)'
  <2>1. DrawnAreSet(d)'
    BY <1>3, <1>4 DEF DraftTyped, DrawnAreSet, IsSet, Vbf, Abf
  <2>2. CreatedAreSet(d)'
    BY <1>3, <1>4 DEF DraftTyped, CreatedAreSet, IsSet, BlindingFactor, AssetBlindingFactor, None
  <2>3. OutputTyped(d)' BY DEF DraftTyped, OutputTyped, None
  <2> QED  BY <2>1, <2>2, <2>3
<1> QED  BY <1>5, <1>6 DEF DraftTyped, Begun, None

LEMMA InputStaysSet ==
  ASSUME plan \in Plans, InputIsSet, plan' = plan, \A b \in Buffers : IsSet(b) => IsSet(b)'
  PROVE  InputIsSet'
<1>1. 0 \in 0 .. Last BY PlanIs
<1>2. Zero \in Buffers /\ BlindingFactor(0) \in Buffers /\ AssetBlindingFactor(0) \in Buffers
  BY <1>1, BuffersAre
<1> QED  BY <1>2 DEF InputIsSet, Zero, BlindingFactor, AssetBlindingFactor

\* A step of one draft.
LEMMA DraftStepTyped ==
  ASSUME WalletTyped, WalletInvariant', NEW d \in Drafts, DraftTyped(d)',
         UNCHANGED <<platform, plan, spent, writes, disturbed>>,
         result' \in Results, buffers' \in [Buffers -> Word],
         stage' \in [Drafts -> {"planned", "drawn", "balanced", "created", "failed"}],
         \A b \in Buffers : IsSet(b) => IsSet(b)',
         \A e \in Drafts \ {d} :
           output'[e] = output[e] /\ call'[e] = call[e] /\ stage'[e] = stage[e],
         stage[d] # "created",
         d = Last /\ AskedFor(d)' => AskedFor(d) \/ \A e \in Drafts : e # d => stage[e] = "created"
  PROVE  WalletTyped'
<1>1. plan \in Plans BY DEF WalletTyped, WalletInvariant, Domains
<1>2. Drafts' = Drafts /\ Last' = Last /\ Buffers' = Buffers BY DEF Drafts, Last, Buffers
<1>3. Globals' BY <1>2 DEF WalletTyped, Globals
<1>4. InputIsSet' BY <1>1, InputStaysSet DEF WalletTyped
<1>5. ASSUME NEW e \in Drafts PROVE DraftTyped(e)'
  BY <1>1, TypedUntouched DEF WalletTyped
<1>6. OthersCreated'
  <2> SUFFICES ASSUME AskedFor(Last)', NEW e \in Drafts, e # Last PROVE stage'[e] = "created"
    BY <1>2 DEF OthersCreated
  <2>1. Last \in Drafts BY <1>1, PlanIs
  <2>2. OthersCreated BY DEF WalletTyped
  <2>3. CASE d = Last
    <3>1. stage[e] = "created"
      <4>1. AskedFor(d)' BY <1>2, <2>3
      <4> QED  BY <2>2, <2>3, <4>1 DEF OthersCreated
    <3> QED  BY <2>3, <3>1
  <2>4. CASE d # Last
    <3>1. AskedFor(Last) BY <1>2, <2>1, <2>4 DEF AskedFor
    <3>2. stage[d] = "created" BY <2>2, <2>4, <3>1 DEF OthersCreated
    <3> QED  BY <3>2
  <2> QED  BY <2>3, <2>4
<1> QED  BY <1>2, <1>3, <1>4, <1>5, <1>6 DEF WalletTyped

LEMMA OthersTyped ==
  ASSUME WalletTyped, spent => spent', spent' \in BOOLEAN, result' \in Results,
         UNCHANGED <<platform, plan, buffers, stage, call, output, writes, disturbed>>
  PROVE  WalletTyped'
<1>1. plan \in Plans BY DEF WalletTyped, WalletInvariant, Domains
<1>2. Drafts' = Drafts /\ Last' = Last /\ Buffers' = Buffers BY DEF Drafts, Last, Buffers
<1>3. \A b \in Buffers : IsSet(b) => IsSet(b)' BY DEF IsSet
<1>4. Globals' BY <1>2 DEF WalletTyped, Globals
<1>5. InputIsSet' BY <1>1, <1>3, InputStaysSet DEF WalletTyped
<1>6. ASSUME NEW e \in Drafts PROVE DraftTyped(e)'
  BY <1>1, <1>3, TypedUntouched DEF WalletTyped
<1>7. OthersCreated' BY <1>2 DEF WalletTyped, OthersCreated, AskedFor
<1>8. WalletInvariant' BY OthersKeep DEF WalletTyped
<1> QED  BY <1>2, <1>4, <1>5, <1>6, <1>7, <1>8 DEF WalletTyped

LEMMA InitTyped == Init => WalletTyped
<1> SUFFICES ASSUME Init PROVE WalletTyped
  OBVIOUS
<1>1. WalletInvariant /\ plan \in Plans BY DraftInvariantInit DEF Init
<1>2. Globals
  <2> DEFINE content(b) == CASE b = Zero -> ZERO_TWEAK
         [] b = BlindingFactor(0) /\ plan.input.form # "transparent" -> plan.input.vbf
         [] b = AssetBlindingFactor(0) /\ plan.input.form = "full" -> plan.input.abf
         [] OTHER -> Unset
  <2>1. \A b : content(b) \in {ZERO_TWEAK, plan.input.vbf, plan.input.abf, Unset} OBVIOUS
  <2>2. {ZERO_TWEAK, plan.input.vbf, plan.input.abf, Unset} \subseteq Word
    BY <1>1, PlanIs, ScalarAssumption DEF Word
  <2>3. \A b : content(b) \in Word BY <2>1, <2>2
  <2>4. buffers = [b \in Buffers |-> content(b)] BY DEF Init
  <2> HIDE DEF content
  <2>5. buffers \in [Buffers -> Word] BY <2>3, <2>4
  <2>6. 0 \in 0 .. MaxWrites BY WalletAssumption
  <2>7. stage \in [Drafts -> {"planned", "drawn", "balanced", "created", "failed"}] BY DEF Init
  <2> QED  BY <2>5, <2>6, <2>7 DEF Init, Globals, Results
<1>3. InputIsSet
  <2>1. 0 \in 0 .. Last BY <1>1, PlanIs
  <2>2. Zero \in Buffers /\ BlindingFactor(0) \in Buffers /\ AssetBlindingFactor(0) \in Buffers
    BY <1>1, <2>1, BuffersAre
  <2>3. BlindingFactor(0) # Zero /\ AssetBlindingFactor(0) # Zero
        /\ AssetBlindingFactor(0) # BlindingFactor(0)
    BY DEF BlindingFactor, AssetBlindingFactor, Zero
  <2>4. plan.input.vbf # Unset /\ plan.input.abf # Unset /\ ZERO_TWEAK # Unset
    BY <1>1, PlanIs, WalletAssumption, ScalarAssumption
  <2>5. buffers[Zero] = ZERO_TWEAK BY <2>2, <2>3, Zenon DEF Init
  <2>6. plan.input.form # "transparent" => buffers[BlindingFactor(0)] = plan.input.vbf
    BY <2>2, <2>3, Zenon DEF Init
  <2>7. plan.input.form = "full" => buffers[AssetBlindingFactor(0)] = plan.input.abf
    BY <2>2, <2>3, Zenon DEF Init
  <2> QED  BY <2>4, <2>5, <2>6, <2>7 DEF InputIsSet, IsSet
<1>4. \A d \in Drafts : stage[d] = "planned" /\ call[d] = None /\ output[d] = None BY DEF Init
<1>5. \A d \in Drafts : DraftTyped(d)
  BY <1>4 DEF DraftTyped, CallTyped, DrawnAreSet, CreatedAreSet, OutputTyped, Begun
<1>6. OthersCreated
  <2>1. Last \in Drafts BY <1>1, PlanIs
  <2> QED  BY <1>4, <2>1 DEF OthersCreated, AskedFor
<1> QED  BY <1>1, <1>2, <1>3, <1>5, <1>6 DEF WalletTyped

LEMMA TypedIs ==
  ASSUME WalletTyped
  PROVE  /\ plan \in Plans /\ Domains /\ Globals
         /\ \A d \in Drafts : DraftTyped(d)
<1>1. Domains /\ Globals /\ \A d \in Drafts : DraftTyped(d) BY DEF WalletTyped, WalletInvariant
<1>2. Domains => plan \in Plans BY DEF Domains
<1> QED  BY <1>1, <1>2

LEMMA DrawTyped ==
  ASSUME WalletTyped, NEW d \in Drafts, Draw(d)
  PROVE  WalletTyped'
<1> DEFINE needs == (IF d = Last THEN {} ELSE {Vbf(d)})
                    \cup (IF plan.drafts[d].form = "full" THEN {Abf(d)} ELSE {})
<1>1. PICK drawn \in [needs -> RandomBlindingFactor] :
        buffers' = [b \in Buffers |-> IF b \in needs THEN drawn[b] ELSE buffers[b]]
  BY DEF Draw
<1>2. /\ spent /\ stage[d] = "planned" /\ call[d] = None /\ platform # "browser"
      /\ stage' = [stage EXCEPT ![d] = "drawn"]
      /\ UNCHANGED <<platform, plan, spent, call, output, result, writes, disturbed>>
  BY DEF Draw
<1>3. d \in 0 .. Last /\ plan \in Plans /\ Globals /\ DraftTyped(d) BY TypedIs, PlanIs
<1>4. Vbf(d) \in Buffers /\ Abf(d) \in Buffers BY <1>3, BuffersAre
<1>5. \A b \in needs : drawn[b] \in Scalars /\ drawn[b] # Unset
  <2> HIDE DEF needs
  <2> QED  BY <1>1, WalletAssumption DEF RandomBlindingFactor
<1>6. \A b \in Buffers : (IF b \in needs THEN drawn[b] ELSE buffers[b]) \in Word
  <2> HIDE DEF needs
  <2> QED  BY <1>3, <1>5 DEF Globals, Word
<1>7. d # Last => Vbf(d) \in needs OBVIOUS
<1>8. IsFull(d) => Abf(d) \in needs BY DEF IsFull
<1> HIDE DEF needs
<1>9. buffers' \in [Buffers -> Word] BY <1>1, <1>6
<1>10. \A b \in Buffers : IsSet(b) => IsSet(b)' BY <1>1, <1>5 DEF IsSet
<1>11. /\ d # Last => buffers'[Vbf(d)] # Unset
       /\ IsFull(d) => buffers'[Abf(d)] # Unset
  BY <1>1, <1>4, <1>5, <1>7, <1>8
<1>12. stage'[d] = "drawn" BY <1>2, <1>3 DEF Globals
<1>13. /\ Last' = Last
       /\ IsFull(d)' = IsFull(d)
  BY <1>2 DEF Last, IsFull
<1>14. DraftTyped(d)'
  <2>1. CallTyped(d)' BY <1>2 DEF CallTyped, None
  <2>2. DrawnAreSet(d)' BY <1>11, <1>12, <1>13 DEF DrawnAreSet, IsSet, Vbf, Abf
  <2>3. CreatedAreSet(d)' BY <1>12 DEF CreatedAreSet
  <2>4. OutputTyped(d)' BY <1>2, <1>3, <1>12 DEF DraftTyped, OutputTyped, None
  <2> QED  BY <1>2, <2>1, <2>2, <2>3, <2>4 DEF DraftTyped, None
<1>15. ~AskedFor(d)' BY <1>2, <1>12 DEF AskedFor, None
<1>16. stage' \in [Drafts -> {"planned", "drawn", "balanced", "created", "failed"}]
  BY <1>2, <1>3 DEF Globals
<1>17. WalletInvariant' BY DrawKeeps DEF WalletTyped
<1>18. result' \in Results BY <1>2, <1>3 DEF Globals
<1>19. \A e \in Drafts \ {d} : output'[e] = output[e] /\ call'[e] = call[e] /\ stage'[e] = stage[e]
  BY <1>2, <1>3 DEF Globals
<1> QED  BY <1>2, <1>9, <1>10, <1>14, <1>15, <1>16, <1>17, <1>18, <1>19, DraftStepTyped

\* A draft that fails has neither a call nor an output.
LEMMA FailedTyped ==
  ASSUME NEW d, stage'[d] = "failed", call'[d] = None, output'[d] = output[d], OutputTyped(d),
         stage[d] # "created", spent'
  PROVE  DraftTyped(d)' /\ ~AskedFor(d)'
<1>1. CallTyped(d)' BY DEF CallTyped, None
<1>2. DrawnAreSet(d)' BY DEF DrawnAreSet
<1>3. CreatedAreSet(d)' BY DEF CreatedAreSet
<1>4. OutputTyped(d)' BY DEF OutputTyped, None
<1>5. ~AskedFor(d)' BY DEF AskedFor, None
<1> QED  BY <1>1, <1>2, <1>3, <1>4, <1>5 DEF DraftTyped, None

LEMMA FailsTyped ==
  ASSUME WalletTyped, NEW d \in Drafts, Fail(d), call'[d] = None,
         \A e \in Drafts \ {d} : call'[e] = call[e], spent, stage[d] # "created", WalletInvariant'
  PROVE  WalletTyped'
<1>1. /\ stage' = [stage EXCEPT ![d] = "failed"]
      /\ UNCHANGED <<platform, plan, spent, buffers, output, result, writes, disturbed>>
  BY DEF Fail
<1>2. Domains /\ Globals /\ DraftTyped(d) BY TypedIs
<1>3. stage'[d] = "failed" BY <1>1, <1>2 DEF Domains
<1>4. DraftTyped(d)' /\ ~AskedFor(d)' BY <1>1, <1>2, <1>3, FailedTyped DEF DraftTyped
<1>5. \A b \in Buffers : IsSet(b) => IsSet(b)' BY <1>1 DEF IsSet
<1>6. stage' \in [Drafts -> {"planned", "drawn", "balanced", "created", "failed"}]
  BY <1>1, <1>2 DEF Globals
<1>7. \A e \in Drafts \ {d} : output'[e] = output[e] /\ call'[e] = call[e] /\ stage'[e] = stage[e]
  BY <1>1, <1>2 DEF Domains
<1>8. buffers' \in [Buffers -> Word] /\ result' \in Results BY <1>1, <1>2 DEF Globals
<1> QED  BY <1>1, <1>4, <1>5, <1>6, <1>7, <1>8, DraftStepTyped

LEMMA UnsupportedTyped ==
  ASSUME WalletTyped, NEW d \in Drafts, Unsupported(d)
  PROVE  WalletTyped'
<1>1. spent /\ stage[d] = "planned" /\ platform = "browser" /\ Fail(d) /\ UNCHANGED call
  BY DEF Unsupported
<1>2. Domains /\ DraftTyped(d) BY TypedIs
<1>3. call[d] = None BY <1>1, <1>2 DEF DraftTyped
<1>4. call'[d] = None BY <1>1, <1>3
<1>5. WalletInvariant' BY UnsupportedKeeps DEF WalletTyped
<1>6. \A e \in Drafts \ {d} : call'[e] = call[e] BY <1>1
<1> QED  BY <1>1, <1>4, <1>5, <1>6, FailsTyped

LEMMA RejectedTyped ==
  ASSUME WalletTyped, NEW d \in Drafts, Rejected(d)
  PROVE  WalletTyped'
<1>1. call[d] # None /\ Fail(d) /\ call' = [call EXCEPT ![d] = None] BY DEF Rejected, Rejects
<1>2. DraftTyped(d) BY TypedIs
<1>3. spent /\ stage[d] # "created" BY <1>1, <1>2 DEF DraftTyped, Begun, CreatedAreSet
<1>4. WalletInvariant' BY RejectedKeeps DEF WalletTyped
<1>5. /\ call'[d] = None
      /\ \A e \in Drafts \ {d} : call'[e] = call[e]
  BY <1>1, TypedIs DEF Domains
<1> QED  BY <1>1, <1>3, <1>4, <1>5, FailsTyped

\* What native code answers to arguments that have been set.
LEMMA AnswerTyped ==
  ASSUME plan \in Plans, NEW d \in Drafts, NEW op \in {"create", "balance"}, NEW arguments,
         DOMAIN arguments = Reads(d, op),
         \A b \in Reads(d, op) : Contents(arguments[b]) \in Scalars \cup {Malformed}
  PROVE  \/ Answer(d, op, arguments).op = "refused"
         \/ /\ op = "create" /\ Answer(d, op, arguments).op = "created"
            /\ Answer(d, op, arguments).vbf \in Scalars
            /\ Answer(d, op, arguments).abf \in Scalars
            /\ Answer(d, op, arguments).vbf = Contents(arguments[Vbf(d)])
            /\ Answer(d, op, arguments).abf = AbfOf(d, arguments)
            /\ Answer(d, op, arguments).result
                 = CreateResult(plan.drafts[d].value, Answer(d, op, arguments).vbf)
         \/ /\ op = "balance" /\ Answer(d, op, arguments).op = "factored"
            /\ Answer(d, op, arguments).factor \in Scalars
            /\ \A b \in BalanceReads : Contents(arguments[b]) \in Scalars
            /\ Answer(d, op, arguments) = FactorAnswer(arguments)
<1>1. CASE ~Parse(arguments) BY <1>1 DEF Answer, Refused
<1>2. CASE Parse(arguments)
  <2>1. \A b \in Reads(d, op) : Contents(arguments[b]) \in Scalars BY <1>2 DEF Parse
  <2>2. CASE op = "create"
    <3>1. \A b \in CreateReads(d) : Contents(arguments[b]) \in Scalars
      BY <2>1, <2>2 DEF Reads
    <3>2. Contents(arguments[Vbf(d)]) \in Scalars BY <3>1, ReadsAre
    <3>3. AbfOf(d, arguments) \in Scalars
      BY <3>1, ReadsAre, ScalarAssumption DEF AbfOf, IsFull
    <3>4. Answer(d, op, arguments) = CreateAnswer(d, arguments) BY <1>2, <2>2 DEF Answer
    <3> QED  BY <2>2, <3>2, <3>3, <3>4 DEF CreateAnswer
  <2>3. CASE op = "balance"
    <3>1. \A b \in BalanceReads : Contents(arguments[b]) \in Scalars
      BY <2>1, <2>3 DEF Reads
    <3>2. \A e \in Others : EntrySecret(e, arguments) \in Scalars
      <4> SUFFICES ASSUME NEW e \in Others PROVE EntrySecret(e, arguments) \in Scalars
        OBVIOUS
      <4>1. EntryVbf(e) \in BalanceReads /\ EntryGbf(e) \in BalanceReads BY ReadsAre
      <4>2. EntryValue(e) \in Amounts
        <5>1. e = 0 \/ e \in Drafts BY PlanIs DEF Others
        <5> QED  BY <5>1, PlanIs DEF EntryValue
      <4> QED  BY <3>1, <4>1, <4>2, ScalarClosure DEF EntrySecret
    <3> DEFINE list == [e \in 1 .. Last - 1 |-> EntrySecret(e, arguments)]
    <3>3. list \in Seq(Scalars)
      <4>1. Last - 1 \in Nat /\ 1 .. Last - 1 \subseteq Others BY PlanIs DEF Others
      <4>2. list \in [1 .. Last - 1 -> Scalars] BY <3>2, <4>1
      <4> HIDE DEF list
      <4> QED  BY <4>1, <4>2
    <3> HIDE DEF list
    <3>4. ScalarSum(list) \in Scalars BY <3>3, ScalarSumType
    <3>5. 0 \in Others BY PlanIs DEF Others
    <3>6. Times(plan.drafts[Last].value, Contents(arguments[LastGbf])) \in Scalars
      BY <3>1, ReadsAre, PlanIs, ScalarAssumption
    <3>7. FactorAnswer(arguments).op = "factored" /\ FactorAnswer(arguments).factor \in Scalars
      BY <3>2, <3>4, <3>5, <3>6, ScalarClosure DEF FactorAnswer, list
    <3>8. Answer(d, op, arguments) = FactorAnswer(arguments) BY <1>2, <2>3 DEF Answer
    <3> QED  BY <2>3, <3>1, <3>7, <3>8
  <2> QED  BY <2>2, <2>3
<1> QED  BY <1>1, <1>2

\* What a call that is ready reads has been set.
LEMMA ReadyIsSet ==
  ASSUME WalletTyped, NEW d \in Drafts, NEW op \in {"create", "balance"}, Ready(d, op)
  PROVE  /\ Reads(d, op) \subseteq Buffers
         /\ \A b \in Reads(d, op) : buffers[b] \in Scalars \cup {Malformed}
         /\ op = "create" => stage[d] = ReadyStage(d)
         /\ op = "balance" => /\ d = Last /\ stage[d] \in {"planned", "drawn"}
                              /\ \A e \in Drafts : e # d => stage[e] = "created"
<1>1. plan \in Plans /\ Globals /\ InputIsSet /\ \A e \in Drafts : DraftTyped(e)
  BY TypedIs DEF WalletTyped
<1>2. Reads(d, op) \subseteq Buffers BY <1>1, ReadsAre DEF Reads
<1>3. \A b \in Reads(d, op) : IsSet(b)
  <2>1. CASE op = "create"
    <3>1. stage[d] = IF d = Last THEN "balanced" ELSE "drawn" BY <2>1 DEF Ready
    <3>2. IsSet(Vbf(d)) BY <1>1, <3>1 DEF DraftTyped, DrawnAreSet
    <3>3. IsFull(d) => IsSet(Abf(d)) BY <1>1, <3>1 DEF DraftTyped, DrawnAreSet
    <3> QED  BY <2>1, <3>2, <3>3 DEF Reads, CreateReads, IsFull
  <2>2. CASE op = "balance"
    <3>1. /\ d = Last /\ stage[d] = (IF IsFull(d) THEN "drawn" ELSE "planned")
          /\ \A e \in Drafts \ {d} : stage[e] = "created"
      BY <2>2 DEF Ready, IsFull
    <3>2. IsSet(LastGbf)
      BY <1>1, <3>1 DEF DraftTyped, DrawnAreSet, LastGbf, IsFull, InputIsSet
    <3>3. ASSUME NEW e \in (0 .. Last) \ {Last} PROVE IsSet(EntryVbf(e)) /\ IsSet(EntryGbf(e))
      <4>1. CASE e = 0
        BY <1>1, <4>1 DEF InputIsSet, EntryVbf, EntryGbf
      <4>2. CASE e # 0
        <5>1. e \in Drafts /\ stage[e] = "created" BY <1>1, <3>1, <4>2, PlanIs
        <5> QED  BY <1>1, <4>2, <5>1
                 DEF DraftTyped, CreatedAreSet, EntryVbf, EntryGbf, InputIsSet, IsFull
      <4> QED  BY <4>1, <4>2
    <3> QED  BY <2>2, <3>2, <3>3 DEF Reads, BalanceReads
  <2> QED  BY <2>1, <2>2
<1>4. \A b \in Reads(d, op) : buffers[b] \in Scalars \cup {Malformed}
  BY <1>1, <1>2, <1>3 DEF Globals, Word, IsSet
<1> QED  BY <1>2, <1>4 DEF Ready, ReadyStage

LEMMA EncodedContents == \A b : Contents(EncodeBytes(b)) = buffers[b]
BY DEF Contents, EncodeBytes

\* A call that is answered.
LEMMA AnsweredTyped ==
  ASSUME WalletTyped, WalletInvariant', NEW d \in Drafts, NEW op \in {"create", "balance"},
         NEW arguments, DOMAIN arguments = Reads(d, op),
         \A b \in Reads(d, op) : Contents(arguments[b]) \in Scalars \cup {Malformed},
         op = "create" => stage[d] = ReadyStage(d),
         op = "balance" => /\ d = Last /\ stage[d] \in {"planned", "drawn"}
                           /\ \A e \in Drafts : e # d => stage[e] = "created",
         call' = [call EXCEPT ![d] = Answer(d, op, arguments)],
         UNCHANGED <<platform, plan, spent, buffers, stage, output, result, writes, disturbed>>,
         spent, platform # "browser"
  PROVE  WalletTyped'
<1> DEFINE answer == Answer(d, op, arguments)
<1>1. plan \in Plans /\ Domains /\ Globals /\ DraftTyped(d) BY TypedIs
<1>2. call'[d] = answer BY <1>1 DEF Domains
<1>3. \/ answer.op = "refused"
      \/ /\ op = "create" /\ answer.op = "created"
         /\ answer.vbf \in Scalars /\ answer.abf \in Scalars
         /\ answer.result = CreateResult(plan.drafts[d].value, answer.vbf)
      \/ op = "balance" /\ answer.op = "factored" /\ answer.factor \in Scalars
  BY <1>1, AnswerTyped
<1> HIDE DEF answer
<1>4. Last' = Last /\ IsFull(d)' = IsFull(d) BY DEF Last, IsFull
<1>5. DraftTyped(d)'
  <2>1. answer.op = "refused" => CallTyped(d)'
    BY <1>2 DEF CallTyped, Refusal
  <2>2. ASSUME op = "create" /\ answer.op = "created" PROVE CallTyped(d)'
    <3>1. Creation(d)'
      BY <1>2, <1>3, <1>4, <2>2
         DEF Creation, ReadyStage, CreateResult, RejectedByCreateCommitment
    <3> QED  BY <3>1 DEF CallTyped
  <2>3. ASSUME op = "balance" /\ answer.op = "factored" PROVE CallTyped(d)'
    <3>1. Factoring(d)' BY <1>2, <1>3, <1>4, <2>3 DEF Factoring
    <3> QED  BY <3>1 DEF CallTyped
  <2>4. CallTyped(d)'
    BY <1>3, <2>1, <2>2, <2>3
  <2>5. DrawnAreSet(d)' BY <1>1, <1>4 DEF DraftTyped, DrawnAreSet, IsSet, Vbf, Abf
  <2>6. CreatedAreSet(d)'
    <3>1. stage[d] # "created" BY DEF ReadyStage
    <3> QED  BY <3>1 DEF CreatedAreSet
  <2>7. OutputTyped(d)' BY <1>1 DEF DraftTyped, OutputTyped, None
  <2> QED  BY <2>4, <2>5, <2>6, <2>7 DEF DraftTyped
<1>6. AskedFor(d)' => AskedFor(d) \/ \A e \in Drafts : e # d => stage[e] = "created"
  BY <1>2, <1>3 DEF AskedFor
<1>7. \A e \in Drafts \ {d} : output'[e] = output[e] /\ call'[e] = call[e] /\ stage'[e] = stage[e]
  BY <1>1 DEF Domains
<1>8. \A b \in Buffers : IsSet(b) => IsSet(b)' BY DEF IsSet
<1>9. /\ buffers' \in [Buffers -> Word] /\ result' \in Results
      /\ stage' \in [Drafts -> {"planned", "drawn", "balanced", "created", "failed"}]
  BY <1>1 DEF Globals
<1>10. stage[d] # "created" BY DEF ReadyStage
<1> QED  BY <1>5, <1>6, <1>7, <1>8, <1>9, <1>10, DraftStepTyped

LEMMA RefusedTyped ==
  ASSUME WalletTyped, NEW d \in Drafts, call' = [call EXCEPT ![d] = Refused],
         spent, platform # "browser", stage[d] # "created",
         UNCHANGED <<platform, plan, spent, buffers, stage, output, result, writes, disturbed>>
  PROVE  WalletTyped'
<1>1. /\ call' = [call EXCEPT ![d] = Refused]
      /\ UNCHANGED <<platform, plan, spent, buffers, stage, output, result, writes, disturbed>>
  OBVIOUS
<1>2. WalletInvariant' BY <1>1, RefusedKeeps DEF WalletTyped
<1>3. plan \in Plans /\ Domains /\ Globals /\ DraftTyped(d) BY TypedIs
<1>4. call'[d] = Refused /\ Refused.op = "refused" BY <1>1, <1>3 DEF Domains, Refused
<1>5. spent /\ platform # "browser" /\ stage[d] # "created" OBVIOUS
<1>6. Last' = Last /\ IsFull(d)' = IsFull(d) BY <1>1 DEF Last, IsFull
<1>7. CallTyped(d)' BY <1>4 DEF CallTyped, Refusal
<1>8. DrawnAreSet(d)' BY <1>1, <1>3, <1>6 DEF DraftTyped, DrawnAreSet, IsSet, Vbf, Abf
<1>9. CreatedAreSet(d)' BY <1>1, <1>5 DEF CreatedAreSet
<1>10. OutputTyped(d)' BY <1>1, <1>3 DEF DraftTyped, OutputTyped, None
<1>11. DraftTyped(d)' BY <1>1, <1>5, <1>7, <1>8, <1>9, <1>10 DEF DraftTyped
<1>12. AskedFor(d)' => AskedFor(d) BY <1>1, <1>4 DEF AskedFor
<1>13. \A e \in Drafts \ {d} : output'[e] = output[e] /\ call'[e] = call[e] /\ stage'[e] = stage[e]
  BY <1>1, <1>3 DEF Domains
<1>14. \A b \in Buffers : IsSet(b) => IsSet(b)' BY <1>1 DEF IsSet
<1>15. /\ buffers' \in [Buffers -> Word] /\ result' \in Results
       /\ stage' \in [Drafts -> {"planned", "drawn", "balanced", "created", "failed"}]
  BY <1>1, <1>3 DEF Globals
<1> QED  BY <1>1, <1>2, <1>5, <1>11, <1>12, <1>13, <1>14, <1>15, DraftStepTyped

LEMMA CallIsTyped ==
  ASSUME WalletTyped, NEW d \in Drafts, NEW op \in {"create", "balance"}, Call(d, op)
  PROVE  WalletTyped'
<1>0. CASE call' = [call EXCEPT ![d] = Refused]
  <2>1. stage[d] # "created" BY ReadyIsSet DEF Call, ReadyStage
  <2> QED  BY <1>0, <2>1, RefusedTyped DEF Call
<1> SUFFICES ASSUME call' # [call EXCEPT ![d] = Refused] PROVE WalletTyped'
  BY <1>0
<1> DEFINE arguments == [b \in Reads(d, op) |-> EncodeBytes(b)]
<1>1. /\ call' = [call EXCEPT ![d] = IF RunsInTurn THEN Answer(d, op, arguments)
                                     ELSE [op |-> op, arguments |-> arguments]]
      /\ spent /\ call[d] = None /\ Ready(d, op) /\ platform # "browser"
      /\ UNCHANGED <<platform, plan, spent, buffers, stage, output, result, writes, disturbed>>
  BY DEF Call
<1>2. plan \in Plans /\ Domains /\ Globals /\ DraftTyped(d) BY TypedIs
<1>3. WalletInvariant' BY CallKeeps DEF WalletTyped
<1>4. /\ \A b \in Reads(d, op) : buffers[b] \in Scalars \cup {Malformed}
      /\ op = "create" => stage[d] = ReadyStage(d)
      /\ op = "balance" => /\ d = Last /\ stage[d] \in {"planned", "drawn"}
                           /\ \A e \in Drafts : e # d => stage[e] = "created"
  BY <1>1, ReadyIsSet
<1>5. /\ DOMAIN arguments = Reads(d, op)
      /\ \A b \in Reads(d, op) : arguments[b] = EncodeBytes(b)
  OBVIOUS
<1>6. ~RunsInTurn => arguments \in [Reads(d, op) -> Argument]
  <2> SUFFICES ASSUME ~RunsInTurn, NEW b \in Reads(d, op) PROVE EncodeBytes(b) \in Argument
    OBVIOUS
  <2> QED  BY <1>4 DEF EncodeBytes, RunsInTurn, Argument
<1> HIDE DEF arguments
<1>7. \A b \in Reads(d, op) : Contents(arguments[b]) \in Scalars \cup {Malformed}
  BY <1>4, <1>5, EncodedContents
<1>8. CASE RunsInTurn
  <2>1. call' = [call EXCEPT ![d] = Answer(d, op, arguments)] BY <1>1, <1>8
  <2> QED  BY <1>1, <1>3, <1>4, <1>5, <1>7, <2>1, AnsweredTyped
<1>9. CASE ~RunsInTurn
  <2>1. call' = [call EXCEPT ![d] = [op |-> op, arguments |-> arguments]] BY <1>1, <1>9
  <2>2. call'[d] = [op |-> op, arguments |-> arguments] BY <1>2, <2>1 DEF Domains
  <2>3. call'[d].op = op /\ call'[d].arguments = arguments BY <2>2
  <2>4. Last' = Last /\ IsFull(d)' = IsFull(d) /\ Reads(d, op)' = Reads(d, op)
    BY <1>1 DEF Last, IsFull, Reads, CreateReads, BalanceReads, LastGbf, EntryVbf, EntryGbf, Zero,
                Vbf, Abf, BlindingFactor, AssetBlindingFactor
  <2>5. CallTyped(d)'
    <3>1. CASE op = "create"
      <4>1. Creating(d)' BY <1>1, <1>4, <1>6, <1>9, <2>3, <2>4, <3>1 DEF Creating, ReadyStage
      <4> QED  BY <4>1 DEF CallTyped
    <3>2. CASE op = "balance"
      <4>1. Balancing(d)' BY <1>1, <1>4, <1>6, <1>9, <2>3, <2>4, <3>2 DEF Balancing
      <4> QED  BY <4>1 DEF CallTyped
    <3> QED  BY <3>1, <3>2
  <2>6. DrawnAreSet(d)' BY <1>1, <1>2, <2>4 DEF DraftTyped, DrawnAreSet, IsSet, Vbf, Abf
  <2>7. CreatedAreSet(d)'
    <3>1. stage[d] # "created" BY <1>4 DEF ReadyStage
    <3> QED  BY <1>1, <3>1 DEF CreatedAreSet
  <2>8. OutputTyped(d)' BY <1>1, <1>2 DEF DraftTyped, OutputTyped, None
  <2>9. DraftTyped(d)' BY <1>1, <2>5, <2>6, <2>7, <2>8 DEF DraftTyped
  <2>10. AskedFor(d)' => AskedFor(d) \/ \A e \in Drafts : e # d => stage[e] = "created"
    BY <1>1, <1>4, <2>3 DEF AskedFor
  <2>11. \A e \in Drafts \ {d} : output'[e] = output[e] /\ call'[e] = call[e] /\ stage'[e] = stage[e]
    BY <1>1, <1>2, <2>1 DEF Domains
  <2>12. \A b \in Buffers : IsSet(b) => IsSet(b)' BY <1>1 DEF IsSet
  <2>13. /\ buffers' \in [Buffers -> Word] /\ result' \in Results
         /\ stage' \in [Drafts -> {"planned", "drawn", "balanced", "created", "failed"}]
    BY <1>1, <1>2 DEF Globals
  <2>14. stage[d] # "created" BY <1>4 DEF ReadyStage
  <2> QED  BY <1>1, <1>3, <2>9, <2>10, <2>11, <2>12, <2>13, <2>14, DraftStepTyped
<1> QED  BY <1>8, <1>9

\* What a call on its way across the bridge carries.
LEMMA OnItsWayIs ==
  ASSUME WalletTyped, NEW d \in Drafts, OnItsWay(d)
  PROVE  /\ call[d].op \in {"create", "balance"}
         /\ call[d].arguments \in [Reads(d, call[d].op) -> Argument]
         /\ \A b \in Reads(d, call[d].op) :
              /\ Contents(call[d].arguments[b]) = call[d].arguments[b].of
              /\ call[d].arguments[b].of \in Scalars \cup {Malformed}
         /\ call[d].op = "create" => stage[d] = ReadyStage(d)
         /\ call[d].op = "balance" => /\ d = Last /\ stage[d] \in {"planned", "drawn"}
                                      /\ \A e \in Drafts : e # d => stage[e] = "created"
         /\ spent /\ platform # "browser"
<1>1. DraftTyped(d) /\ OthersCreated BY DEF WalletTyped
<1>2. call[d] # None /\ call[d].op \in {"create", "balance"} BY DEF OnItsWay
<1>3. Creating(d) \/ Balancing(d)
  BY <1>1, <1>2 DEF DraftTyped, CallTyped, Refusal, Creation, Factoring
<1>4. call[d].arguments \in [Reads(d, call[d].op) -> Argument]
  BY <1>2, <1>3 DEF Creating, Balancing
<1>5. \A a \in Argument : Contents(a) = a.of /\ a.of \in Scalars \cup {Malformed}
  BY DEF Argument, Contents
<1>6. call[d].op = "create" => stage[d] = ReadyStage(d) BY <1>3 DEF Creating, Balancing
<1>7. call[d].op = "balance" => d = Last /\ stage[d] \in {"planned", "drawn"}
  BY <1>3 DEF Creating, Balancing
<1>8. call[d].op = "balance" => \A e \in Drafts : e # d => stage[e] = "created"
  BY <1>1, <1>2, <1>7 DEF OthersCreated, AskedFor
<1> QED  BY <1>1, <1>2, <1>4, <1>5, <1>6, <1>7, <1>8 DEF DraftTyped, Begun

LEMMA RunTyped ==
  ASSUME WalletTyped, NEW d \in Drafts, Run(d)
  PROVE  WalletTyped'
<1> DEFINE op == call[d].op
           arguments == call[d].arguments
<1>1. /\ call' = [call EXCEPT ![d] = Answer(d, op, arguments)] /\ OnItsWay(d)
      /\ UNCHANGED <<platform, plan, spent, buffers, stage, output, result, writes, disturbed>>
  BY DEF Run
<1>2. WalletInvariant' BY RunKeeps DEF WalletTyped
<1>3. /\ op \in {"create", "balance"} /\ arguments \in [Reads(d, op) -> Argument]
      /\ \A b \in Reads(d, op) : Contents(arguments[b]) \in Scalars \cup {Malformed}
      /\ op = "create" => stage[d] = ReadyStage(d)
      /\ op = "balance" => /\ d = Last /\ stage[d] \in {"planned", "drawn"}
                           /\ \A e \in Drafts : e # d => stage[e] = "created"
      /\ spent /\ platform # "browser"
  BY <1>1, OnItsWayIs
<1> HIDE DEF op, arguments
<1>4. DOMAIN arguments = Reads(d, op) BY <1>3
<1> QED  BY <1>1, <1>2, <1>3, <1>4, AnsweredTyped

LEMMA BreakTyped ==
  ASSUME WalletTyped, NEW d \in Drafts, Break(d)
  PROVE  WalletTyped'
<1>1. spent /\ platform # "browser" /\ stage[d] # "created"
  BY OnItsWayIs DEF Break, ReadyStage
<1> QED  BY <1>1, RefusedTyped DEF Break

\* What a creation hands over when it settles.
LEMMA CreationIs ==
  ASSUME WalletTyped, NEW d \in Drafts, Created(d)
  PROVE  /\ call[d].vbf \in Scalars /\ call[d].abf \in Scalars /\ output[d] = None
         /\ stage[d] = ReadyStage(d) /\ spent /\ platform # "browser"
         /\ result' = CreateResult(plan.drafts[d].value, call[d].vbf)
         /\ Opens(d, call[d])
<1>1. call[d] # None /\ call[d].op = "created" /\ result' = call[d].result BY DEF Created
<1>2. DraftTyped(d) /\ DraftInvariant(d) BY TypedIs DEF WalletTyped, WalletInvariant
<1>3. Creation(d)
  BY <1>1, <1>2 DEF DraftTyped, CallTyped, Refusal, Creating, Balancing, Factoring
<1>4. output[d] = None /\ spent /\ platform # "browser"
  BY <1>1, <1>2, <1>3 DEF DraftTyped, OutputTyped, Begun, Creation, ReadyStage
<1>5. Opens(d, call[d]) BY <1>1, <1>2 DEF DraftInvariant
<1> QED  BY <1>1, <1>3, <1>4, <1>5 DEF Creation, ReadyStage

\* What a creation that succeeds leaves behind.
LEMMA CreatedOk ==
  ASSUME WalletTyped, NEW d \in Drafts, Created(d), result' = "ok"
  PROVE  /\ stage' = [stage EXCEPT ![d] = "created"] /\ stage'[d] = "created"
         /\ output'[d] = [generator |-> call[d].generator, commitment |-> call[d].commitment,
                          vbf |-> call[d].vbf, abf |-> call[d].abf]
         /\ output'[d].vbf = call[d].vbf /\ output'[d].abf = call[d].abf
         /\ output'[d] # None /\ output'[d] \in Record
         /\ \A e \in Drafts : e # d => output'[e] = output[e]
         /\ buffers'[BlindingFactor(d)] = call[d].vbf
         /\ IsFull(d) => buffers'[AssetBlindingFactor(d)] = call[d].abf
         /\ \A b \in Buffers : b \notin {BlindingFactor(d), AssetBlindingFactor(d)}
                                 => buffers'[b] = buffers[b]
         /\ ~IsFull(d) => buffers'[AssetBlindingFactor(d)] = buffers[AssetBlindingFactor(d)]
         /\ buffers' \in [Buffers -> Word]
<1> DEFINE made == [generator |-> call[d].generator, commitment |-> call[d].commitment,
                    vbf |-> call[d].vbf, abf |-> call[d].abf]
           content(b) == CASE b = BlindingFactor(d) -> call[d].vbf
                [] b = AssetBlindingFactor(d) /\ IsFull(d) -> call[d].abf
                [] OTHER -> buffers[b]
<1>1. plan \in Plans /\ Domains /\ Globals BY TypedIs
<1>2. /\ stage' = [stage EXCEPT ![d] = "created"]
      /\ output' = [output EXCEPT ![d] = made]
      /\ buffers' = [b \in Buffers |-> content(b)]
  BY DEF Created, ReturnedBlindingFactor, IsFull
<1>3. BlindingFactor(d) \in Buffers /\ AssetBlindingFactor(d) \in Buffers
  BY <1>1, PlanIs, BuffersAre
<1>4. BlindingFactor(d) # AssetBlindingFactor(d) BY DEF BlindingFactor, AssetBlindingFactor
<1>5. output'[d] = made /\ stage'[d] = "created" BY <1>1, <1>2 DEF Domains
<1>6. made.vbf = call[d].vbf /\ made.abf = call[d].abf /\ made # None
  <2>1. made.vbf = call[d].vbf /\ made.abf = call[d].abf OBVIOUS
  <2>2. "vbf" \in DOMAIN made /\ "vbf" \notin DOMAIN None BY DEF None
  <2> HIDE DEF made
  <2>3. made # None BY <2>2
  <2> QED  BY <2>1, <2>3
<1>7. content(BlindingFactor(d)) = call[d].vbf BY <1>4
<1>8. IsFull(d) => content(AssetBlindingFactor(d)) = call[d].abf BY <1>4
<1>9. \A b : b \notin {BlindingFactor(d), AssetBlindingFactor(d)} => content(b) = buffers[b]
  OBVIOUS
<1>10. ~IsFull(d) => content(AssetBlindingFactor(d)) = buffers[AssetBlindingFactor(d)]
  BY <1>4
<1>11. \A b \in Buffers : content(b) \in Word
  <2>1. call[d].vbf \in Word /\ call[d].abf \in Word BY CreationIs DEF Word
  <2>2. \A b : content(b) \in {call[d].vbf, call[d].abf, buffers[b]} OBVIOUS
  <2>3. \A b \in Buffers : buffers[b] \in Word BY <1>1 DEF Globals
  <2> HIDE DEF content
  <2> QED  BY <2>1, <2>2, <2>3
<1>12. made \in Record
  <2>1. /\ call[d].vbf \in Scalars /\ call[d].abf \in Scalars
        /\ Opens(d, call[d])
    BY CreationIs
  <2>2. plan.drafts[d].value \in Amounts /\ plan.drafts[d].token \in Tokens BY <1>1, PlanIs
  <2>3. /\ call[d].generator \in Generator
        /\ call[d].commitment \in Point
    BY <2>1, <2>2, CommitIsPoint DEF Opens, Generator, create_asset_commitment
  <2> QED  BY <2>1, <2>3 DEF Record
<1>13. \A e \in Drafts : e # d => output'[e] = output[e] BY <1>1, <1>2 DEF Domains
<1> HIDE DEF content, made
<1> QED  BY <1>2, <1>3, <1>5, <1>6, <1>7, <1>8, <1>9, <1>10, <1>11, <1>12, <1>13 DEF made

LEMMA CreatedTyped ==
  ASSUME WalletTyped, NEW d \in Drafts, Created(d)
  PROVE  WalletTyped'
<1>1. /\ call[d] # None /\ call' = [call EXCEPT ![d] = None]
      /\ UNCHANGED <<platform, plan, spent, writes, disturbed>>
  BY DEF Created
<1>2. plan \in Plans /\ Domains /\ Globals /\ DraftTyped(d) BY TypedIs
<1>3. /\ call[d].vbf \in Scalars /\ call[d].abf \in Scalars /\ output[d] = None
      /\ stage[d] = ReadyStage(d) /\ stage[d] # "created" /\ spent /\ platform # "browser"
      /\ result' = CreateResult(plan.drafts[d].value, call[d].vbf)
  BY CreationIs DEF ReadyStage
<1>4. WalletInvariant' BY CreatedKeeps DEF WalletTyped
<1>5. call'[d] = None BY <1>1, <1>2 DEF Domains
<1>6. result' \in Results BY <1>3 DEF CreateResult, Results
<1>7. \A e \in Drafts \ {d} : output'[e] = output[e] /\ call'[e] = call[e] /\ stage'[e] = stage[e]
  BY <1>2 DEF Created, Domains
<1>8. IsFull(d)' = IsFull(d) /\ Last' = Last BY <1>1 DEF IsFull, Last
<1>9. CASE result' = "ok"
  <2>1. /\ stage' = [stage EXCEPT ![d] = "created"] /\ stage'[d] = "created"
        /\ output'[d] # None /\ output'[d] \in Record
        /\ buffers'[BlindingFactor(d)] = call[d].vbf
        /\ IsFull(d) => buffers'[AssetBlindingFactor(d)] = call[d].abf
        /\ \A b \in Buffers : b \notin {BlindingFactor(d), AssetBlindingFactor(d)}
                                => buffers'[b] = buffers[b]
        /\ ~IsFull(d) => buffers'[AssetBlindingFactor(d)] = buffers[AssetBlindingFactor(d)]
        /\ buffers' \in [Buffers -> Word]
    BY <1>9, CreatedOk
  <2>2. call[d].vbf # Unset /\ call[d].abf # Unset BY <1>3, WalletAssumption
  <2>3. \A b \in Buffers : IsSet(b) => IsSet(b)' BY <2>1, <2>2 DEF IsSet
  <2>4. stage' \in [Drafts -> {"planned", "drawn", "balanced", "created", "failed"}]
    BY <1>2, <2>1 DEF Globals
  <2>5. CallTyped(d)' BY <1>5 DEF CallTyped, None
  <2>6. DrawnAreSet(d)' BY <2>1 DEF DrawnAreSet
  <2>7. CreatedAreSet(d)'
    BY <1>5, <1>8, <2>1, <2>2 DEF CreatedAreSet, IsSet, BlindingFactor, AssetBlindingFactor, None
  <2>8. OutputTyped(d)' BY <2>1 DEF OutputTyped, None
  <2>9. DraftTyped(d)' BY <1>1, <1>3, <2>5, <2>6, <2>7, <2>8 DEF DraftTyped
  <2>10. d = Last => AskedFor(d) BY <1>3 DEF AskedFor, ReadyStage
  <2> QED  BY <1>1, <1>3, <1>4, <1>6, <1>7, <2>1, <2>3, <2>4, <2>9, <2>10, DraftStepTyped
<1>10. CASE result' # "ok"
  <2>1. stage' = [stage EXCEPT ![d] = "failed"] /\ output' = output /\ buffers' = buffers
    BY <1>10 DEF Created
  <2>2. stage'[d] = "failed" /\ output'[d] = output[d] BY <1>2, <2>1 DEF Domains
  <2>3. DraftTyped(d)' /\ ~AskedFor(d)' BY <1>1, <1>2, <1>3, <1>5, <2>2, FailedTyped DEF DraftTyped
  <2>4. \A b \in Buffers : IsSet(b) => IsSet(b)' BY <2>1 DEF IsSet
  <2>5. /\ buffers' \in [Buffers -> Word]
        /\ stage' \in [Drafts -> {"planned", "drawn", "balanced", "created", "failed"}]
    BY <1>2, <2>1 DEF Globals
  <2> QED  BY <1>1, <1>3, <1>4, <1>6, <1>7, <2>3, <2>4, <2>5, DraftStepTyped
<1> QED  BY <1>9, <1>10

LEMMA BalancedTyped ==
  ASSUME WalletTyped, NEW d \in Drafts, Balanced(d)
  PROVE  /\ WalletTyped'
         /\ d = Last /\ call[d].factor \in Scalars
         /\ call'[d] = None /\ stage'[d] = "balanced" /\ buffers'[Vbf(d)] = call[d].factor
<1>1. /\ call[d] # None /\ call[d].op = "factored" /\ call' = [call EXCEPT ![d] = None]
      /\ stage' = [stage EXCEPT ![d] = "balanced"]
      /\ buffers' = [buffers EXCEPT ![Vbf(d)] = call[d].factor]
      /\ UNCHANGED <<platform, plan, spent, output, result, writes, disturbed>>
  BY DEF Balanced
<1>2. plan \in Plans /\ Domains /\ Globals /\ DraftTyped(d) /\ DraftInvariant(d)
  BY TypedIs DEF WalletTyped, WalletInvariant
<1>3. WalletInvariant' BY BalancedKeeps DEF WalletTyped
<1>4. Factoring(d)
  BY <1>1, <1>2 DEF DraftTyped, CallTyped, Refusal, Creating, Balancing, Creation
<1>5. d = Last /\ call[d].factor \in Scalars /\ stage[d] # "created" BY <1>4 DEF Factoring
<1>6. call'[d] = None /\ stage'[d] = "balanced" BY <1>1, <1>2 DEF Domains
<1>7. Vbf(d) \in Buffers BY <1>2, PlanIs, BuffersAre
<1>8. buffers'[Vbf(d)] = call[d].factor BY <1>1, <1>2, <1>7 DEF Globals
<1>9. call[d].factor # Unset /\ call[d].factor \in Word BY <1>5, WalletAssumption DEF Word
<1>10. buffers' \in [Buffers -> Word] BY <1>1, <1>2, <1>9 DEF Globals
<1>11. \A b \in Buffers : IsSet(b) => IsSet(b)' BY <1>1, <1>2, <1>7, <1>9 DEF IsSet, Globals
<1>12. Last' = Last /\ IsFull(d)' = IsFull(d) BY <1>1 DEF Last, IsFull
<1>13. CallTyped(d)' BY <1>6 DEF CallTyped, None
<1>14. DrawnAreSet(d)'
  <2>1. IsFull(d) => buffers'[Abf(d)] # Unset
    <3>1. IsFull(d) => stage[d] = "drawn" BY <1>1, <1>2 DEF DraftInvariant
    <3>2. IsFull(d) => IsSet(Abf(d)) BY <1>2, <3>1 DEF DraftTyped, DrawnAreSet
    <3>3. Abf(d) \in Buffers BY <1>2, PlanIs, BuffersAre
    <3> QED  BY <1>11, <3>2, <3>3 DEF IsSet, Abf
  <2> QED  BY <1>5, <1>6, <1>8, <1>9, <1>12, <2>1 DEF DrawnAreSet, IsSet, Vbf, Abf
<1>15. CreatedAreSet(d)' BY <1>6 DEF CreatedAreSet
<1>16. OutputTyped(d)' BY <1>1, <1>2, <1>5, <1>6 DEF DraftTyped, OutputTyped, None
<1>17. DraftTyped(d)' BY <1>1, <1>2, <1>6, <1>13, <1>14, <1>15, <1>16 DEF DraftTyped, Begun, None
<1>18. AskedFor(d) BY <1>1 DEF AskedFor
<1>19. \A e \in Drafts \ {d} : output'[e] = output[e] /\ call'[e] = call[e] /\ stage'[e] = stage[e]
  BY <1>1, <1>2 DEF Domains
<1>20. /\ result' \in Results
       /\ stage' \in [Drafts -> {"planned", "drawn", "balanced", "created", "failed"}]
  BY <1>1, <1>2 DEF Globals
<1>21. WalletTyped'
  BY <1>1, <1>3, <1>5, <1>10, <1>11, <1>17, <1>18, <1>19, <1>20, DraftStepTyped
<1> QED  BY <1>5, <1>6, <1>8, <1>21

LEMMA WriteTyped ==
  ASSUME WalletTyped, NEW b \in Buffers, NEW bytes \in Scalars \cup {Malformed}, Write(b, bytes)
  PROVE  WalletTyped'
<1>1. /\ buffers' = [buffers EXCEPT ![b] = bytes] /\ writes < MaxWrites /\ writes' = writes + 1
      /\ disturbed' = (IF b \in ReadLater THEN disturbed \cup {b} ELSE disturbed)
      /\ UNCHANGED <<platform, plan, spent, stage, call, output, result>>
  BY DEF Write
<1>2. plan \in Plans /\ Globals BY TypedIs
<1>3. Drafts' = Drafts /\ Last' = Last /\ Buffers' = Buffers BY <1>1 DEF Drafts, Last, Buffers
<1>4. bytes # Unset /\ bytes \in Word BY WalletAssumption DEF Word
<1>5. \A a \in Buffers : IsSet(a) => IsSet(a)' BY <1>1, <1>2, <1>4 DEF IsSet, Globals
<1>6. Globals'
  <2>1. buffers' \in [Buffers -> Word] BY <1>1, <1>2, <1>4 DEF Globals
  <2>2. writes' \in 0 .. MaxWrites BY <1>1, <1>2, WalletAssumption DEF Globals
  <2>3. disturbed' \subseteq Buffers BY <1>1, <1>2 DEF Globals
  <2> QED  BY <1>1, <1>2, <1>3, <2>1, <2>2, <2>3 DEF Globals
<1>7. InputIsSet' BY <1>1, <1>2, <1>5, InputStaysSet DEF WalletTyped
<1>8. ASSUME NEW e \in Drafts PROVE DraftTyped(e)'
  BY <1>1, <1>2, <1>5, TypedUntouched DEF WalletTyped
<1>9. OthersCreated' BY <1>1, <1>3 DEF WalletTyped, OthersCreated, AskedFor
<1>10. WalletInvariant' BY WriteKeeps DEF WalletTyped
<1> QED  BY <1>3, <1>6, <1>7, <1>8, <1>9, <1>10 DEF WalletTyped

LEMMA VerdictIsResult == Peer!Verdict \in Results
BY DEF Peer!Verdict, Peer!Equation, Results

LEMMA StepTyped == WalletTyped /\ [Next]_vars => WalletTyped'
<1> SUFFICES ASSUME WalletTyped, [Next]_vars PROVE WalletTyped'
  OBVIOUS
<1>1. CASE Spend
  <2>1. spent' = TRUE /\ result' = "ok" /\
        UNCHANGED <<platform, plan, buffers, stage, call, output, writes, disturbed>>
    BY <1>1 DEF Spend
  <2> QED  BY <2>1, OthersTyped DEF Results
<1>2. CASE Submit
  <2>1. spent \in BOOLEAN BY TypedIs DEF Globals
  <2> QED  BY <1>2, <2>1, OthersTyped, VerdictIsResult DEF Submit
<1>3. ASSUME NEW d \in Drafts,
             Draw(d) \/ Unsupported(d) \/ Call(d, "create") \/ Call(d, "balance")
               \/ Created(d) \/ Balanced(d) \/ Rejected(d) \/ Run(d) \/ Break(d)
      PROVE  WalletTyped'
  BY <1>3, DrawTyped, UnsupportedTyped, CallIsTyped, CreatedTyped, BalancedTyped, RejectedTyped,
     RunTyped, BreakTyped
<1>4. ASSUME NEW b \in Buffers, NEW bytes \in Scalars \cup {Malformed}, Write(b, bytes)
      PROVE  WalletTyped'
  BY <1>4, WriteTyped
<1>5. CASE UNCHANGED vars
  <2>1. spent \in BOOLEAN /\ result \in Results BY TypedIs DEF Globals
  <2> QED  BY <1>5, <2>1, OthersTyped DEF vars
<1> QED  BY <1>1, <1>2, <1>3, <1>4, <1>5 DEF Next, WalletNext, NativeNext

LEMMA TypedGivesTypeOK == WalletTyped => TypeOK
<1> SUFFICES ASSUME WalletTyped PROVE TypeOK
  OBVIOUS
<1>1. plan \in Plans /\ Domains /\ Globals BY TypedIs
<1>2. ASSUME NEW d \in Drafts
      PROVE  /\ call[d] # None =>
                  \/ call[d].op \in {"refused", "created", "factored"}
                  \/ call[d].op = "create" /\ stage[d] \in {"drawn", "balanced"}
                  \/ call[d].op = "balance" /\ d = Last /\ stage[d] \in {"planned", "drawn"}
             /\ stage[d] = "created" <=> output[d] # None
             /\ output[d] # None =>
                  output[d] \in [generator : Generator, commitment : Point, vbf : Scalars, abf : Scalars]
  <2>1. CallTyped(d) /\ OutputTyped(d) BY TypedIs DEF DraftTyped
  <2>2. Refusal(d) \/ Creating(d) \/ Balancing(d) \/ Creation(d) \/ Factoring(d) =>
          \/ call[d].op \in {"refused", "created", "factored"}
          \/ call[d].op = "create" /\ stage[d] \in {"drawn", "balanced"}
          \/ call[d].op = "balance" /\ d = Last /\ stage[d] \in {"planned", "drawn"}
    BY DEF Refusal, Creating, Balancing, Creation, Factoring, ReadyStage
  <2>3. call[d] # None => Refusal(d) \/ Creating(d) \/ Balancing(d) \/ Creation(d) \/ Factoring(d)
    BY <2>1 DEF CallTyped
  <2> QED  BY <2>1, <2>2, <2>3 DEF OutputTyped, Record
<1>3. buffers \in [Buffers -> Scalars \cup {Malformed, Unset}] BY <1>1 DEF Globals, Word
<1> QED  BY <1>1, <1>2, <1>3 DEF TypeOK, Globals, Results

\* What a call is about to read has been set, an answer is made of scalars, the
\* factor is asked for when the other drafts are created.
THEOREM WalletTypes == Spec => []WalletTyped
BY InitTyped, StepTyped, PTL DEF Spec

\* The variables of the wallet keep their types.
THEOREM WalletType == Spec => []TypeOK
BY TypedGivesTypeOK, WalletTypes, PTL

----------------------------------------------------------------------------
(* The factor.  As long as nobody writes to what the balance depends on,   *)
(* it makes up what the other entries leave, wherever it is on its way.    *)

InputSecret == Opening(plan.input.value, plan.input.vbf, plan.input.abf)
OthersSecret == ScalarSum([d \in 1 .. Last - 1 |-> CreatedSecret(d)])

RightFactor(gbf) ==
  Minus(Minus(InputSecret, OthersSecret), Times(plan.drafts[Last].value, gbf))

\* The Buffers of the entries hold what the entries were made with.
EntriesInBuffers ==
  /\ Zero \in BalanceReads => buffers[Zero] = ZERO_TWEAK
  /\ plan.input.form # "transparent" => buffers[BlindingFactor(0)] = plan.input.vbf
  /\ plan.input.form = "full" => buffers[AssetBlindingFactor(0)] = plan.input.abf
  /\ \A d \in Drafts : d # Last /\ stage[d] = "created" =>
       /\ buffers[BlindingFactor(d)] = output[d].vbf
       /\ IsFull(d) => buffers[AssetBlindingFactor(d)] = output[d].abf

\* The asset blinding of the last draft, in its Buffer and in a call.
GbfHeld == IF IsFull(Last) THEN buffers[Abf(Last)] ELSE ZERO_TWEAK
GbfPassed(arguments) == IF IsFull(Last) THEN arguments[Abf(Last)].of ELSE ZERO_TWEAK

LastCallIs(op) == call[Last] # None /\ call[Last].op = op

FactorIsRight ==
  /\ ToBalance => EntriesInBuffers
  /\ LastCallIs("balance") => FactorAnswer(call[Last].arguments).factor = RightFactor(GbfHeld)
  /\ LastCallIs("factored") => call[Last].factor = RightFactor(GbfHeld)
  /\ stage[Last] = "balanced" /\ call[Last] = None => buffers[Vbf(Last)] = RightFactor(GbfHeld)
  /\ LastCallIs("create") =>
       call[Last].arguments[Vbf(Last)].of = RightFactor(GbfPassed(call[Last].arguments))
  /\ LastCallIs("created") => call[Last].vbf = RightFactor(call[Last].abf)
  /\ stage[Last] = "created" => output[Last].vbf = RightFactor(output[Last].abf)

FactorHeld == ~Disturbed => FactorIsRight

\* The sum of the commitments is the commitment to the sums, and a verdict is the
\* one on the transaction as it is now.
SumsOpen == OutputSum = [h |-> OutValue, g |-> OutSecret]
VerdictStays == result \in Peer!Verdicts => CreatedDrafts = Drafts /\ result = Peer!Verdict

WalletHeld == WalletTyped /\ FactorHeld /\ SumsOpen /\ VerdictStays

LEMMA SecretsStay ==
  ASSUME plan \in Plans, plan' = plan, \A d \in Drafts : d # Last => output'[d] = output[d]
  PROVE  /\ InputSecret' = InputSecret /\ OthersSecret' = OthersSecret /\ Last' = Last
         /\ plan.drafts[Last].value' = plan.drafts[Last].value
         /\ IsFull(Last)' = IsFull(Last)
<1>1. Last' = Last BY DEF Last
<1>2. \A d \in 1 .. Last - 1 : d \in Drafts /\ d # Last BY PlanIs
<1>3. \A d \in 1 .. Last - 1 : CreatedSecret(d)' = CreatedSecret(d)
  BY <1>2 DEF CreatedSecret, None
<1>4. OthersSecret' = OthersSecret BY <1>1, <1>3 DEF OthersSecret
<1> QED  BY <1>1, <1>4 DEF InputSecret, IsFull

\* Before the factor is asked for there is nothing to say of it.
LEMMA NotAskedFor ==
  ASSUME WalletTyped, ~AskedFor(Last)
  PROVE  /\ ~LastCallIs("balance") /\ ~LastCallIs("factored")
         /\ ~LastCallIs("create") /\ ~LastCallIs("created")
         /\ stage[Last] \notin {"balanced", "created"}
<1>1. Last \in Drafts /\ CallTyped(Last) BY TypedIs, PlanIs DEF DraftTyped
<1>2. stage[Last] \notin {"balanced", "created"} BY DEF AskedFor
<1>3. ~LastCallIs("balance") /\ ~LastCallIs("factored") BY DEF AskedFor, LastCallIs
<1>4. ~LastCallIs("create") /\ ~LastCallIs("created")
  BY <1>1, <1>2 DEF LastCallIs, CallTyped, Refusal, Creating, Balancing, Creation, Factoring,
                    ReadyStage
<1> QED  BY <1>2, <1>3, <1>4

\* A step of another draft.
LEMMA OtherDraftHeld ==
  ASSUME WalletTyped, FactorIsRight, NEW d \in Drafts, d # Last, stage[d] # "created",
         plan' = plan, call'[Last] = call[Last], stage'[Last] = stage[Last],
         \A e \in Drafts \ {d} : output'[e] = output[e] /\ stage'[e] = stage[e],
         \A b \in Buffers :
           b \notin {Vbf(d), Abf(d), BlindingFactor(d), AssetBlindingFactor(d)}
             => buffers'[b] = buffers[b],
         stage'[d] = "created" =>
           /\ buffers'[BlindingFactor(d)] = output'[d].vbf
           /\ IsFull(d) => buffers'[AssetBlindingFactor(d)] = output'[d].abf
  PROVE  FactorIsRight'
<1>1. plan \in Plans /\ Last \in Drafts /\ OthersCreated /\ Last' = Last /\ Drafts' = Drafts
  BY TypedIs, PlanIs DEF WalletTyped, Last, Drafts
<1>2. ~AskedFor(Last) BY <1>1 DEF OthersCreated
<1>3. /\ ~LastCallIs("balance") /\ ~LastCallIs("factored")
      /\ ~LastCallIs("create") /\ ~LastCallIs("created")
      /\ stage[Last] \notin {"balanced", "created"}
  BY <1>2, NotAskedFor
<1>4. /\ ~LastCallIs("balance")' /\ ~LastCallIs("factored")'
      /\ ~LastCallIs("create")' /\ ~LastCallIs("created")'
      /\ stage'[Last'] \notin {"balanced", "created"}
  BY <1>1, <1>3 DEF LastCallIs, None
<1>5. ToBalance' => ToBalance BY <1>1 DEF ToBalance, None
<1>6. EntriesInBuffers => EntriesInBuffers'
  <2> SUFFICES ASSUME EntriesInBuffers PROVE EntriesInBuffers'
    OBVIOUS
  <2>1. d \in 0 .. Last /\ d # 0 /\ 0 \in 0 .. Last BY <1>1, PlanIs
  <2>2. /\ Zero \in Buffers /\ BlindingFactor(0) \in Buffers /\ AssetBlindingFactor(0) \in Buffers
        /\ \A e \in Drafts : BlindingFactor(e) \in Buffers /\ AssetBlindingFactor(e) \in Buffers
    BY <1>1, <2>1, PlanIs, BuffersAre
  <2>3. \A e : e # d =>
          /\ BlindingFactor(e) \notin {Vbf(d), Abf(d), BlindingFactor(d), AssetBlindingFactor(d)}
          /\ AssetBlindingFactor(e) \notin {Vbf(d), Abf(d), BlindingFactor(d), AssetBlindingFactor(d)}
    BY DEF Vbf, Abf, BlindingFactor, AssetBlindingFactor
  <2>4. Zero \notin {Vbf(d), Abf(d), BlindingFactor(d), AssetBlindingFactor(d)}
    BY DEF Vbf, Abf, BlindingFactor, AssetBlindingFactor, Zero
  <2>5. /\ buffers'[Zero] = buffers[Zero]
        /\ buffers'[BlindingFactor(0)] = buffers[BlindingFactor(0)]
        /\ buffers'[AssetBlindingFactor(0)] = buffers[AssetBlindingFactor(0)]
    BY <2>1, <2>2, <2>3, <2>4
  <2>6. \A e \in Drafts \ {d} :
          /\ buffers'[BlindingFactor(e)] = buffers[BlindingFactor(e)]
          /\ buffers'[AssetBlindingFactor(e)] = buffers[AssetBlindingFactor(e)]
    BY <2>2, <2>3
  <2>7. BalanceReads' = BalanceReads
    BY DEF BalanceReads, LastGbf, EntryVbf, EntryGbf, Zero, Abf, BlindingFactor,
           AssetBlindingFactor, Last
  <2>8. ASSUME NEW e \in Drafts, e # Last, stage'[e] = "created"
        PROVE  /\ buffers'[BlindingFactor(e)] = output'[e].vbf
               /\ IsFull(e) => buffers'[AssetBlindingFactor(e)] = output'[e].abf
    <3>1. CASE e = d BY <2>8, <3>1
    <3>2. CASE e # d
      <4>1. stage[e] = "created" /\ output'[e] = output[e] BY <2>8, <3>2
      <4>2. /\ buffers[BlindingFactor(e)] = output[e].vbf
            /\ IsFull(e) => buffers[AssetBlindingFactor(e)] = output[e].abf
        BY <2>8, <4>1 DEF EntriesInBuffers
      <4> QED  BY <2>6, <3>2, <4>1, <4>2
    <3> QED  BY <3>1, <3>2
  <2> QED  BY <1>1, <2>5, <2>7, <2>8
           DEF EntriesInBuffers, Zero, BlindingFactor, AssetBlindingFactor, IsFull
<1> QED  BY <1>4, <1>5, <1>6 DEF FactorIsRight

\* A step of the last draft that leaves no call pending and no factor to hold.
LEMMA NothingPending ==
  ASSUME Last' = Last, ToBalance' => EntriesInBuffers',
         \/ call'[Last] = None /\ stage'[Last] \notin {"balanced", "created"}
         \/ call'[Last] # None /\ call'[Last].op = "refused" /\ stage'[Last] # "created"
  PROVE  FactorIsRight'
<1>1. /\ ~LastCallIs("balance")' /\ ~LastCallIs("factored")'
      /\ ~LastCallIs("create")' /\ ~LastCallIs("created")'
  BY DEF LastCallIs, None
<1>2. stage'[Last'] # "created" OBVIOUS
<1>3. ~(stage'[Last'] = "balanced" /\ call'[Last'] = None') BY DEF None
<1> QED  BY <1>1, <1>2, <1>3 DEF FactorIsRight

LEMMA DrawHeld ==
  ASSUME WalletTyped, FactorIsRight, NEW d \in Drafts, Draw(d)
  PROVE  FactorIsRight'
<1> DEFINE needs == (IF d = Last THEN {} ELSE {Vbf(d)})
                    \cup (IF plan.drafts[d].form = "full" THEN {Abf(d)} ELSE {})
<1>1. PICK drawn \in [needs -> RandomBlindingFactor] :
        buffers' = [b \in Buffers |-> IF b \in needs THEN drawn[b] ELSE buffers[b]]
  BY DEF Draw
<1>2. /\ stage[d] = "planned" /\ call[d] = None /\ stage' = [stage EXCEPT ![d] = "drawn"]
      /\ UNCHANGED <<platform, plan, spent, call, output, result, writes, disturbed>>
  BY DEF Draw
<1>3. \A b \in Buffers : b \notin {Vbf(d), Abf(d)} => buffers'[b] = buffers[b]
  <2>1. needs \subseteq {Vbf(d), Abf(d)} OBVIOUS
  <2> HIDE DEF needs
  <2> QED  BY <1>1, <2>1
<1>4. plan \in Plans /\ Domains /\ Last \in Drafts /\ Last' = Last /\ Drafts' = Drafts
  BY <1>2, TypedIs, PlanIs DEF Last, Drafts
<1>5. stage'[d] = "drawn" BY <1>2, <1>4 DEF Domains
<1>6. \A e \in Drafts \ {d} : output'[e] = output[e] /\ stage'[e] = stage[e]
  BY <1>2, <1>4 DEF Domains
<1>7. CASE d # Last
  <2>1. stage'[Last] = stage[Last] /\ call'[Last] = call[Last] BY <1>2, <1>4, <1>6, <1>7
  <2> QED  BY <1>2, <1>3, <1>5, <1>6, <1>7, <2>1, OtherDraftHeld
<1>8. CASE d = Last
  <2>1. ToBalance BY <1>2, <1>8 DEF ToBalance
  <2>2. EntriesInBuffers BY <2>1 DEF FactorIsRight
  <2>3. /\ Zero \in Buffers /\ BlindingFactor(0) \in Buffers /\ AssetBlindingFactor(0) \in Buffers
        /\ \A e \in Drafts : BlindingFactor(e) \in Buffers /\ AssetBlindingFactor(e) \in Buffers
    <3>1. 0 \in 0 .. Last /\ Drafts \subseteq 0 .. Last BY <1>4, PlanIs
    <3> QED  BY <1>4, <3>1, BuffersAre
  <2>4. \A e : /\ BlindingFactor(e) \notin {Vbf(d), Abf(d)}
               /\ AssetBlindingFactor(e) \notin {Vbf(d), Abf(d)}
    BY DEF Vbf, Abf, BlindingFactor, AssetBlindingFactor
  <2>5. Zero \notin {Vbf(d), Abf(d)} BY DEF Vbf, Abf, Zero
  <2>6. /\ buffers'[Zero] = buffers[Zero]
        /\ buffers'[BlindingFactor(0)] = buffers[BlindingFactor(0)]
        /\ buffers'[AssetBlindingFactor(0)] = buffers[AssetBlindingFactor(0)]
        /\ \A e \in Drafts :
             /\ buffers'[BlindingFactor(e)] = buffers[BlindingFactor(e)]
             /\ buffers'[AssetBlindingFactor(e)] = buffers[AssetBlindingFactor(e)]
    BY <1>3, <2>3, <2>4, <2>5
  <2>7. BalanceReads' = BalanceReads
    BY <1>2 DEF BalanceReads, LastGbf, EntryVbf, EntryGbf, Zero, Abf, BlindingFactor,
                AssetBlindingFactor, Last
  <2>8. EntriesInBuffers'
    BY <1>2, <1>4, <1>6, <1>8, <2>2, <2>6, <2>7
       DEF EntriesInBuffers, Zero, BlindingFactor, AssetBlindingFactor, IsFull
  <2>9. call'[Last] = None BY <1>2, <1>8
  <2> QED  BY <1>4, <1>5, <1>8, <2>8, <2>9, NothingPending
<1> QED  BY <1>7, <1>8

\* A draft that fails.
LEMMA FailHeld ==
  ASSUME WalletTyped, FactorIsRight, NEW d \in Drafts, Fail(d), stage[d] # "created",
         call'[d] = None, \A e \in Drafts \ {d} : call'[e] = call[e]
  PROVE  FactorIsRight'
<1>1. /\ stage' = [stage EXCEPT ![d] = "failed"]
      /\ UNCHANGED <<platform, plan, spent, buffers, output, result, writes, disturbed>>
  BY DEF Fail
<1>2. plan \in Plans /\ Domains /\ Last \in Drafts /\ Last' = Last
  BY <1>1, TypedIs, PlanIs DEF Last
<1>3. stage'[d] = "failed" /\ \A e \in Drafts \ {d} : stage'[e] = stage[e]
  BY <1>1, <1>2 DEF Domains
<1>4. CASE d # Last
  <2>1. stage'[Last] = stage[Last] /\ call'[Last] = call[Last] BY <1>2, <1>3, <1>4
  <2> QED  BY <1>1, <1>3, <1>4, <2>1, OtherDraftHeld
<1>5. CASE d = Last
  <2>1. ~ToBalance' BY <1>2, <1>3, <1>5 DEF ToBalance
  <2> QED  BY <1>2, <1>3, <1>5, <2>1, NothingPending
<1> QED  BY <1>4, <1>5

LEMMA UnsupportedHeld ==
  ASSUME WalletTyped, FactorIsRight, NEW d \in Drafts, Unsupported(d)
  PROVE  FactorIsRight'
<1>1. stage[d] = "planned" /\ platform = "browser" /\ Fail(d) /\ UNCHANGED call
  BY DEF Unsupported
<1>2. call[d] = None BY <1>1, TypedIs DEF DraftTyped
<1>3. call'[d] = None /\ \A e \in Drafts \ {d} : call'[e] = call[e] BY <1>1, <1>2
<1> QED  BY <1>1, <1>3, FailHeld

LEMMA RejectedHeld ==
  ASSUME WalletTyped, FactorIsRight, NEW d \in Drafts, Rejected(d)
  PROVE  FactorIsRight'
<1>1. call[d] # None /\ Fail(d) /\ call' = [call EXCEPT ![d] = None] BY DEF Rejected, Rejects
<1>2. stage[d] # "created" BY <1>1, TypedIs DEF DraftTyped, CreatedAreSet
<1>3. /\ call'[d] = None
      /\ \A e \in Drafts \ {d} : call'[e] = call[e]
  BY <1>1, TypedIs DEF Domains
<1> QED  BY <1>1, <1>2, <1>3, FailHeld

\* The secrets that the arguments of a call give are those of the entries, when
\* the arguments are what the Buffers hold.
LEMMA FactorAnswerRight ==
  ASSUME WalletTyped, EntriesInBuffers, \A d \in Drafts : d # Last => stage[d] = "created",
         NEW arguments, \A b \in BalanceReads : Contents(arguments[b]) = buffers[b]
  PROVE  FactorAnswer(arguments).factor = RightFactor(GbfHeld)
<1>1. plan \in Plans /\ Last \in Drafts /\ 0 \in Others BY TypedIs, PlanIs DEF Others
<1>2. \A e \in Others : EntryVbf(e) \in BalanceReads /\ EntryGbf(e) \in BalanceReads
  BY <1>1, ReadsAre
<1>3. LastGbf \in BalanceReads BY <1>1, ReadsAre
<1>4. Contents(arguments[LastGbf]) = GbfHeld
  BY <1>3 DEF LastGbf, GbfHeld, IsFull, EntriesInBuffers
<1>5. EntrySecret(0, arguments) = InputSecret
  <2>1. Contents(arguments[EntryVbf(0)]) = buffers[EntryVbf(0)]
        /\ Contents(arguments[EntryGbf(0)]) = buffers[EntryGbf(0)]
        /\ EntryVbf(0) \in BalanceReads /\ EntryGbf(0) \in BalanceReads
    BY <1>1, <1>2
  <2>2. /\ plan.input.form = "transparent" => plan.input.vbf = ZERO_TWEAK
        /\ plan.input.form # "full" => plan.input.abf = ZERO_TWEAK
    BY <1>1, PlanAssumption
  <2>3. buffers[EntryVbf(0)] = plan.input.vbf
    BY <2>1, <2>2 DEF EntryVbf, EntriesInBuffers
  <2>4. buffers[EntryGbf(0)] = plan.input.abf
    BY <2>1, <2>2 DEF EntryGbf, EntriesInBuffers
  <2> QED  BY <2>1, <2>3, <2>4 DEF EntrySecret, InputSecret, EntryValue
<1>6. ASSUME NEW e \in 1 .. Last - 1 PROVE EntrySecret(e, arguments) = CreatedSecret(e)
  <2>1. e \in Drafts /\ e # Last /\ e # 0 /\ e \in Others BY <1>1, PlanIs DEF Others
  <2>2. stage[e] = "created" /\ output[e] # None /\ Opens(e, output[e])
    BY <2>1, TypedIs DEF DraftTyped, OutputTyped, WalletTyped, WalletInvariant, DraftInvariant
  <2>3. Contents(arguments[EntryVbf(e)]) = buffers[EntryVbf(e)]
        /\ Contents(arguments[EntryGbf(e)]) = buffers[EntryGbf(e)]
        /\ EntryVbf(e) \in BalanceReads /\ EntryGbf(e) \in BalanceReads
    BY <2>1, <1>2
  <2>4. buffers[EntryVbf(e)] = output[e].vbf
    BY <2>1, <2>2 DEF EntryVbf, EntriesInBuffers
  <2>5. buffers[EntryGbf(e)] = output[e].abf
    BY <2>1, <2>2, <2>3 DEF EntryGbf, EntriesInBuffers, IsFull, Opens
  <2> QED  BY <2>1, <2>2, <2>3, <2>4, <2>5 DEF EntrySecret, CreatedSecret, EntryValue
<1>7. [d \in 1 .. Last - 1 |-> EntrySecret(d, arguments)] = [d \in 1 .. Last - 1 |-> CreatedSecret(d)]
  BY <1>6
<1> QED  BY <1>4, <1>5, <1>7 DEF FactorAnswer, RightFactor, OthersSecret

\* A step that only changes what becomes of the call of the last draft.
LEMMA LastCallHeld ==
  ASSUME plan \in Plans, UNCHANGED <<plan, buffers, stage, output>>, NEW called,
         call'[Last] = called, called # None, stage[Last] # "created",
         \/ called.op = "refused"
         \/ called.op = "balance" /\ FactorAnswer(called.arguments).factor = RightFactor(GbfHeld)
         \/ called.op = "factored" /\ called.factor = RightFactor(GbfHeld)
         \/ /\ called.op = "create"
            /\ called.arguments[Vbf(Last)].of = RightFactor(GbfPassed(called.arguments))
         \/ called.op = "created" /\ called.vbf = RightFactor(called.abf)
  PROVE  FactorIsRight'
<1>1. /\ InputSecret' = InputSecret /\ OthersSecret' = OthersSecret /\ Last' = Last
      /\ plan.drafts[Last].value' = plan.drafts[Last].value
      /\ IsFull(Last)' = IsFull(Last)
  BY SecretsStay
<1>2. /\ call'[Last'] = called /\ call'[Last'] # None /\ stage'[Last'] # "created"
      /\ None' = None
  BY <1>1 DEF None
<1>3. GbfHeld' = GbfHeld BY <1>1 DEF GbfHeld, Abf
<1>4. FactorAnswer(call[Last].arguments)' = FactorAnswer(called.arguments)
  <2>1. \A e : EntrySecret(e, call[Last].arguments)' = EntrySecret(e, called.arguments)
    <3>1. \A b : Contents(call[Last].arguments[b])' = Contents(called.arguments[b])
      BY <1>2 DEF Contents
    <3>2. \A e : /\ EntryVbf(e)' = EntryVbf(e) /\ EntryGbf(e)' = EntryGbf(e)
                /\ EntryValue(e)' = EntryValue(e)
      BY DEF EntryVbf, EntryGbf, Zero, BlindingFactor, AssetBlindingFactor, EntryValue
    <3> QED  BY <1>1, <1>2, <3>1, <3>2 DEF EntrySecret, Contents
  <2>2. LastGbf' = LastGbf BY <1>1 DEF LastGbf, Zero, Abf, IsFull
  <2>3. [d \in 1 .. Last - 1 |-> EntrySecret(d, call[Last].arguments)]'
          = [d \in 1 .. Last - 1 |-> EntrySecret(d, called.arguments)]
    BY <1>1, <2>1
  <2>4. Contents(call[Last].arguments[LastGbf])' = Contents(called.arguments[LastGbf])
    BY <1>2, <2>2 DEF Contents
  <2> QED  BY <1>1, <2>1, <2>3, <2>4 DEF FactorAnswer
<1>5. RightFactor(GbfHeld)' = RightFactor(GbfHeld) BY <1>1, <1>3 DEF RightFactor
<1>6. RightFactor(GbfPassed(call[Last].arguments))' = RightFactor(GbfPassed(called.arguments))
  BY <1>1, <1>2 DEF RightFactor, GbfPassed, Abf
<1>7. RightFactor(call[Last].abf)' = RightFactor(called.abf) BY <1>1, <1>2 DEF RightFactor
<1>8. Vbf(Last)' = Vbf(Last) BY <1>1 DEF Vbf
<1>9. ~ToBalance' BY <1>2 DEF ToBalance, None
<1>10. LastCallIs("balance")' => called.op = "balance" BY <1>2 DEF LastCallIs
<1>11. LastCallIs("factored")' => called.op = "factored" BY <1>2 DEF LastCallIs
<1>12. LastCallIs("create")' => called.op = "create" BY <1>2 DEF LastCallIs
<1>13. LastCallIs("created")' => called.op = "created" BY <1>2 DEF LastCallIs
<1>14. /\ LastCallIs("balance")' => FactorAnswer(call[Last].arguments)'.factor = RightFactor(GbfHeld)'
       /\ LastCallIs("factored")' => call'[Last'].factor = RightFactor(GbfHeld)'
       /\ LastCallIs("create")' =>
            call'[Last'].arguments[Vbf(Last)'].of = RightFactor(GbfPassed(call[Last].arguments))'
       /\ LastCallIs("created")' => call'[Last'].vbf = RightFactor(call[Last].abf)'
  BY <1>2, <1>4, <1>5, <1>6, <1>7, <1>8, <1>10, <1>11, <1>12, <1>13
<1>15. ~(stage'[Last'] = "balanced" /\ call'[Last'] = None') BY <1>2
<1> QED  BY <1>2, <1>9, <1>14, <1>15 DEF FactorIsRight

\* What the call of the last draft carries or answers.
LEMMA LastAnswerHeld ==
  ASSUME WalletTyped, NEW op \in {"create", "balance"}, NEW arguments,
         DOMAIN arguments = Reads(Last, op),
         \A b \in Reads(Last, op) : Contents(arguments[b]) \in Scalars \cup {Malformed},
         op = "balance" => FactorAnswer(arguments).factor = RightFactor(GbfHeld),
         op = "create" => Contents(arguments[Vbf(Last)]) = RightFactor(AbfOf(Last, arguments)),
         stage[Last] # "created", UNCHANGED <<plan, buffers, stage, output>>,
         call'[Last] = Answer(Last, op, arguments)
  PROVE  FactorIsRight'
<1> DEFINE answer == Answer(Last, op, arguments)
<1>1. plan \in Plans /\ Last \in Drafts BY TypedIs, PlanIs
<1>2. \/ answer.op = "refused"
      \/ /\ op = "create" /\ answer.op = "created"
         /\ answer.vbf = Contents(arguments[Vbf(Last)]) /\ answer.abf = AbfOf(Last, arguments)
      \/ op = "balance" /\ answer.op = "factored" /\ answer = FactorAnswer(arguments)
  BY <1>1, AnswerTyped
<1>3. answer # None BY AnswerOp
<1> HIDE DEF answer
<1>4. \/ answer.op = "refused"
      \/ answer.op = "created" /\ answer.vbf = RightFactor(answer.abf)
      \/ answer.op = "factored" /\ answer.factor = RightFactor(GbfHeld)
  BY <1>2
<1>5. call'[Last] = answer BY DEF answer
<1> QED  BY <1>1, <1>3, <1>4, <1>5, LastCallHeld

LEMMA RefusedHeld ==
  ASSUME WalletTyped, FactorIsRight, NEW d \in Drafts, stage[d] # "created",
         call' = [call EXCEPT ![d] = Refused],
         UNCHANGED <<platform, plan, spent, buffers, stage, output, result, writes, disturbed>>
  PROVE  FactorIsRight'
<1>1. /\ call' = [call EXCEPT ![d] = Refused]
      /\ UNCHANGED <<platform, plan, spent, buffers, stage, output, result, writes, disturbed>>
  OBVIOUS
<1>2. plan \in Plans /\ Domains /\ Last \in Drafts BY TypedIs, PlanIs
<1>3. stage[d] # "created" OBVIOUS
<1>4. CASE d # Last
  <2>1. call'[Last] = call[Last] BY <1>1, <1>2, <1>4 DEF Domains
  <2> QED  BY <1>1, <1>3, <1>4, <2>1, OtherDraftHeld
<1>5. CASE d = Last
  <2>1. call'[Last] = Refused BY <1>1, <1>2, <1>5 DEF Domains
  <2>2. Refused # None /\ Refused.op = "refused"
    <3>1. "op" \in DOMAIN Refused /\ "op" \notin DOMAIN None BY DEF Refused, None
    <3>2. Refused.op = "refused" BY DEF Refused
    <3> QED  BY <3>1, <3>2
  <2> QED  BY <1>1, <1>2, <1>3, <1>5, <2>1, <2>2, LastCallHeld
<1> QED  BY <1>4, <1>5

LEMMA CallHeld ==
  ASSUME WalletTyped, FactorIsRight, NEW d \in Drafts, NEW op \in {"create", "balance"}, Call(d, op)
  PROVE  FactorIsRight'
<1>0. CASE call' = [call EXCEPT ![d] = Refused]
  <2>1. stage[d] # "created" BY ReadyIsSet DEF Call, ReadyStage
  <2> QED  BY <1>0, <2>1, RefusedHeld DEF Call
<1> SUFFICES ASSUME call' # [call EXCEPT ![d] = Refused] PROVE FactorIsRight'
  BY <1>0
<1> DEFINE arguments == [b \in Reads(d, op) |-> EncodeBytes(b)]
<1>1. /\ call' = [call EXCEPT ![d] = IF RunsInTurn THEN Answer(d, op, arguments)
                                     ELSE [op |-> op, arguments |-> arguments]]
      /\ call[d] = None /\ Ready(d, op)
      /\ UNCHANGED <<platform, plan, spent, buffers, stage, output, result, writes, disturbed>>
  BY DEF Call
<1>2. plan \in Plans /\ Domains /\ Last \in Drafts BY TypedIs, PlanIs
<1>3. /\ \A b \in Reads(d, op) : buffers[b] \in Scalars \cup {Malformed}
      /\ op = "create" => stage[d] = ReadyStage(d)
      /\ op = "balance" => /\ d = Last /\ stage[d] \in {"planned", "drawn"}
                           /\ \A e \in Drafts : e # d => stage[e] = "created"
  BY <1>1, ReadyIsSet
<1>4. stage[d] # "created" BY <1>3 DEF ReadyStage
<1>5. CASE d # Last
  <2>1. call'[Last] = call[Last] BY <1>1, <1>2, <1>5 DEF Domains
  <2> QED  BY <1>1, <1>4, <1>5, <2>1, OtherDraftHeld
<1>6. CASE d = Last
  <2>1. /\ DOMAIN arguments = Reads(Last, op)
        /\ \A b \in Reads(Last, op) : arguments[b] = EncodeBytes(b)
    BY <1>6
  <2> HIDE DEF arguments
  <2>2. \A b \in Reads(Last, op) : Contents(arguments[b]) = buffers[b]
    BY <2>1, EncodedContents
  <2>3. \A b \in Reads(Last, op) : Contents(arguments[b]) \in Scalars \cup {Malformed}
    BY <1>3, <1>6, <2>2
  <2>4. op = "balance" => FactorAnswer(arguments).factor = RightFactor(GbfHeld)
    <3> SUFFICES ASSUME op = "balance"
                 PROVE  FactorAnswer(arguments).factor = RightFactor(GbfHeld)
      OBVIOUS
    <3>1. ToBalance BY <1>1, <1>3, <1>6 DEF ToBalance
    <3>2. EntriesInBuffers BY <3>1 DEF FactorIsRight
    <3>3. \A b \in BalanceReads : Contents(arguments[b]) = buffers[b] BY <2>2 DEF Reads
    <3>4. \A e \in Drafts : e # Last => stage[e] = "created" BY <1>3, <1>6
    <3> QED  BY <3>2, <3>3, <3>4, FactorAnswerRight
  <2>5. op = "create" =>
          /\ Vbf(Last) \in Reads(Last, op) /\ (IsFull(Last) => Abf(Last) \in Reads(Last, op))
          /\ buffers[Vbf(Last)] = RightFactor(GbfHeld)
    BY <1>1, <1>2, <1>3, <1>6, ReadsAre DEF Reads, ReadyStage, FactorIsRight
  <2>6. op = "create" => AbfOf(Last, arguments) = GbfHeld
    BY <2>2, <2>5 DEF AbfOf, GbfHeld, IsFull
  <2>7. CASE RunsInTurn
    <3>1. call'[Last] = Answer(Last, op, arguments) BY <1>1, <1>2, <1>6, <2>7 DEF Domains
    <3>2. op = "create" => Contents(arguments[Vbf(Last)]) = RightFactor(AbfOf(Last, arguments))
      BY <2>2, <2>5, <2>6
    <3> QED  BY <1>1, <1>4, <1>6, <2>1, <2>3, <2>4, <3>1, <3>2, LastAnswerHeld
  <2>8. CASE ~RunsInTurn
    <3> DEFINE called == [op |-> op, arguments |-> arguments]
    <3>1. call'[Last] = called BY <1>1, <1>2, <1>6, <2>8 DEF Domains
    <3>2. called.op = op /\ called.arguments = arguments OBVIOUS
    <3>3. called # None
      <4>1. "op" \in DOMAIN called /\ "op" \notin DOMAIN None BY DEF None
      <4> HIDE DEF called
      <4> QED  BY <4>1
    <3> HIDE DEF called
    <3>4. \A b \in Reads(Last, op) : arguments[b].of = buffers[b]
      BY <2>1, <2>8 DEF EncodeBytes, RunsInTurn
    <3>5. op = "create" => /\ arguments[Vbf(Last)].of = RightFactor(GbfHeld)
                           /\ GbfPassed(arguments) = GbfHeld
      BY <2>5, <3>4 DEF GbfPassed, GbfHeld
    <3>6. \/ called.op = "balance" /\ FactorAnswer(called.arguments).factor = RightFactor(GbfHeld)
          \/ /\ called.op = "create"
             /\ called.arguments[Vbf(Last)].of = RightFactor(GbfPassed(called.arguments))
      BY <2>4, <3>2, <3>5
    <3> QED  BY <1>1, <1>2, <1>4, <1>6, <3>1, <3>3, <3>6, LastCallHeld
  <2> QED  BY <2>7, <2>8
<1> QED  BY <1>5, <1>6

LEMMA RunHeld ==
  ASSUME WalletTyped, FactorIsRight, NEW d \in Drafts, Run(d)
  PROVE  FactorIsRight'
<1> DEFINE op == call[d].op
           arguments == call[d].arguments
<1>1. /\ call' = [call EXCEPT ![d] = Answer(d, op, arguments)] /\ OnItsWay(d)
      /\ UNCHANGED <<platform, plan, spent, buffers, stage, output, result, writes, disturbed>>
  BY DEF Run
<1>2. plan \in Plans /\ Domains /\ Last \in Drafts BY TypedIs, PlanIs
<1>3. /\ op \in {"create", "balance"} /\ arguments \in [Reads(d, op) -> Argument]
      /\ \A b \in Reads(d, op) : /\ Contents(arguments[b]) = arguments[b].of
                                 /\ arguments[b].of \in Scalars \cup {Malformed}
      /\ op = "create" => stage[d] = ReadyStage(d)
      /\ op = "balance" => /\ d = Last /\ stage[d] \in {"planned", "drawn"}
  BY <1>1, OnItsWayIs
<1>4. stage[d] # "created" BY <1>3 DEF ReadyStage
<1>5. CASE d # Last
  <2>1. call'[Last] = call[Last] BY <1>1, <1>2, <1>5 DEF Domains
  <2> QED  BY <1>1, <1>4, <1>5, <2>1, OtherDraftHeld
<1>6. CASE d = Last
  <2>1. call[Last] # None /\ call[Last].op = op /\ call[Last].arguments = arguments
    BY <1>1, <1>6 DEF OnItsWay
  <2>2. call'[Last] = Answer(Last, op, arguments) BY <1>1, <1>2, <1>6 DEF Domains
  <2> HIDE DEF op, arguments
  <2>3. op = "balance" => FactorAnswer(arguments).factor = RightFactor(GbfHeld)
    BY <2>1 DEF FactorIsRight, LastCallIs
  <2>4. op = "create" => arguments[Vbf(Last)].of = RightFactor(GbfPassed(arguments))
    BY <2>1 DEF FactorIsRight, LastCallIs
  <2>5. op = "create" => /\ Vbf(Last) \in Reads(Last, op)
                         /\ IsFull(Last) => Abf(Last) \in Reads(Last, op)
    BY <1>2, ReadsAre DEF Reads
  <2>6. op = "create" => /\ Contents(arguments[Vbf(Last)]) = arguments[Vbf(Last)].of
                         /\ AbfOf(Last, arguments) = GbfPassed(arguments)
    BY <1>3, <1>6, <2>5 DEF AbfOf, GbfPassed, IsFull
  <2>7. DOMAIN arguments = Reads(Last, op) BY <1>3, <1>6
  <2>8. op = "create" => Contents(arguments[Vbf(Last)]) = RightFactor(AbfOf(Last, arguments))
    BY <2>4, <2>6
  <2>9. \A b \in Reads(Last, op) : Contents(arguments[b]) \in Scalars \cup {Malformed}
    BY <1>3, <1>6
  <2> QED  BY <1>1, <1>3, <1>4, <1>6, <2>2, <2>3, <2>7, <2>8, <2>9, LastAnswerHeld
<1> QED  BY <1>5, <1>6

LEMMA BreakHeld ==
  ASSUME WalletTyped, FactorIsRight, NEW d \in Drafts, Break(d)
  PROVE  FactorIsRight'
<1>1. stage[d] # "created" BY OnItsWayIs DEF Break, ReadyStage
<1> QED  BY <1>1, RefusedHeld DEF Break

\* The last draft is created with the factor, or fails.
LEMMA CreatedHeld ==
  ASSUME WalletTyped, FactorIsRight, NEW d \in Drafts, Created(d)
  PROVE  FactorIsRight'
<1>1. /\ call[d] # None /\ call[d].op = "created" /\ call' = [call EXCEPT ![d] = None]
      /\ UNCHANGED <<platform, plan, spent, writes, disturbed>>
  BY DEF Created
<1>2. plan \in Plans /\ Domains /\ Last \in Drafts /\ Last' = Last
  BY <1>1, TypedIs, PlanIs DEF Last
<1>3. stage[d] # "created" /\ (d = Last => stage[d] = "balanced") BY CreationIs DEF ReadyStage
<1>4. call'[d] = None BY <1>1, <1>2 DEF Domains
<1>5. \A e \in Drafts \ {d} : output'[e] = output[e] /\ call'[e] = call[e] /\ stage'[e] = stage[e]
  BY <1>2 DEF Created, Domains
<1>6. CASE result' # "ok"
  <2>1. stage' = [stage EXCEPT ![d] = "failed"] /\ output' = output /\ buffers' = buffers
    BY <1>6 DEF Created
  <2>3. stage'[d] = "failed" BY <1>2, <2>1 DEF Domains
  <2>4. CASE d # Last
    <3>1. call'[Last] = call[Last] /\ stage'[Last] = stage[Last] BY <1>2, <1>5, <2>4
    <3> QED  BY <1>1, <1>3, <1>5, <2>1, <2>3, <2>4, <3>1, OtherDraftHeld
  <2>5. CASE d = Last
    <3>1. ~ToBalance' BY <1>2, <2>3, <2>5 DEF ToBalance
    <3> QED  BY <1>2, <1>4, <2>3, <2>5, <3>1, NothingPending
  <2> QED  BY <2>4, <2>5
<1>7. CASE result' = "ok"
  <2>1. /\ stage'[d] = "created"
        /\ output'[d].vbf = call[d].vbf /\ output'[d].abf = call[d].abf
        /\ buffers'[BlindingFactor(d)] = call[d].vbf
        /\ IsFull(d) => buffers'[AssetBlindingFactor(d)] = call[d].abf
        /\ \A b \in Buffers : b \notin {BlindingFactor(d), AssetBlindingFactor(d)}
                                => buffers'[b] = buffers[b]
    BY <1>7, CreatedOk
  <2>2. CASE d # Last
    <3>1. call'[Last] = call[Last] /\ stage'[Last] = stage[Last] BY <1>2, <1>5, <2>2
    <3> QED  BY <1>1, <1>3, <1>5, <2>1, <2>2, <3>1, OtherDraftHeld
  <2>3. CASE d = Last
    <3>1. /\ InputSecret' = InputSecret /\ OthersSecret' = OthersSecret
          /\ plan.drafts[Last].value' = plan.drafts[Last].value
      BY <1>1, <1>2, <1>5, <2>3, SecretsStay
    <3>2. call[Last].vbf = RightFactor(call[Last].abf)
      BY <1>1, <2>3 DEF FactorIsRight, LastCallIs
    <3>3. RightFactor(output[Last].abf)' = RightFactor(call[Last].abf)
      BY <1>2, <2>1, <2>3, <3>1 DEF RightFactor
    <3>4. output'[Last'].vbf = RightFactor(output[Last].abf)' BY <1>2, <2>1, <2>3, <3>2, <3>3
    <3>5. call'[Last'] = None' /\ stage'[Last'] = "created" BY <1>2, <1>4, <2>1, <2>3 DEF None
    <3>6. ~ToBalance' BY <3>5 DEF ToBalance
    <3>7. /\ ~LastCallIs("balance")' /\ ~LastCallIs("factored")'
          /\ ~LastCallIs("create")' /\ ~LastCallIs("created")'
      BY <3>5 DEF LastCallIs
    <3> QED  BY <3>4, <3>5, <3>6, <3>7 DEF FactorIsRight
  <2> QED  BY <2>2, <2>3
<1> QED  BY <1>6, <1>7

LEMMA BalancedHeld ==
  ASSUME WalletTyped, FactorIsRight, NEW d \in Drafts, Balanced(d)
  PROVE  FactorIsRight'
<1>1. /\ call[d] # None /\ call[d].op = "factored"
      /\ buffers' = [buffers EXCEPT ![Vbf(d)] = call[d].factor]
      /\ UNCHANGED <<platform, plan, spent, output, result, writes, disturbed>>
  BY DEF Balanced
<1>2. /\ d = Last /\ call'[Last] = None /\ stage'[Last] = "balanced"
      /\ buffers'[Vbf(Last)] = call[Last].factor
  BY BalancedTyped
<1>3. plan \in Plans /\ Globals BY TypedIs
<1>4. /\ InputSecret' = InputSecret /\ OthersSecret' = OthersSecret /\ Last' = Last
      /\ plan.drafts[Last].value' = plan.drafts[Last].value
      /\ IsFull(Last)' = IsFull(Last)
  BY <1>1, <1>3, SecretsStay
<1>5. call[Last].factor = RightFactor(GbfHeld) BY <1>1, <1>2 DEF FactorIsRight, LastCallIs
<1>6. buffers'[Abf(Last)] = buffers[Abf(Last)]
  <2>1. Abf(Last) # Vbf(Last) BY DEF Abf, Vbf
  <2>2. Abf(Last) \in Buffers BY <1>3, PlanIs, BuffersAre
  <2> QED  BY <1>1, <1>2, <1>3, <2>1, <2>2 DEF Globals
<1>7. GbfHeld' = GbfHeld BY <1>4, <1>6 DEF GbfHeld, Abf
<1>8. RightFactor(GbfHeld)' = RightFactor(GbfHeld) BY <1>4, <1>7 DEF RightFactor
<1>9. Vbf(Last)' = Vbf(Last) BY <1>4 DEF Vbf
<1>10. buffers'[Vbf(Last)'] = RightFactor(GbfHeld)' BY <1>2, <1>5, <1>8, <1>9
<1>11. call'[Last'] = None' /\ stage'[Last'] = "balanced" BY <1>2, <1>4 DEF None
<1>12. ~ToBalance' BY <1>11 DEF ToBalance
<1>13. /\ ~LastCallIs("balance")' /\ ~LastCallIs("factored")'
       /\ ~LastCallIs("create")' /\ ~LastCallIs("created")'
  BY <1>11 DEF LastCallIs
<1> QED  BY <1>10, <1>11, <1>12, <1>13 DEF FactorIsRight

\* A write to a Buffer that the balance still depends on is noticed.
LEMMA WriteHeld ==
  ASSUME WalletTyped, FactorIsRight, NEW b \in Buffers, NEW bytes, Write(b, bytes), ~Disturbed'
  PROVE  FactorIsRight'
<1>1. /\ buffers' = [buffers EXCEPT ![b] = bytes]
      /\ disturbed' = (IF b \in ReadLater THEN disturbed \cup {b} ELSE disturbed)
      /\ UNCHANGED <<platform, plan, spent, stage, call, output, result>>
  BY DEF Write
<1>2. plan \in Plans /\ Domains /\ Globals /\ DraftTyped(Last) /\ Last \in Drafts /\ 0 \in Others
  BY TypedIs, PlanIs DEF Others
<1>3. /\ InputSecret' = InputSecret /\ OthersSecret' = OthersSecret /\ Last' = Last
      /\ plan.drafts[Last].value' = plan.drafts[Last].value
      /\ IsFull(Last)' = IsFull(Last)
  BY <1>1, <1>2, SecretsStay
<1>4. BalanceReads' = BalanceReads /\ CreateReads(Last)' = CreateReads(Last)
  BY <1>1 DEF BalanceReads, LastGbf, EntryVbf, EntryGbf, Zero, Abf, Vbf, BlindingFactor,
              AssetBlindingFactor, Last, CreateReads
<1>5. /\ ToBalance => b \notin BalanceReads
      /\ Last \in ToCreate => b \notin CreateReads(Last)
  <2>1. ToBalance => BalanceReads \subseteq ReadLater
    <3> SUFFICES ASSUME ToBalance, NEW a \in BalanceReads PROVE a \in ReadLater
      OBVIOUS
    <3> QED  BY DEF ReadLater
  <2>2. Last \in ToCreate => CreateReads(Last) \subseteq ReadLater
    <3> SUFFICES ASSUME Last \in ToCreate, NEW a \in CreateReads(Last) PROVE a \in ReadLater
      OBVIOUS
    <3> QED  BY DEF ReadLater
  <2>3. b \in ReadLater => b \notin BalanceReads \cup CreateReads(Last)
    BY <1>1, <1>4 DEF Disturbed
  <2> QED  BY <2>1, <2>2, <2>3
<1>6. /\ ToBalance' = ToBalance /\ \A op : LastCallIs(op)' = LastCallIs(op)
      /\ None' = None
  BY <1>1, <1>3 DEF ToBalance, LastCallIs, None
<1>7. \A a \in Buffers : a # b => buffers'[a] = buffers[a] BY <1>1, <1>2 DEF Globals
<1>8. ToBalance => EntriesInBuffers'
  <2> SUFFICES ASSUME ToBalance PROVE EntriesInBuffers'
    OBVIOUS
  <2>1. EntriesInBuffers BY DEF FactorIsRight
  <2>2. \A a \in BalanceReads : a \in Buffers /\ buffers'[a] = buffers[a]
    BY <1>2, <1>5, <1>7, ReadsAre
  <2>3. \A e \in Others : EntryVbf(e) \in BalanceReads /\ EntryGbf(e) \in BalanceReads
    BY <1>2, ReadsAre
  <2>4. /\ plan.input.form # "transparent" => EntryVbf(0) = BlindingFactor(0)
        /\ plan.input.form = "full" => EntryGbf(0) = AssetBlindingFactor(0)
    BY DEF EntryVbf, EntryGbf
  <2>5. \A e \in Drafts : e # Last =>
          /\ e \in Others /\ EntryVbf(e) = BlindingFactor(e)
          /\ IsFull(e) => EntryGbf(e) = AssetBlindingFactor(e)
    BY <1>2, PlanIs DEF EntryVbf, EntryGbf, IsFull, Others
  <2>6. Drafts' = Drafts BY <1>1 DEF Drafts
  <2>7. /\ Zero \in BalanceReads => buffers'[Zero] = ZERO_TWEAK
        /\ plan.input.form # "transparent" => buffers'[BlindingFactor(0)] = plan.input.vbf
        /\ plan.input.form = "full" => buffers'[AssetBlindingFactor(0)] = plan.input.abf
    BY <1>2, <2>1, <2>2, <2>3, <2>4 DEF EntriesInBuffers
  <2>8. \A e \in Drafts : e # Last /\ stage[e] = "created" =>
          /\ buffers'[BlindingFactor(e)] = output[e].vbf
          /\ IsFull(e) => buffers'[AssetBlindingFactor(e)] = output[e].abf
    BY <2>1, <2>2, <2>3, <2>5 DEF EntriesInBuffers
  <2> QED  BY <1>1, <1>3, <1>4, <2>6, <2>7, <2>8
           DEF EntriesInBuffers, Zero, BlindingFactor, AssetBlindingFactor, IsFull
<1>9. ASSUME Last \in ToCreate
      PROVE  GbfHeld' = GbfHeld /\ buffers'[Vbf(Last)] = buffers[Vbf(Last)]
  <2>1. /\ Vbf(Last) \in CreateReads(Last) /\ CreateReads(Last) \subseteq Buffers
        /\ IsFull(Last) => Abf(Last) \in CreateReads(Last)
    BY <1>2, ReadsAre
  <2>2. \A a \in CreateReads(Last) : buffers'[a] = buffers[a] BY <1>5, <1>7, <1>9, <2>1
  <2> QED  BY <1>3, <2>1, <2>2 DEF GbfHeld, Abf
<1>10. LastCallIs("balance") \/ LastCallIs("factored") => Last \in ToCreate
  <2>1. CallTyped(Last) BY <1>2 DEF DraftTyped
  <2>2. LastCallIs("balance") \/ LastCallIs("factored") => stage[Last] \in {"planned", "drawn"}
    BY <2>1 DEF LastCallIs, CallTyped, Refusal, Creating, Balancing, Creation, Factoring
  <2> QED  BY <1>2, <2>2 DEF ToCreate, LastCallIs
<1>11. stage[Last] = "balanced" /\ call[Last] = None => Last \in ToCreate
  BY <1>2 DEF ToCreate
<1>12. LastCallIs("balance") =>
         FactorAnswer(call[Last].arguments)' = FactorAnswer(call[Last].arguments)
  <2> SUFFICES ASSUME LastCallIs("balance")
               PROVE  FactorAnswer(call[Last].arguments)' = FactorAnswer(call[Last].arguments)
    OBVIOUS
  <2>1. OnItsWay(Last) /\ call[Last].op = "balance" BY DEF OnItsWay, LastCallIs
  <2>2. call[Last].arguments \in [BalanceReads -> Argument]
    BY <1>2, <2>1, OnItsWayIs DEF Reads
  <2>3. \A a \in BalanceReads : /\ Contents(call[Last].arguments[a]) = call[Last].arguments[a].of
                                /\ Contents(call[Last].arguments[a])' = call[Last].arguments[a].of
    BY <1>1, <1>3, <2>2 DEF Argument, Contents
  <2>4. \A e \in Others : EntryVbf(e) \in BalanceReads /\ EntryGbf(e) \in BalanceReads
    BY <1>2, ReadsAre
  <2>5. \A e : /\ EntryVbf(e)' = EntryVbf(e) /\ EntryGbf(e)' = EntryGbf(e)
               /\ EntryValue(e)' = EntryValue(e)
    BY <1>1 DEF EntryVbf, EntryGbf, Zero, BlindingFactor, AssetBlindingFactor, EntryValue
  <2>6. LastGbf' = LastGbf BY <1>3 DEF LastGbf, Zero, Abf, IsFull
  <2>7. \A e \in Others : EntrySecret(e, call[Last].arguments)' = EntrySecret(e, call[Last].arguments)
    <3> SUFFICES ASSUME NEW e \in Others
                 PROVE EntrySecret(e, call[Last].arguments)' = EntrySecret(e, call[Last].arguments)
      OBVIOUS
    <3>1. Contents(call[Last].arguments[EntryVbf(e)])' = Contents(call[Last].arguments[EntryVbf(e)])
      BY <1>1, <1>3, <2>3, <2>4, <2>5 DEF Contents
    <3>2. Contents(call[Last].arguments[EntryGbf(e)])' = Contents(call[Last].arguments[EntryGbf(e)])
      BY <1>1, <1>3, <2>3, <2>4, <2>5 DEF Contents
    <3> QED  BY <2>5, <3>1, <3>2 DEF EntrySecret
  <2>8. [d \in 1 .. Last - 1 |-> EntrySecret(d, call[Last].arguments)]'
          = [d \in 1 .. Last - 1 |-> EntrySecret(d, call[Last].arguments)]
    <3>1. 1 .. Last - 1 \subseteq Others BY <1>2, PlanIs DEF Others
    <3> QED  BY <1>3, <2>7, <3>1
  <2>9. Contents(call[Last].arguments[LastGbf])' = Contents(call[Last].arguments[LastGbf])
    <3>1. LastGbf \in BalanceReads BY <1>2, ReadsAre
    <3> QED  BY <1>1, <1>3, <2>3, <2>6, <3>1 DEF Contents
  <2> QED  BY <1>2, <1>3, <2>7, <2>8, <2>9 DEF FactorAnswer
<1>13. LastCallIs("balance") => FactorAnswer(call[Last].arguments)'.factor = RightFactor(GbfHeld)'
  BY <1>3, <1>9, <1>10, <1>12 DEF FactorIsRight, RightFactor
<1>14. LastCallIs("factored") => call[Last].factor = RightFactor(GbfHeld)'
  BY <1>3, <1>9, <1>10 DEF FactorIsRight, RightFactor
<1>15. stage[Last] = "balanced" /\ call[Last] = None => buffers'[Vbf(Last)'] = RightFactor(GbfHeld)'
  BY <1>3, <1>9, <1>11 DEF FactorIsRight, RightFactor, Vbf
<1>16. LastCallIs("create") =>
         call[Last].arguments[Vbf(Last)'].of = RightFactor(GbfPassed(call[Last].arguments))'
  BY <1>1, <1>3 DEF FactorIsRight, RightFactor, GbfPassed, Vbf, Abf
<1>17. LastCallIs("created") => call[Last].vbf = RightFactor(call[Last].abf)'
  BY <1>1, <1>3 DEF FactorIsRight, RightFactor
<1>18. stage[Last] = "created" => output[Last].vbf = RightFactor(output[Last].abf)'
  BY <1>1, <1>3 DEF FactorIsRight, RightFactor
<1>19. call'[Last'] = call[Last] /\ stage'[Last'] = stage[Last] /\ output'[Last'] = output[Last]
  BY <1>1, <1>3
<1> QED  BY <1>6, <1>8, <1>13, <1>14, <1>15, <1>16, <1>17, <1>18, <1>19 DEF FactorIsRight

\* What neither touches a Buffer nor a call.
LEMMA OthersHeld ==
  ASSUME plan \in Plans, FactorIsRight, UNCHANGED <<plan, buffers, stage, call, output>>
  PROVE  FactorIsRight'
<1>1. /\ InputSecret' = InputSecret /\ OthersSecret' = OthersSecret /\ Last' = Last
      /\ plan.drafts[Last].value' = plan.drafts[Last].value
      /\ IsFull(Last)' = IsFull(Last)
  BY SecretsStay
<1>2. call'[Last'] = call[Last] /\ stage'[Last'] = stage[Last] /\ output'[Last'] = output[Last]
  BY <1>1
<1>3. \A gbf : RightFactor(gbf)' = RightFactor(gbf) BY <1>1 DEF RightFactor
<1>4. FactorAnswer(call[Last].arguments)' = FactorAnswer(call[Last].arguments)
  BY DEF FactorAnswer, EntrySecret, Contents, EntryVbf, EntryGbf, EntryValue, LastGbf, Last, Zero,
         Abf, BlindingFactor, AssetBlindingFactor
<1>5. GbfHeld' = GbfHeld BY <1>1 DEF GbfHeld, Abf
<1>6. GbfPassed(call[Last].arguments)' = GbfPassed(call[Last].arguments)
  BY <1>1, <1>2 DEF GbfPassed, Abf
<1>7. /\ RightFactor(GbfHeld)' = RightFactor(GbfHeld)
      /\ RightFactor(GbfPassed(call[Last].arguments))' = RightFactor(GbfPassed(call[Last].arguments))
      /\ RightFactor(call[Last].abf)' = RightFactor(call[Last].abf)
      /\ RightFactor(output[Last].abf)' = RightFactor(output[Last].abf)
  BY <1>1, <1>2, <1>5, <1>6 DEF RightFactor
<1>8. /\ ToBalance' = ToBalance /\ \A op : LastCallIs(op)' = LastCallIs(op)
      /\ None' = None /\ Vbf(Last)' = Vbf(Last)
  BY <1>1, <1>2 DEF ToBalance, LastCallIs, None, Vbf
<1>9. EntriesInBuffers' = EntriesInBuffers
  BY <1>1 DEF EntriesInBuffers, Drafts, IsFull, Zero, Abf, BlindingFactor, AssetBlindingFactor,
              BalanceReads, EntryVbf, EntryGbf, LastGbf
<1> QED  BY <1>1, <1>2, <1>4, <1>7, <1>8, <1>9 DEF FactorIsRight

\* A write that was noticed stays noticed.
LEMMA DisturbedStays ==
  ASSUME plan' = plan, disturbed \subseteq disturbed', Disturbed
  PROVE  Disturbed'
<1>1. BalanceReads' = BalanceReads /\ CreateReads(Last)' = CreateReads(Last)
  BY DEF BalanceReads, LastGbf, EntryVbf, EntryGbf, Zero, Abf, Vbf, BlindingFactor,
         AssetBlindingFactor, Last, CreateReads
<1> QED  BY <1>1 DEF Disturbed

LEMMA StepFactorHeld ==
  ASSUME WalletTyped, FactorHeld, [Next]_vars
  PROVE  FactorHeld'
<1>1. plan' = plan /\ disturbed \subseteq disturbed' /\ plan \in Plans
  <2>1. disturbed \subseteq disturbed'
    BY DEF Next, WalletNext, NativeNext, vars, Spend, Submit, Draw, Unsupported, Fail, Call,
           Created, Balanced, Rejected, Run, Break, Write
  <2>2. plan' = plan
    BY DEF Next, WalletNext, NativeNext, vars, Spend, Submit, Draw, Unsupported, Fail, Call,
           Created, Balanced, Rejected, Run, Break, Write
  <2> QED  BY <2>1, <2>2, TypedIs
<1> SUFFICES ASSUME ~Disturbed' PROVE FactorIsRight'
  BY DEF FactorHeld
<1>2. FactorIsRight BY <1>1, DisturbedStays DEF FactorHeld
<1>3. CASE Spend BY <1>1, <1>2, <1>3, OthersHeld DEF Spend
<1>4. CASE Submit BY <1>1, <1>2, <1>4, OthersHeld DEF Submit
<1>5. ASSUME NEW d \in Drafts,
             Draw(d) \/ Unsupported(d) \/ Call(d, "create") \/ Call(d, "balance")
               \/ Created(d) \/ Balanced(d) \/ Rejected(d) \/ Run(d) \/ Break(d)
      PROVE  FactorIsRight'
  BY <1>2, <1>5, DrawHeld, UnsupportedHeld, CallHeld, CreatedHeld, BalancedHeld, RejectedHeld,
     RunHeld, BreakHeld
<1>6. ASSUME NEW b \in Buffers, NEW bytes, Write(b, bytes) PROVE FactorIsRight'
  BY <1>2, <1>6, WriteHeld
<1>7. CASE UNCHANGED vars BY <1>1, <1>2, <1>7, OthersHeld DEF vars
<1> QED  BY <1>3, <1>4, <1>5, <1>6, <1>7 DEF Next, WalletNext, NativeNext

----------------------------------------------------------------------------
(* The sums of what is created.                                            *)

Points == [d \in Drafts |-> CreatedCommitment(d)]
Secrets == [d \in Drafts |-> CreatedSecret(d)]
Values == [d \in Drafts |-> CreatedValue(d)]

LEMMA CreatedAdd ==
  ASSUME WalletTyped
  PROVE  /\ Points \in Seq(Point) /\ Secrets \in Seq(Scalars)
         /\ Values \in Seq([Tokens -> Nat])
         /\ Len(Points) = Last /\ Len(Secrets) = Last /\ Len(Values) = Last
<1> DEFINE V == [Tokens -> Nat]
<1>1. plan \in Plans /\ Last \in Nat /\ Drafts = 1 .. Last BY TypedIs, PlanIs
<1>2. ASSUME NEW d \in Drafts
      PROVE  CreatedCommitment(d) \in Point /\ CreatedSecret(d) \in Scalars /\ CreatedValue(d) \in V
  <2>1. plan.drafts[d].value \in Amounts /\ plan.drafts[d].token \in Tokens BY <1>1, PlanIs
  <2>2. output[d] # None => /\ output[d].commitment \in Point
                            /\ output[d].vbf \in Scalars /\ output[d].abf \in Scalars
    BY TypedIs DEF DraftTyped, OutputTyped, Record
  <2>3. CreatedCommitment(d) \in Point BY <2>2, PointsAdd DEF CreatedCommitment
  <2>4. CreatedSecret(d) \in Scalars BY <2>1, <2>2, ScalarClosure DEF CreatedSecret
  <2>5. CreatedValue(d) \in V BY <2>1, ValueClosure, AmountAssumption DEF CreatedValue
  <2> QED  BY <2>3, <2>4, <2>5
<1> HIDE DEF V
<1>3. Points \in [1 .. Last -> Point] BY <1>1, <1>2 DEF Points
<1>4. Secrets \in [1 .. Last -> Scalars] BY <1>1, <1>2 DEF Secrets
<1>5. Values \in [1 .. Last -> V] BY <1>1, <1>2 DEF Values
<1>6. Points \in Seq(Point) /\ Len(Points) = Last BY <1>1, <1>3
<1>7. Secrets \in Seq(Scalars) /\ Len(Secrets) = Last BY <1>1, <1>4
<1>8. Values \in Seq(V) /\ Len(Values) = Last BY <1>1, <1>5
<1> QED  BY <1>6, <1>7, <1>8 DEF V

LEMMA SumsTyped ==
  ASSUME WalletTyped
  PROVE  OutputSum \in Point /\ OutSecret \in Scalars /\ OutValue \in [Tokens -> Nat]
BY CreatedAdd, PointSumType, ScalarSumType, ValueSumType
   DEF OutputSum, OutSecret, OutValue, Points, Secrets, Values

\* A creation that succeeds adds to each of the sums.
LEMMA CreatedAddsUp ==
  ASSUME WalletTyped, NEW d \in Drafts, Created(d), result' = "ok"
  PROVE  /\ OutputSum' = PointAdd(OutputSum, call[d].commitment)
         /\ OutSecret' = Plus(OutSecret, Opening(plan.drafts[d].value, call[d].vbf, call[d].abf))
         /\ OutValue' = AddValue(OutValue, Units(plan.drafts[d].value, plan.drafts[d].token))
<1> DEFINE value == plan.drafts[d].value
           token == plan.drafts[d].token
           secret == Opening(value, call[d].vbf, call[d].abf)
           V == [Tokens -> Nat]
<1>1. plan \in Plans /\ Last \in Nat /\ Drafts = 1 .. Last /\ value \in Amounts /\ token \in Tokens
  BY TypedIs, PlanIs
<1>2. plan' = plan /\ Drafts' = Drafts BY DEF Created, Drafts
<1>3. /\ call[d].vbf \in Scalars /\ call[d].abf \in Scalars /\ output[d] = None
      /\ Opens(d, call[d])
  BY CreationIs
<1>4. /\ output'[d] # None /\ output'[d].commitment = call[d].commitment
      /\ output'[d].vbf = call[d].vbf /\ output'[d].abf = call[d].abf
      /\ \A e \in Drafts : e # d => output'[e] = output[e]
  <2>1. /\ output'[d] = [generator |-> call[d].generator, commitment |-> call[d].commitment,
                         vbf |-> call[d].vbf, abf |-> call[d].abf]
        /\ output'[d] # None
        /\ \A e \in Drafts : e # d => output'[e] = output[e]
    BY CreatedOk
  <2>2. /\ output'[d].commitment = call[d].commitment
        /\ output'[d].vbf = call[d].vbf /\ output'[d].abf = call[d].abf
    BY <2>1
  <2> QED  BY <2>1, <2>2
<1>5. /\ Points \in Seq(Point) /\ Len(Points) = Last
      /\ Secrets \in Seq(Scalars) /\ Len(Secrets) = Last
      /\ Values \in Seq(V) /\ Len(Values) = Last
  BY CreatedAdd
<1>6. call[d].commitment \in Point
  BY <1>1, <1>3, CommitIsPoint DEF Opens
<1>7. secret \in Scalars BY <1>1, <1>3, ScalarClosure
<1>8. Units(value, token) \in V BY <1>1, ValueClosure, AmountAssumption
<1>9. /\ Points[d] = Identity /\ Secrets[d] = ZERO_TWEAK /\ Values[d] = NoValue
  BY <1>3 DEF Points, Secrets, Values, CreatedCommitment, CreatedSecret, CreatedValue
<1>10. \A e \in Drafts : CreatedCommitment(e)' = IF e = d THEN call[d].commitment
                                                ELSE CreatedCommitment(e)
  BY <1>4 DEF CreatedCommitment, None
<1>11. \A e \in Drafts : CreatedSecret(e)' = IF e = d THEN secret ELSE CreatedSecret(e)
  BY <1>2, <1>4 DEF CreatedSecret, None
<1>12. \A e \in Drafts : CreatedValue(e)' = IF e = d THEN Units(value, token) ELSE CreatedValue(e)
  BY <1>2, <1>4 DEF CreatedValue, None
<1> HIDE DEF secret, value, token, V
<1>13. [e \in Drafts |-> CreatedCommitment(e)]' = [Points EXCEPT ![d] = call[d].commitment]
  BY <1>2, <1>10 DEF Points
<1>14. [e \in Drafts |-> CreatedSecret(e)]' = [Secrets EXCEPT ![d] = secret]
  BY <1>2, <1>11 DEF Secrets
<1>15. [e \in Drafts |-> CreatedValue(e)]' = [Values EXCEPT ![d] = Units(value, token)]
  BY <1>2, <1>12 DEF Values
<1>16. OutputSum' = PointAdd(OutputSum, call[d].commitment)
  <2>1. PointSum([Points EXCEPT ![d] = call[d].commitment])
          = PointAdd(PointSum(Points), call[d].commitment)
    BY <1>1, <1>5, <1>6, <1>9, PointSumReplace
  <2>2. OutputSum' = PointSum([e \in Drafts |-> CreatedCommitment(e)]') BY DEF OutputSum
  <2> QED  BY <1>13, <2>1, <2>2 DEF OutputSum, Points
<1>17. OutSecret' = Plus(OutSecret, secret)
  <2>1. ScalarSum([Secrets EXCEPT ![d] = secret]) = Plus(ScalarSum(Secrets), secret)
    BY <1>1, <1>5, <1>7, <1>9, ScalarSumReplace
  <2>2. OutSecret' = ScalarSum([e \in Drafts |-> CreatedSecret(e)]') BY DEF OutSecret
  <2> QED  BY <1>14, <2>1, <2>2 DEF OutSecret, Secrets
<1>18. OutValue' = AddValue(OutValue, Units(value, token))
  <2>1. ValueSum([Values EXCEPT ![d] = Units(value, token)])
          = AddValue(ValueSum(Values), Units(value, token))
    BY <1>1, <1>5, <1>8, <1>9, ValueSumReplace DEF V
  <2>2. OutValue' = ValueSum([e \in Drafts |-> CreatedValue(e)]') BY DEF OutValue
  <2> QED  BY <1>15, <2>1, <2>2 DEF OutValue, Values
<1> QED  BY <1>16, <1>17, <1>18 DEF secret, value, token

LEMMA SumsStay ==
  ASSUME plan' = plan, output' = output
  PROVE  /\ OutputSum' = OutputSum /\ OutSecret' = OutSecret /\ OutValue' = OutValue
         /\ CreatedDrafts' = CreatedDrafts
BY DEF OutputSum, OutSecret, OutValue, CreatedDrafts, CreatedCommitment, CreatedSecret,
       CreatedValue, None, Drafts

LEMMA CreatedSumsOpen ==
  ASSUME WalletTyped, SumsOpen, NEW d \in Drafts, Created(d)
  PROVE  SumsOpen'
<1>1. CASE result' # "ok"
  <2>1. plan' = plan /\ output' = output BY <1>1 DEF Created
  <2> QED  BY <2>1, SumsStay DEF SumsOpen
<1>2. CASE result' = "ok"
  <2>1. /\ call[d].vbf \in Scalars /\ call[d].abf \in Scalars
        /\ Opens(d, call[d])
    BY CreationIs
  <2>2. plan.drafts[d].value \in Amounts /\ plan.drafts[d].token \in Tokens BY TypedIs, PlanIs
  <2>3. /\ call[d].commitment.h = Units(plan.drafts[d].value, plan.drafts[d].token)
        /\ call[d].commitment.g = Opening(plan.drafts[d].value, call[d].vbf, call[d].abf)
    BY <2>1, <2>2, CommitIsPoint DEF Opens
  <2> QED  BY <1>2, <2>3, CreatedAddsUp DEF SumsOpen, PointAdd
<1> QED  BY <1>1, <1>2

LEMMA StepSumsOpen ==
  ASSUME WalletTyped, SumsOpen, [Next]_vars
  PROVE  SumsOpen'
<1>1. CASE \E d \in Drafts : Created(d) BY <1>1, CreatedSumsOpen
<1>2. CASE ~\E d \in Drafts : Created(d)
  <2>1. plan' = plan
    BY DEF Next, WalletNext, NativeNext, vars, Spend, Submit, Draw, Unsupported, Fail, Call,
           Created, Balanced, Rejected, Run, Break, Write
  <2>2. output' = output
    BY <1>2 DEF Next, WalletNext, NativeNext, vars, Spend, Submit, Draw, Unsupported, Fail, Call,
           Balanced, Rejected, Run, Break, Write
  <2> QED  BY <2>1, <2>2, SumsStay DEF SumsOpen
<1> QED  BY <1>1, <1>2

----------------------------------------------------------------------------
(* The verdict.                                                            *)

\* What the peer's verdict comes down to, without an excess.
WalletVerdict ==
  IF (IF spent THEN 1 ELSE 0) = 0 /\ Cardinality(CreatedDrafts) # 0 THEN "false"
  ELSE IF (IF spent THEN 1 ELSE 0) # 0 /\ Cardinality(CreatedDrafts) = 0 THEN "false"
  ELSE IF (IF spent THEN 1 ELSE 0) = 0 \/ (IF spent THEN InputCommitment ELSE Identity) = OutputSum
       THEN "true" ELSE "false"

LEMMA VerdictIs == Peer!Verdict = WalletVerdict
BY DEF Peer!Verdict, Peer!ExcessMisplaced, Peer!PushExcess, Peer!Equation, WalletVerdict

LEMMA VerdictUnchanged ==
  ASSUME plan' = plan, output' = output, spent' = spent
  PROVE  CreatedDrafts' = CreatedDrafts /\ Peer!Verdict' = Peer!Verdict
<1>1. OutputSum' = OutputSum /\ CreatedDrafts' = CreatedDrafts BY SumsStay
<1>2. InputCommitment' = InputCommitment BY DEF InputCommitment
<1>3. WalletVerdict' = WalletVerdict BY <1>1, <1>2 DEF WalletVerdict
<1>4. Peer!Verdict' = WalletVerdict'
  BY DEF Peer!Verdict, Peer!ExcessMisplaced, Peer!PushExcess, Peer!Equation, WalletVerdict
<1> QED  BY <1>1, <1>3, <1>4, VerdictIs

\* After a verdict nothing is left to be done but to write to Buffers.
LEMMA StepVerdictStays ==
  ASSUME WalletTyped, VerdictStays, [Next]_vars
  PROVE  VerdictStays'
<1>1. plan' = plan
  BY DEF Next, WalletNext, NativeNext, vars, Spend, Submit, Draw, Unsupported, Fail, Call,
         Created, Balanced, Rejected, Run, Break, Write
<1> DEFINE verdicts == {"true", "false", "throw", "abort"}
<1>2. Peer!Verdicts = verdicts BY DEF Peer!Verdicts
<1>3. ASSUME output' = output, spent' = spent, result' = result PROVE VerdictStays'
  BY <1>1, <1>2, <1>3, VerdictUnchanged DEF VerdictStays, Drafts, Peer!Verdicts
<1>4. ASSUME result' \notin verdicts PROVE VerdictStays'
  BY <1>4 DEF VerdictStays, Peer!Verdicts
<1>5. CASE Spend BY <1>4, <1>5 DEF Spend
<1>6. CASE Submit
  <2>1. /\ CreatedDrafts = Drafts /\ result' = Peer!Verdict
        /\ output' = output /\ spent' = spent
    BY <1>6 DEF Submit
  <2>2. CreatedDrafts' = CreatedDrafts /\ Peer!Verdict' = Peer!Verdict
    BY <1>1, <2>1, VerdictUnchanged
  <2> QED  BY <1>1, <2>1, <2>2 DEF VerdictStays, Drafts
<1>7. ASSUME NEW d \in Drafts,
             Draw(d) \/ Unsupported(d) \/ Call(d, "create") \/ Call(d, "balance")
               \/ Balanced(d) \/ Rejected(d) \/ Run(d) \/ Break(d)
      PROVE  VerdictStays'
  BY <1>3, <1>7 DEF Draw, Unsupported, Fail, Call, Balanced, Rejected, Run, Break
<1>8. ASSUME NEW d \in Drafts, Created(d) PROVE VerdictStays'
  <2>1. result' = CreateResult(plan.drafts[d].value, call[d].vbf) BY <1>8, CreationIs
  <2> QED  BY <1>4, <2>1 DEF CreateResult
<1>9. ASSUME NEW b \in Buffers, NEW bytes, Write(b, bytes) PROVE VerdictStays'
  BY <1>3, <1>9 DEF Write
<1>10. CASE UNCHANGED vars BY <1>3, <1>10 DEF vars
<1> QED  BY <1>5, <1>6, <1>7, <1>8, <1>9, <1>10 DEF Next, WalletNext, NativeNext

\* Nothing is created yet.
LEMMA SumsAtStart ==
  ASSUME WalletTyped, \A d \in Drafts : output[d] = None
  PROVE  OutputSum = Identity /\ OutSecret = ZERO_TWEAK /\ OutValue = NoValue
<1> DEFINE V == [Tokens -> Nat]
<1>1. /\ Points \in Seq(Point) /\ Secrets \in Seq(Scalars) /\ Values \in Seq(V)
      /\ Len(Points) = Last /\ Len(Secrets) = Last /\ Len(Values) = Last
  BY CreatedAdd
<1>2. Drafts = 1 .. Last BY TypedIs, PlanIs
<1>3. \A d \in 1 .. Last : Points[d] = Identity /\ Secrets[d] = ZERO_TWEAK /\ Values[d] = NoValue
  BY <1>2 DEF Points, Secrets, Values, CreatedCommitment, CreatedSecret, CreatedValue
<1>4. OutputSum = Identity BY <1>1, <1>3, PointSumOfZeros DEF OutputSum, Points
<1>5. OutSecret = ZERO_TWEAK BY <1>1, <1>3, ScalarSumOfZeros DEF OutSecret, Secrets
<1>6. OutValue = NoValue BY <1>1, <1>3, ValueSumOfZeros DEF OutValue, Values
<1> QED  BY <1>4, <1>5, <1>6

LEMMA InitHeld == Init => WalletHeld
<1> SUFFICES ASSUME Init PROVE WalletHeld
  OBVIOUS
<1>1. WalletTyped BY InitTyped
<1>2. plan \in Plans /\ Last \in Drafts /\ Last \in Nat BY <1>1, TypedIs, PlanIs
<1>3. \A d \in Drafts : stage[d] = "planned" /\ call[d] = None /\ output[d] = None BY DEF Init
<1>4. FactorIsRight
  <2>1. 0 \in 0 .. Last BY <1>2
  <2>2. Zero \in Buffers /\ BlindingFactor(0) \in Buffers /\ AssetBlindingFactor(0) \in Buffers
    BY <1>2, <2>1, BuffersAre
  <2>3. BlindingFactor(0) # Zero /\ AssetBlindingFactor(0) # Zero
        /\ AssetBlindingFactor(0) # BlindingFactor(0)
    BY DEF BlindingFactor, AssetBlindingFactor, Zero
  <2>4. buffers[Zero] = ZERO_TWEAK BY <2>2, <2>3, Zenon DEF Init
  <2>5. plan.input.form # "transparent" => buffers[BlindingFactor(0)] = plan.input.vbf
    BY <2>2, <2>3, Zenon DEF Init
  <2>6. plan.input.form = "full" => buffers[AssetBlindingFactor(0)] = plan.input.abf
    BY <2>2, <2>3, Zenon DEF Init
  <2>7. EntriesInBuffers BY <1>3, <2>4, <2>5, <2>6 DEF EntriesInBuffers
  <2> QED  BY <1>2, <1>3, <2>7 DEF FactorIsRight, LastCallIs
<1>5. SumsOpen BY <1>1, <1>3, SumsAtStart DEF SumsOpen, Identity
<1>6. VerdictStays BY DEF Init, VerdictStays, Peer!Verdicts
<1> QED  BY <1>1, <1>4, <1>5, <1>6 DEF WalletHeld, FactorHeld

\* The factor that is computed makes up what the other entries leave, wherever it
\* is on its way to the commitment of the last draft, the sum of the commitments is
\* the commitment to the sums, and a verdict is on the transaction as it stands.
THEOREM WalletHolds == Spec => []WalletHeld
<1>1. Init => WalletHeld BY InitHeld
<1>2. WalletHeld /\ [Next]_vars => WalletHeld'
  BY StepTyped, StepFactorHeld, StepSumsOpen, StepVerdictStays DEF WalletHeld
<1> QED  BY <1>1, <1>2, PTL DEF Spec

\* The last output and the others.
LEMMA SecretOfLast ==
  ASSUME WalletTyped
  PROVE  /\ OthersSecret \in Scalars /\ CreatedSecret(Last) \in Scalars
         /\ OutSecret = Plus(OthersSecret, CreatedSecret(Last))
<1> DEFINE others == [d \in 1 .. Last - 1 |-> CreatedSecret(d)]
<1>1. Last \in Nat \ {0} /\ Drafts = 1 .. Last BY TypedIs, PlanIs
<1>2. /\ Secrets \in Seq(Scalars) /\ Len(Secrets) = Last
      /\ \A d \in 1 .. Last : Secrets[d] \in Scalars /\ Secrets[d] = CreatedSecret(d)
  BY <1>1, CreatedAdd DEF Secrets
<1>3. others \in Seq(Scalars) /\ Len(others) = Last - 1
  <2>1. Last - 1 \in Nat /\ \A d \in 1 .. Last - 1 : CreatedSecret(d) \in Scalars BY <1>1, <1>2
  <2>2. others \in [1 .. Last - 1 -> Scalars] BY <2>1
  <2> HIDE DEF others
  <2> QED  BY <2>1, <2>2
<1>4. CreatedSecret(Last) \in Scalars BY <1>1, <1>2
<1>5. Secrets = Append(others, CreatedSecret(Last))
  <2> DEFINE longer == Append(others, CreatedSecret(Last))
             D == 1 .. Last
  <2>1. \A d \in 1 .. Last - 1 : others[d] = CreatedSecret(d) OBVIOUS
  <2> HIDE DEF others
  <2>2. longer \in Seq(Scalars) /\ Len(longer) = Last BY <1>1, <1>3, <1>4
  <2>3. \A d \in 1 .. Last : longer[d] = CreatedSecret(d) BY <1>1, <1>3, <1>4, <2>1
  <2> HIDE DEF longer
  <2>4. longer \in [D -> Scalars] /\ Secrets \in [D -> Scalars] BY <1>1, <1>2, <2>2
  <2>5. \A d \in D : longer[d] = Secrets[d] BY <1>2, <2>3
  <2> HIDE DEF D
  <2>6. longer = Secrets BY <2>4, <2>5
  <2> QED  BY <2>6 DEF longer
<1>6. OthersSecret = ScalarSum(others) BY DEF OthersSecret
<1> HIDE DEF others
<1>7. OthersSecret \in Scalars BY <1>3, <1>6, ScalarSumType
<1>8. OutSecret = Plus(OthersSecret, CreatedSecret(Last))
  BY <1>3, <1>4, <1>5, <1>6, ScalarSumAppend DEF OutSecret, Secrets
<1> QED  BY <1>4, <1>7, <1>8

\* The blindings of the outputs, when all of them are created.
LEMMA SecretsBalance ==
  ASSUME WalletTyped, FactorIsRight, CreatedDrafts = Drafts
  PROVE  OutSecret = InputSecret
<1> DEFINE value == plan.drafts[Last].value
           made == output[Last]
           w == Times(value, made.abf)
<1>1. /\ plan \in Plans /\ Last \in Drafts /\ value \in Amounts
      /\ plan.input.value \in Amounts /\ plan.input.vbf \in Scalars /\ plan.input.abf \in Scalars
  BY TypedIs, PlanIs
<1>2. made # None /\ stage[Last] = "created" /\ made \in Record
  BY <1>1, TypedIs DEF CreatedDrafts, DraftTyped, OutputTyped
<1>3. made.vbf \in Scalars /\ made.abf \in Scalars BY <1>2 DEF Record
<1>4. made.vbf = RightFactor(made.abf) BY <1>2 DEF FactorIsRight
<1>5. CreatedSecret(Last) = Plus(w, made.vbf) BY <1>2 DEF CreatedSecret, Opening
<1>6. InputSecret \in Scalars BY <1>1, ScalarClosure DEF InputSecret
<1>7. w \in Scalars BY <1>1, <1>3, ScalarAssumption
<1>8. made.vbf = Minus(Minus(InputSecret, OthersSecret), w) BY <1>4 DEF RightFactor
<1> HIDE DEF value, made, w
<1> QED  BY <1>5, <1>6, <1>7, <1>8, SecretOfLast, BalancingFactor

\* A wallet whose Buffers are left alone while the balance depends on them gets
\* every transaction that conserves its tokens accepted, on every platform, with
\* any number of outputs, in whatever order the promises of the creations settle.
THEOREM HeldWalletIsAccepted == Spec => []HeldIsAccepted
<1>1. WalletHeld => HeldIsAccepted
  <2> SUFFICES ASSUME WalletHeld, result \in Peer!Verdicts, ~Disturbed, InValue = OutValue
               PROVE  result = "true"
    BY DEF HeldIsAccepted
  <2>1. WalletTyped /\ FactorIsRight /\ CreatedDrafts = Drafts /\ result = WalletVerdict
    BY VerdictIs DEF WalletHeld, FactorHeld, VerdictStays
  <2>2. /\ plan \in Plans /\ Last \in Drafts /\ Drafts = 1 .. Last /\ Last \in Nat \ {0}
        /\ plan.input.value \in Amounts /\ plan.input.vbf \in Scalars
        /\ plan.input.abf \in Scalars /\ plan.input.token \in Tokens
    BY <2>1, TypedIs, PlanIs
  <2>3. spent
    <3>1. output[Last] # None BY <2>1, <2>2 DEF CreatedDrafts
    <3>2. stage[Last] = "created" BY <2>1, <2>2, <3>1, TypedIs DEF DraftTyped, OutputTyped
    <3> QED  BY <2>1, <2>2, <3>2, TypedIs DEF DraftTyped, Begun
  <2>4. Cardinality(CreatedDrafts) # 0
    <3>1. IsFiniteSet(1 .. Last)
      <4>1. 1 \in Int /\ Last \in Int BY <2>2
      <4> QED  BY <4>1, FS_Interval
    <3> QED  BY <2>1, <2>2, <3>1, FS_EmptySet
  <2>5. OutSecret = InputSecret BY <2>1, SecretsBalance
  <2>6. /\ InputCommitment \in Point
        /\ InputCommitment.h = Units(plan.input.value, plan.input.token)
        /\ InputCommitment.g = InputSecret
    BY <2>2, CommitIsPoint DEF InputCommitment, InputSecret
  <2>7. OutputSum = [h |-> InputCommitment.h, g |-> InputCommitment.g]
    BY <2>3, <2>5, <2>6 DEF WalletHeld, SumsOpen, InValue
  <2>8. InputCommitment = OutputSum BY <2>6, <2>7 DEF Point
  <2> QED  BY <2>1, <2>3, <2>4, <2>8 DEF WalletVerdict
<1> QED  BY <1>1, WalletHolds, PTL

----------------------------------------------------------------------------
(* The refinement: the wallet is one of the provers of Balance.            *)

LEMMA SameDefinitions ==
  /\ Peer!Identity = Identity
  /\ Peer!NoValue = NoValue
  /\ \A v, t : Peer!Units(v, t) = Units(v, t)
  /\ \A a, b : Peer!AddValue(a, b) = AddValue(a, b)
  /\ \A p, q : Peer!PointAdd(p, q) = PointAdd(p, q)
  /\ \A a, b : Peer!Minus(a, b) = Minus(a, b)
  /\ \A v, b, r : Peer!Opening(v, b, r) = Opening(v, b, r)
  /\ \A v, b, g : Peer!Commit(v, b, g) = Commit(v, b, g)
  /\ \A t, r : Peer!create_asset_commitment(t, r) = create_asset_commitment(t, r)
  /\ \A t : Peer!derive_asset_tag(t) = derive_asset_tag(t)
  /\ \A v, b : Peer!RejectedByCreateCommitment(v, b) = RejectedByCreateCommitment(v, b)
BY DEF Peer!Identity, Identity, Peer!NoValue, NoValue, Peer!Units, Units, Peer!AddValue, AddValue,
       Peer!PointAdd, PointAdd, Peer!Minus, Minus, Peer!Opening, Opening, Peer!Commit, Commit,
       Peer!create_asset_commitment, create_asset_commitment,
       Peer!derive_asset_tag, derive_asset_tag,
       Peer!RejectedByCreateCommitment, RejectedByCreateCommitment

\* The last entry has the balancing factor, as far as the wallet knows.
Sealed == stage[Last] = "created" /\ ~Disturbed

\* What a peer sees of the transaction.
LEMMA PeerStutters ==
  ASSUME plan' = plan, spent' = spent, output' = output, Sealed' = Sealed, result' = result
  PROVE  UNCHANGED Peer!vars
<1>1. /\ OutputSum' = OutputSum /\ OutSecret' = OutSecret /\ OutValue' = OutValue
      /\ CreatedDrafts' = CreatedDrafts
  BY SumsStay
<1>2. InputCommitment' = InputCommitment BY DEF InputCommitment
<1>3. InValue' = InValue BY DEF InValue, NoValue
<1>4. Identity' = Identity BY DEF Identity, NoValue
<1> QED  BY <1>1, <1>2, <1>3, <1>4 DEF Peer!vars, Sealed

LEMMA DisturbedSame ==
  ASSUME plan' = plan, disturbed' = disturbed
  PROVE  Disturbed' = Disturbed
BY DEF Disturbed, BalanceReads, LastGbf, EntryVbf, EntryGbf, Zero, Abf, Vbf, BlindingFactor,
       AssetBlindingFactor, Last, CreateReads

LEMMA InitRefines == Init => Peer!Init
<1> SUFFICES ASSUME Init PROVE Peer!Init
  OBVIOUS
<1>1. WalletHeld /\ WalletTyped BY InitHeld DEF WalletHeld
<1>2. plan \in Plans /\ Last \in Drafts BY <1>1, TypedIs, PlanIs
<1>3. /\ spent = FALSE /\ result = "none" /\ stage[Last] # "created"
      /\ \A d \in Drafts : output[d] = None
  BY <1>2 DEF Init
<1>4. CreatedDrafts = {} BY <1>3 DEF CreatedDrafts
<1>5. Cardinality(CreatedDrafts) = 0 BY <1>4, FS_EmptySet
<1>6. OutputSum = Identity /\ OutSecret = ZERO_TWEAK /\ OutValue = NoValue
  BY <1>1, <1>3, SumsAtStart
<1>7. InValue = NoValue BY <1>3 DEF InValue
<1> QED  BY <1>3, <1>4, <1>5, <1>6, <1>7, SameDefinitions DEF Peer!Init, Peer!EmptySide

LEMMA InputIs ==
  ASSUME plan \in Plans
  PROVE  /\ InputCommitment \in Point /\ InputCommitment # Identity
         /\ InputCommitment.g = InputSecret /\ InputSecret \in Scalars
         /\ PointAdd(Identity, InputCommitment) = InputCommitment
<1>1. /\ plan.input.value \in Amounts \ {0} /\ plan.input.token \in Tokens
      /\ plan.input.vbf \in Scalars /\ plan.input.abf \in Scalars
  BY PlanIs
<1>2. InputCommitment \in Point /\ InputCommitment.g = InputSecret
  BY <1>1, CommitIsPoint DEF InputCommitment, InputSecret
<1>3. InputCommitment # Identity
  BY <1>1, IdentityIsRejected DEF InputCommitment, RejectedByCreateCommitment
<1>4. InputSecret \in Scalars BY <1>1, ScalarClosure DEF InputSecret
<1> QED  BY <1>2, <1>3, <1>4, PointsAdd

LEMMA SpendRefines ==
  ASSUME WalletTyped, Spend
  PROVE  Peer!Next
<1> DEFINE form == plan.input.form
           value == plan.input.value
           token == plan.input.token
           vbf == plan.input.vbf
           abf == plan.input.abf
<1>1. /\ ~spent /\ spent' = TRUE /\ result' = "ok"
      /\ UNCHANGED <<platform, plan, buffers, stage, call, output, writes, disturbed>>
  BY DEF Spend
<1>2. /\ plan \in Plans /\ Last \in Drafts
      /\ value \in Amounts \ {0} /\ token \in Tokens /\ vbf \in Scalars /\ abf \in Scalars
  BY TypedIs, PlanIs
<1>3. /\ form # "transparent" => value <= MAX_PROVABLE_AMOUNT
      /\ form = "transparent" => vbf = ZERO_TWEAK
      /\ form # "full" => abf = ZERO_TWEAK
  BY <1>2, PlanAssumption
<1>4. stage[Last] # "created" BY <1>1, <1>2, TypedIs DEF DraftTyped, Begun
<1>5. Last' = Last BY <1>1 DEF Last
<1>6. (stage[Last] = "created" /\ ~Disturbed)' = FALSE /\ (stage[Last] = "created" /\ ~Disturbed) = FALSE
  BY <1>1, <1>4, <1>5
<1>7. /\ OutputSum' = OutputSum /\ OutSecret' = OutSecret /\ OutValue' = OutValue
      /\ CreatedDrafts' = CreatedDrafts
  BY <1>1, SumsStay
<1>8. InputCommitment' = InputCommitment BY <1>1 DEF InputCommitment
<1>9. /\ InputCommitment \in Point /\ InputCommitment # Identity
      /\ InputCommitment.g = InputSecret /\ InputSecret \in Scalars
      /\ PointAdd(Identity, InputCommitment) = InputCommitment
  BY <1>2, InputIs
<1>10. InValue = NoValue /\ InValue' = Units(value, token)
  BY <1>1 DEF InValue
<1>11. AddValue(NoValue, Units(value, token)) = Units(value, token)
  <2>1. value \in Nat BY <1>2, AmountAssumption
  <2>2. Units(value, token) \in [Tokens -> Nat] BY <1>2, <2>1, ValueClosure
  <2> QED  BY <2>2, ValuesAdd
<1>12. /\ InputCommitment = Commit(value, vbf, create_asset_commitment(token, abf))
       /\ InputSecret = Opening(value, vbf, abf)
       /\ plan'.input.form = form
  BY <1>1 DEF InputCommitment, InputSecret
<1>13. value \in 1 .. MAX_PROVABLE_AMOUNT \/ form = "transparent"
  <2>1. value \in Nat \ {0} /\ MAX_PROVABLE_AMOUNT \in Nat
    BY <1>2, AmountAssumption, WalletAssumption
  <2> HIDE DEF value, form
  <2> QED  BY <1>3, <2>1
<1> DEFINE side == [sum |-> InputCommitment, n |-> 1, aborted |-> FALSE]
<1>14. Peer!Push([sum |-> Identity, n |-> 0, aborted |-> FALSE], InputCommitment) = side
  <2>1. (FALSE \/ InputCommitment = Peer!Identity) = FALSE BY <1>9, SameDefinitions
  <2>2. Peer!PointAdd(Identity, InputCommitment) = InputCommitment BY <1>9, SameDefinitions
  <2>3. 0 + 1 = 1 OBVIOUS
  <2> QED  BY <2>1, <2>2, <2>3 DEF Peer!Push
<1>15. (IF spent THEN InputCommitment ELSE Identity) = Identity
       /\ (IF spent THEN InputCommitment ELSE Identity)' = InputCommitment
       /\ (IF spent THEN 1 ELSE 0) = 0 /\ (IF spent THEN 1 ELSE 0)' = 1
       /\ (IF spent THEN InputCommitment.g ELSE ZERO_TWEAK) = ZERO_TWEAK
       /\ (IF spent THEN InputCommitment.g ELSE ZERO_TWEAK)' = InputSecret
       /\ (spent /\ plan.input.form # "transparent") = FALSE
       /\ (spent /\ plan.input.form # "transparent")' = (form # "transparent")
  BY <1>1, <1>8, <1>9, <1>12
<1>16. CASE form = "transparent"
  <2>1. InputCommitment = Commit(value, ZERO_TWEAK, derive_asset_tag(token))
    BY <1>3, <1>12, <1>16 DEF derive_asset_tag
  <2>2. InputSecret = ZERO_TWEAK BY <1>2, <1>3, <1>12, <1>16, OpeningZero
  <2>3. Peer!PushTransparent([sum |-> Identity, n |-> 0, aborted |-> FALSE], value, token) = side
    <3> HIDE DEF value, token, side
    <3> QED  BY <1>2, <1>14, <2>1, SameDefinitions DEF Peer!PushTransparent
  <2> HIDE DEF value, token, form, vbf, abf
  <2>4. Peer!AddTransparentInput(value, token)
    BY <1>1, <1>6, <1>7, <1>10, <1>11, <1>15, <1>16, <2>2, <2>3, SameDefinitions
       DEF Peer!AddTransparentInput
  <2> QED  BY <1>2, <2>4 DEF Peer!Next
<1>17. CASE form # "transparent"
  <2>1. Plus(ZERO_TWEAK, InputSecret) = InputSecret BY <1>9, ScalarsAdd
  <2> HIDE DEF value, token, form, vbf, abf
  <2>2. Peer!AddShieldedInput(value, token, vbf, abf)
    BY <1>1, <1>6, <1>7, <1>10, <1>11, <1>12, <1>13, <1>14, <1>15, <1>17, <2>1, SameDefinitions
       DEF Peer!AddShieldedInput
  <2> QED  BY <1>2, <2>2 DEF Peer!Next
<1> QED  BY <1>16, <1>17

LEMMA PushIs ==
  ASSUME NEW sum, NEW n, NEW c, c # Identity
  PROVE  Peer!Push([sum |-> sum, n |-> n, aborted |-> FALSE], c)
           = [sum |-> PointAdd(sum, c), n |-> n + 1, aborted |-> FALSE]
<1>1. (FALSE \/ c = Peer!Identity) = FALSE BY SameDefinitions
<1>2. Peer!PointAdd(sum, c) = PointAdd(sum, c) BY SameDefinitions
<1> QED  BY <1>1, <1>2 DEF Peer!Push

\* The factor of the last output, when nobody wrote to what it depends on, is the
\* one that Balance computes from the sums.
LEMMA FactorRefines ==
  ASSUME WalletTyped, FactorIsRight, spent, output[Last] = None, LastCallIs("created")
  PROVE  call[Last].vbf
           = Minus(Minus(InputCommitment.g, OutSecret), Times(plan.drafts[Last].value, call[Last].abf))
<1>1. plan \in Plans /\ Last \in Drafts /\ Last \in Nat \ {0} /\ Drafts = 1 .. Last
  BY TypedIs, PlanIs
<1>2. call[Last].vbf = RightFactor(call[Last].abf) BY DEF FactorIsRight
<1>3. InputCommitment.g = InputSecret BY <1>1, InputIs
<1>4. OutSecret = OthersSecret
  <2>1. CreatedSecret(Last) = ZERO_TWEAK BY DEF CreatedSecret
  <2> QED  BY <2>1, SecretOfLast, ScalarsAdd
<1> QED  BY <1>2, <1>3, <1>4 DEF RightFactor

LEMMA CreatedRefines ==
  ASSUME WalletTyped, FactorHeld, NEW d \in Drafts, Created(d)
  PROVE  Peer!Next
<1> DEFINE value == plan.drafts[d].value
           token == plan.drafts[d].token
           vbf == call[d].vbf
           abf == call[d].abf
           commitment == Commit(value, vbf, create_asset_commitment(token, abf))
           n == Cardinality(CreatedDrafts)
           balances == d = Last /\ ~Disturbed
<1>1. /\ call[d] # None /\ call[d].op = "created"
      /\ UNCHANGED <<platform, plan, spent, writes, disturbed>>
  BY DEF Created
<1>2. /\ plan \in Plans /\ Domains /\ Last \in Drafts /\ Last \in Nat \ {0} /\ Last <= MaxDrafts
      /\ Drafts = 1 .. Last /\ value \in Amounts /\ token \in Tokens
  BY TypedIs, PlanIs
<1>3. /\ vbf \in Scalars /\ abf \in Scalars /\ output[d] = None /\ stage[d] = ReadyStage(d) /\ spent
      /\ result' = CreateResult(value, vbf)
      /\ Opens(d, call[d])
  BY CreationIs
<1>4. call[d].commitment = commitment /\ commitment \in Point /\ commitment.g = Opening(value, vbf, abf)
  BY <1>2, <1>3, CommitIsPoint DEF Opens
<1>5. commitment = Identity <=> RejectedByCreateCommitment(value, vbf)
  BY <1>2, <1>3, IdentityIsRejected
<1>6. result' = Peer!CreateResult(value, vbf, commitment)
  BY <1>3, <1>5, SameDefinitions DEF CreateResult, Peer!CreateResult
<1>7. /\ Last' = Last /\ Drafts' = Drafts
      /\ \A e \in Drafts \ {d} : output'[e] = output[e] /\ stage'[e] = stage[e]
  BY <1>1, <1>2 DEF Created, Domains, Last, Drafts
<1>8. Disturbed' = Disturbed BY <1>1, DisturbedSame
<1>9. stage[Last] # "created"
  <2>1. DraftTyped(d) /\ OthersCreated BY TypedIs DEF WalletTyped
  <2>2. stage[d] # "created" BY <1>3 DEF ReadyStage
  <2> QED  BY <2>2 DEF WalletTyped, OthersCreated, AskedFor
<1>10. InputCommitment' = InputCommitment BY <1>1 DEF InputCommitment
<1>11. InValue' = InValue BY <1>1 DEF InValue, NoValue
<1>12. /\ IsFiniteSet(CreatedDrafts) /\ n \in Nat /\ n < MaxDrafts /\ d \notin CreatedDrafts
  <2>1. IsFiniteSet(1 .. Last) /\ Cardinality(1 .. Last) = Last
    <3>1. 1 \in Int /\ Last \in Int BY <1>2
    <3>2. IsFiniteSet(1 .. Last) BY <3>1, FS_Interval
    <3>3. Cardinality(1 .. Last) = IF 1 > Last THEN 0 ELSE Last - 1 + 1 BY <3>1, FS_Interval
    <3>4. (IF 1 > Last THEN 0 ELSE Last - 1 + 1) = Last BY <1>2
    <3> QED  BY <3>2, <3>3, <3>4
  <2>2. CreatedDrafts \subseteq Drafts /\ d \notin CreatedDrafts BY <1>3 DEF CreatedDrafts
  <2>3. CreatedDrafts \in SUBSET (1 .. Last) /\ CreatedDrafts # 1 .. Last BY <1>2, <2>2
  <2> HIDE DEF n
  <2>4. IsFiniteSet(CreatedDrafts) BY <2>1, <2>3, FS_Subset
  <2>5. Cardinality(CreatedDrafts) <= Last /\ Cardinality(CreatedDrafts) # Last
    BY <2>1, <2>3, FS_Subset
  <2>6. Cardinality(CreatedDrafts) \in Nat BY <2>4, FS_CardinalityType
  <2> QED  BY <1>2, <2>1, <2>2, <2>4, <2>5, <2>6, WalletAssumption DEF n
<1>13. (IF spent THEN InputCommitment ELSE Identity)' = (IF spent THEN InputCommitment ELSE Identity)
       /\ (IF spent THEN 1 ELSE 0)' = (IF spent THEN 1 ELSE 0)
       /\ (IF spent THEN InputCommitment.g ELSE ZERO_TWEAK)'
            = (IF spent THEN InputCommitment.g ELSE ZERO_TWEAK)
       /\ (spent /\ plan.input.form # "transparent")' = (spent /\ plan.input.form # "transparent")
  BY <1>1, <1>3, <1>10
<1>14. CASE result' # "ok"
  <2>1. output' = output /\ stage'[d] = "failed" BY <1>2, <1>14 DEF Created, Domains
  <2>2. /\ OutputSum' = OutputSum /\ OutSecret' = OutSecret /\ OutValue' = OutValue
        /\ CreatedDrafts' = CreatedDrafts
    BY <1>1, <2>1, SumsStay
  <2>3. (stage[Last] = "created" /\ ~Disturbed)' = (stage[Last] = "created" /\ ~Disturbed)
    BY <1>2, <1>7, <1>9, <2>1
  <2> HIDE DEF value, token, vbf, abf, n, commitment
  <2>4. Peer!AddShieldedOutput(value, token, vbf, abf)
    BY <1>6, <1>11, <1>12, <1>13, <1>14, <2>2, <2>3, SameDefinitions
       DEF Peer!AddShieldedOutput, Peer!ShieldOutput, commitment, n
  <2> QED  BY <1>2, <1>3, <2>4 DEF Peer!Next
<1>15. CASE result' = "ok"
  <2>1. /\ OutputSum' = PointAdd(OutputSum, commitment)
        /\ OutSecret' = Plus(OutSecret, Opening(value, vbf, abf))
        /\ OutValue' = AddValue(OutValue, Units(value, token))
    BY <1>4, <1>15, CreatedAddsUp
  <2>2. CreatedDrafts' = CreatedDrafts \cup {d}
    <3>1. output'[d] # None /\ None' = None BY <1>15, CreatedOk DEF None
    <3> QED  BY <1>7, <3>1 DEF CreatedDrafts
  <2>3. Cardinality(CreatedDrafts)' = n + 1
    BY <1>12, <2>2, FS_AddElement
  <2>4. (stage[Last] = "created" /\ ~Disturbed)' = balances
    <3>1. stage'[d] = "created" BY <1>15, CreatedOk
    <3> QED  BY <1>2, <1>7, <1>8, <1>9, <3>1
  <2>5. commitment # Identity
    <3>1. ~RejectedByCreateCommitment(value, vbf) BY <1>3, <1>15 DEF CreateResult
    <3> QED  BY <1>5, <3>1
  <2>6. (CreatedDrafts # {})' = TRUE BY <2>2
  <2>7. Peer!Push([sum |-> OutputSum, n |-> n, aborted |-> FALSE], commitment)
          = [sum |-> PointAdd(OutputSum, commitment), n |-> n + 1, aborted |-> FALSE]
    BY <2>5, PushIs
  <2>8. Peer!ShieldOutput(value, token, vbf, abf, balances)
    <3> HIDE DEF value, token, vbf, abf, n, commitment, balances
    <3> QED
      BY <1>6, <1>11, <1>12, <1>13, <1>15, <2>1, <2>3, <2>4, <2>6, <2>7, SameDefinitions
         DEF Peer!ShieldOutput, commitment, n
  <2>9. CASE balances
    <3>1. d = Last /\ FactorIsRight /\ LastCallIs("created") BY <1>1, <2>9 DEF FactorHeld, LastCallIs
    <3>2. vbf = Minus(Minus(InputCommitment.g, OutSecret), Times(value, abf))
      BY <1>3, <3>1, FactorRefines
    <3> HIDE DEF value, token, vbf, abf, n, commitment
    <3>3. Peer!compute_balancing_blinding_factor(value, abf) = vbf
      BY <1>3, <3>2, SameDefinitions DEF Peer!compute_balancing_blinding_factor
    <3>4. Peer!AddBalancedOutput(value, token, abf)
      BY <2>8, <2>9, <3>3 DEF Peer!AddBalancedOutput
    <3> QED  BY <1>2, <1>3, <3>4 DEF Peer!Next
  <2>10. CASE ~balances
    <3> HIDE DEF value, token, vbf, abf, n, commitment
    <3>1. balances = FALSE BY <2>10
    <3>2. Peer!AddShieldedOutput(value, token, vbf, abf) BY <2>8, <3>1 DEF Peer!AddShieldedOutput
    <3> QED  BY <1>2, <1>3, <3>2 DEF Peer!Next
  <2> QED  BY <2>9, <2>10
<1> QED  BY <1>14, <1>15

\* Once the last draft is created, no Buffer is read any more.
LEMMA SealStays ==
  ASSUME WalletTyped, plan' = plan, stage'[Last] = stage[Last],
         \/ disturbed' = disturbed
         \/ stage[Last] # "created"
         \/ \E b : disturbed' = IF b \in ReadLater THEN disturbed \cup {b} ELSE disturbed
  PROVE  Sealed' = Sealed
<1>1. plan \in Plans /\ Last \in Drafts /\ OthersCreated BY TypedIs, PlanIs DEF WalletTyped
<1>2. Last' = Last BY DEF Last
<1>3. CASE stage[Last] # "created" BY <1>2, <1>3 DEF Sealed
<1>4. CASE stage[Last] = "created"
  <2>1. \A d \in Drafts : stage[d] = "created" BY <1>1, <1>4 DEF OthersCreated, AskedFor
  <2>2. ToCreate = {} BY <2>1 DEF ToCreate
  <2>3. ~ToBalance BY <1>4 DEF ToBalance
  <2>4. \A b : b \notin ReadLater BY <2>2, <2>3 DEF ReadLater
  <2>5. disturbed' = disturbed BY <1>4, <2>4
  <2>6. Disturbed' = Disturbed BY <2>5, DisturbedSame
  <2> QED  BY <1>2, <2>6 DEF Sealed
<1> QED  BY <1>3, <1>4

LEMMA SubmitRefines ==
  ASSUME WalletTyped, Submit
  PROVE  Peer!Next
<1>1. /\ result' = Peer!Verdict
      /\ UNCHANGED <<platform, plan, spent, buffers, stage, call, output, writes, disturbed>>
  BY DEF Submit
<1>2. /\ OutputSum' = OutputSum /\ OutSecret' = OutSecret /\ OutValue' = OutValue
      /\ CreatedDrafts' = CreatedDrafts
  BY <1>1, SumsStay
<1>3. InputCommitment' = InputCommitment BY <1>1 DEF InputCommitment
<1>4. InValue' = InValue BY <1>1 DEF InValue, NoValue
<1>5. Identity' = Identity BY DEF Identity, NoValue
<1>6. Last' = Last BY <1>1 DEF Last
<1>7. Disturbed' = Disturbed BY <1>1, DisturbedSame
<1>8. Peer!VerifyBalance
  BY <1>1, <1>2, <1>3, <1>4, <1>5, <1>6, <1>7 DEF Peer!VerifyBalance
<1> QED  BY <1>8 DEF Peer!Next

\* The steps that a peer does not see.
LEMMA StepStutters ==
  ASSUME WalletTyped, NEW d \in Drafts,
         Draw(d) \/ Unsupported(d) \/ Call(d, "create") \/ Call(d, "balance")
           \/ Balanced(d) \/ Rejected(d) \/ Run(d) \/ Break(d)
  PROVE  UNCHANGED Peer!vars
<1>1. UNCHANGED <<plan, spent, output, result, disturbed>>
  BY DEF Draw, Unsupported, Fail, Call, Balanced, Rejected, Run, Break
<1>2. plan \in Plans /\ Last \in Drafts /\ Domains /\ Last' = Last
  BY <1>1, TypedIs, PlanIs DEF Last
<1>3. Disturbed' = Disturbed BY <1>1, DisturbedSame
<1>4. \/ stage' = stage
      \/ \A e \in Drafts : stage'[e] = stage[e] \/ (stage[e] # "created" /\ stage'[e] # "created")
  <2>1. CASE Draw(d) BY <1>2, <2>1 DEF Draw, Domains
  <2>2. CASE Unsupported(d) BY <1>2, <2>2 DEF Unsupported, Fail, Domains
  <2>3. CASE Call(d, "create") \/ Call(d, "balance") \/ Run(d) \/ Break(d)
    BY <2>3 DEF Call, Run, Break
  <2>4. CASE Balanced(d)
    <3>1. stage[d] # "created"
      BY <2>4, TypedIs DEF Balanced, DraftTyped, CreatedAreSet
    <3> QED  BY <1>2, <2>4, <3>1 DEF Balanced, Domains
  <2>5. CASE Rejected(d)
    <3>1. stage[d] # "created"
      BY <2>5, TypedIs DEF Rejected, Rejects, DraftTyped, CreatedAreSet
    <3> QED  BY <1>2, <2>5, <3>1 DEF Rejected, Fail, Domains
  <2> QED  BY <2>1, <2>2, <2>3, <2>4, <2>5
<1>5. Sealed' = Sealed BY <1>2, <1>3, <1>4 DEF Sealed
<1> QED  BY <1>1, <1>5, PeerStutters

LEMMA StepRefines == WalletHeld /\ [Next]_vars => [Peer!Next]_(Peer!vars)
<1> SUFFICES ASSUME WalletHeld, [Next]_vars PROVE [Peer!Next]_(Peer!vars)
  OBVIOUS
<1>1. WalletTyped /\ FactorHeld BY DEF WalletHeld
<1>2. CASE Spend BY <1>1, <1>2, SpendRefines
<1>3. CASE Submit BY <1>1, <1>3, SubmitRefines
<1>4. ASSUME NEW d \in Drafts, Created(d) PROVE Peer!Next BY <1>1, <1>4, CreatedRefines
<1>5. ASSUME NEW d \in Drafts,
             Draw(d) \/ Unsupported(d) \/ Call(d, "create") \/ Call(d, "balance")
               \/ Balanced(d) \/ Rejected(d) \/ Run(d) \/ Break(d)
      PROVE  UNCHANGED Peer!vars
  BY <1>1, <1>5, StepStutters
<1>6. ASSUME NEW b \in Buffers, NEW bytes, Write(b, bytes) PROVE UNCHANGED Peer!vars
  <2>1. /\ UNCHANGED <<platform, plan, spent, stage, call, output, result>>
        /\ disturbed' = (IF b \in ReadLater THEN disturbed \cup {b} ELSE disturbed)
    BY <1>6 DEF Write
  <2>2. Sealed' = Sealed BY <1>1, <2>1, SealStays
  <2> QED  BY <2>1, <2>2, PeerStutters
<1>7. CASE UNCHANGED vars
  <2>1. UNCHANGED <<plan, spent, stage, output, result, disturbed>> BY <1>7 DEF vars
  <2>2. Sealed' = Sealed BY <1>1, <2>1, SealStays
  <2> QED  BY <2>1, <2>2, PeerStutters
<1> QED  BY <1>2, <1>3, <1>4, <1>5, <1>6, <1>7 DEF Next, WalletNext, NativeNext

\* Whatever other code writes to the Buffers, and however the calls interleave,
\* what the wallet assembles is a transaction of Balance, sealed as long as nobody
\* wrote to what the balance depends on: conservation, the exact verdict and the
\* absence of an abort, which BalanceProofs shows, are true of it.
THEOREM WalletImplementsBalance == Spec => ImplementsBalance
<1>1. Init => Peer!Init BY InitRefines
<1>2. WalletHeld /\ [Next]_vars => [Peer!Next]_(Peer!vars) BY StepRefines
<1>3. Spec => []WalletHeld BY WalletHolds
<1> QED  BY <1>1, <1>2, <1>3, PTL DEF Spec, ImplementsBalance, Peer!Spec

\* The blindings that a creation returns open what it created, whatever other
\* code wrote to the Buffers of the call, before, during or after it.
THEOREM CreationsOpen == Spec => []CreatedOpensItself
<1>1. WalletTyped => CreatedOpensItself
  <2> SUFFICES ASSUME WalletTyped, NEW d \in Drafts, output[d] # None
               PROVE  /\ output[d].vbf \in Scalars /\ output[d].abf \in Scalars
                      /\ Opens(d, output[d])
    BY DEF CreatedOpensItself, CreatedDrafts, Opens
  <2>1. Opens(d, output[d]) BY TypedIs DEF WalletTyped, WalletInvariant, DraftInvariant
  <2>2. output[d] \in Record BY TypedIs DEF DraftTyped, OutputTyped
  <2> QED  BY <2>1, <2>2 DEF Record
<1> QED  BY <1>1, WalletTypes, PTL

\* An amount output shows its token, whatever ZERO_TWEAK holds, and a full output
\* does not unless somebody wrote to its drawn asset blinding too early.
THEOREM TokensShow == Spec => []TokenShowsIfItShould
<1>1. WalletInvariant => TokenShowsIfItShould
  <2> SUFFICES ASSUME WalletInvariant, NEW d \in CreatedDrafts
               PROVE  LET shows == output[d].generator = derive_asset_tag(plan.drafts[d].token)
                      IN  IF plan.drafts[d].form = "amount" THEN shows
                          ELSE Abf(d) \notin disturbed => ~shows
    BY DEF TokenShowsIfItShould
  <2>1. Opens(d, output[d])
    BY DEF WalletInvariant, DraftInvariant, CreatedDrafts
  <2>2. plan.drafts[d].form \in {"amount", "full"}
    <3> DEFINE Draft == [form : Form \ {"transparent"}, token : Tokens, value : Amounts]
    <3>1. plan.drafts \in Seq(Draft) BY PlanAssumption DEF WalletInvariant, Domains
    <3>2. d \in DOMAIN plan.drafts BY DEF CreatedDrafts, Drafts
    <3>3. plan.drafts[d] \in Draft
      <4> HIDE DEF Draft
      <4> QED  BY <3>1, <3>2
    <3> QED  BY <3>3 DEF Form
  <2>3. CASE plan.drafts[d].form = "amount"
    BY <2>1, <2>3 DEF Opens, IsFull, derive_asset_tag
  <2>4. CASE plan.drafts[d].form = "full" /\ Abf(d) \notin disturbed
    <3>1. output[d].generator.r # ZERO_TWEAK
      BY <2>1, <2>4 DEF Opens, LeftAlone, IsFull, create_asset_commitment
    <3>2. output[d].generator # derive_asset_tag(plan.drafts[d].token)
      BY <3>1 DEF derive_asset_tag, create_asset_commitment
    <3> QED  BY <2>4, <3>2
  <2> QED  BY <2>2, <2>3, <2>4
<1> QED  BY <1>1, WalletCorrect, PTL
=============================================================================
