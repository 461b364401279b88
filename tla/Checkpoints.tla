---------------------------- MODULE Checkpoints ----------------------------
(***************************************************************************)
(* What is believed of a finished training run: the trainer of             *)
(* adapters/trl works through the prepared examples in the recipe's order, *)
(* saves its tensors and seals a frame; the frame travels, and is verified *)
(* from its bytes alone (gw-storage training_checkpoint.rs,                *)
(* lora_checkpoint.rs, cuda_lora_checkpoint.rs and the tensor files under  *)
(* them).  A tensor holds one number; a float32 is two cells, a bfloat16   *)
(* its upper one.  A digest is what it is of.                              *)
(***************************************************************************)
EXTENDS Integers, Sequences, FiniteSets, SequencesExt, FiniteSetsExt

CONSTANTS None,      \* no value
          Kinds,     \* subset of {"full", "lora", "cuda"}
          MaxExamples, MaxSteps, MaxBatch, MaxAccumulation, \* bounds of a recipe
          Params,    \* the numbers a parameter may have
          MaxFaults  \* bound: things that go wrong

VARIABLES kind,    \* which contract
          recipe,  \* [steps, batch, accumulation]
          prepared, \* how many examples the prepared input has; they are 1, 2, ..
          at,      \* the trainer: [next, update, group]
          ledger,  \* the microbatches it declares: [update, ids]
          frame,   \* [digest, manifest, configs, files, prepared, tail], or None
          sealed,  \* the frame as it was sealed
          verdict, \* None, "accepted", "refused"
          faults
vars == <<kind, recipe, prepared, at, ledger, frame, sealed, verdict, faults>>

--------------------------------------------------------------------------
(* Numbers and tensor files: [header : name -> [dtype, from, to], data].   *)

PosInf == 4
NegInf == -4
Width == [F32 |-> 2, BF16 |-> 1]
Cells(v, dtype) == IF dtype = "F32" THEN <<v \div 2, v % 2>> ELSE <<v \div 2>>
Number(dtype, cells) == 2 * cells[1] + (IF dtype = "F32" THEN cells[2] ELSE 0)
Nonfinite(v) == v \div 2 \in {PosInf \div 2, NegInf \div 2}
\* bf16_bits: to the nearest, ties to the even one; None when that is not finite.
bf16_bits(v) == LET up == v % 2 = 1 /\ (v \div 2) % 2 = 1
                    out == 2 * (v \div 2) + (IF up THEN 2 ELSE 0)
                IN IF Nonfinite(v) \/ Nonfinite(out) THEN None ELSE out

Clips == {"c_min", "c_max"}
Adapters == {"a", "b"}
\* tensor_shapes, base_shapes and adapter_shapes: the names of a file; the head is an alias.
base_names(k) == {"embed", "head"} \cup IF k = "full" THEN {"w"} ELSE Clips
Expected(k, role) == IF k = "full" \/ role = "base" THEN base_names(k) ELSE Adapters
TiedRole(k, role) == k = "full" \/ role = "base"

Sorted(header) == SetToSortSeq(DOMAIN header, LAMBDA m, n : header[m].from < header[n].from)
\* Mutated: the ranges need only be long enough.
tiled_loosely(file) == \A n \in DOMAIN file.header :
    file.header[n].to - file.header[n].from = Width[file.header[n].dtype] /\ file.header[n].to <= Len(file.data)
\* The ranges of the tensors, in order, are the whole payload.
tiled(file) ==
    LET s == Sorted(file.header)
        End(i) == IF i = 0 THEN 0 ELSE file.header[s[i]].to
    IN /\ \A i \in DOMAIN s : /\ file.header[s[i]].from = End(i - 1)
                              /\ End(i) - End(i - 1) = Width[file.header[s[i]].dtype]
       /\ End(Len(s)) = Len(file.data)
\* The numbers, read one after the other.
Read(file) ==
    LET s == Sorted(file.header)
        Before(i) == FoldSeq(LAMBDA n, sum : sum + Width[file.header[n].dtype], 0, SubSeq(s, 1, i - 1))
        At(i) == SubSeq(file.data, Before(i) + 1, Before(i) + Width[file.header[s[i]].dtype])
    IN [n \in DOMAIN file.header |-> LET i == CHOOSE j \in DOMAIN s : s[j] = n
                                     IN Number(file.header[n].dtype, At(i))]
Sentinel(n) == IF n = "c_min" THEN NegInf ELSE PosInf
\* measure: the values by name whatever their dtype, the tied head added; None when refused.
measure(file, k, role, need32) ==
    LET names == Expected(k, role)
        values == Read(file)
    IN IF ~ ( /\ DOMAIN file.header \in {names} \cup IF TiedRole(k, role) THEN {names \ {"head"}} ELSE {}
              /\ tiled(file)
              /\ need32 => \A n \in DOMAIN file.header : file.header[n].dtype = "F32"
              /\ \A n \in DOMAIN values : Nonfinite(values[n]) => n \in Clips /\ values[n] = Sentinel(n)
              /\ Clips \subseteq names => values["c_min"] <= values["c_max"]
              /\ "head" \in DOMAIN values => values["head"] = values["embed"])
       THEN None ELSE [n \in names |-> IF n = "head" THEN values["embed"] ELSE values[n]]
\* tensor_content_id: of names and float32 values, not of how they are stored.
content_id(content, file) == content

--------------------------------------------------------------------------
(* The sequential sampler.                                                 *)

Identity(n) == [i \in 1..n |-> i]
Chunks(s, size) == [i \in 1..((Len(s) + size - 1) \div size) |->
                      SubSeq(s, (i - 1) * size + 1, IF i * size < Len(s) THEN i * size ELSE Len(s))]
\* The microbatches validate_inputs expects: each epoch's groups, cut after the last update.
microbatches(r, n) ==
    LET groups == Chunks(Chunks(Identity(n), r.batch), r.accumulation)
        Group(u) == groups[((u - 1) % Len(groups)) + 1]
    IN FlattenSeq([u \in 1..r.steps |-> [i \in DOMAIN Group(u) |-> [update |-> u, ids |-> Group(u)[i]]]])
\* The totals of TrainingObservations.
Totals(l) == [microbatches |-> Len(l), updates |-> IF l = <<>> THEN 0 ELSE Last(l).update,
              consumed |-> FoldSeq(LAMBDA b, sum : sum + Len(b.ids), 0, l)]

--------------------------------------------------------------------------
(* The states the CUDA contract declares: [frozen, buffers, adapters].      *)

\* What the source becomes on the device: parameters rounded, buffers as they are.
Typed(base) == [frozen |-> [n \in DOMAIN base \ Clips |-> bf16_bits(base[n])],
                buffers |-> [n \in Clips |-> base[n]]]
\* cuda_state::validate.
state_ok(m, contents) ==
    LET typed == Typed(contents[1]) IN
    /\ \A n \in DOMAIN typed.frozen : typed.frozen[n] # None
    /\ \A s \in {m.initial_state, m.final_state} : s.frozen = typed.frozen /\ s.buffers = typed.buffers
    /\ m.final_state.adapters = contents[2] /\ m.initial_state.adapters = contents[3]

--------------------------------------------------------------------------
(* The verifier.  The weight files are in the order of the frame.          *)

roles(k) == IF k = "full" THEN <<"final", "initial">> ELSE <<"base", "final", "initial">>
Contents(f) == [i \in DOMAIN f.files |->
                  measure(f.files[i], f.manifest.kind, roles(f.manifest.kind)[i],
                          IF f.manifest.kind = "full" THEN i = 1 ELSE i > 1)]
Ids(contents, files) == [i \in DOMAIN contents |-> content_id(contents[i], files[i])]
\* The completion identity: the manifest and every file, in order.
body(m, f) == <<m, f.configs, f.files, f.prepared>>
\* Every tensor of an adapter is another one.
changed(contents) == \A n \in Adapters : contents[2][n] # contents[3][n]
\* The accounting a manifest declares, and that what was trained is said to have changed.
Declared(m) ==
    LET last == Len(m.ids) IN
    /\ m.ids[last] # m.ids[last - 1]
    /\ m.totals = Totals(m.ledger) /\ m.totals.updates = m.recipe.steps
    /\ \A b \in ToSet(m.ledger) : b.update \in 1..m.recipe.steps /\ Len(b.ids) \in 1..m.recipe.batch
\* TrainingCheckpointManifest::validate, LoraCheckpointManifest::validate and
\* CudaLoraCheckpointManifest::validate.
validate_full(m) == m.recipe.steps >= 1 /\ Declared(m)
validate_lora(m) == m.recipe.steps >= 2 /\ Declared(m)
validate_cuda(m) ==
    /\ m.initial_state.frozen = m.final_state.frozen /\ m.initial_state.buffers = m.final_state.buffers
    /\ m.initial_state.adapters # m.final_state.adapters
    /\ m.recipe.steps >= 2 /\ Declared(m)
\* validate_inputs of the three verifiers: the whole sequential sampler, and what was trainable.
inputs_full(m, n) == m.ledger = microbatches(m.recipe, n)
inputs_lora(m, n) == m.trainables = Adapters \X {"cpu"} /\ m.ledger = microbatches(m.recipe, n)
inputs_cuda(m, n) == m.trainables = Adapters \X {"cuda:0"} /\ m.ledger = microbatches(m.recipe, n)
\* The frame as a stream: each file's length and digest, its measure, the completion digest, no more.
Framed(f, contents) ==
    /\ f.files = f.manifest.files
    /\ \A i \in DOMAIN contents : contents[i] # None
    /\ f.digest = body(f.manifest, f) /\ f.tail = <<>>
    /\ f.manifest.ids = Ids(contents, f.files) /\ f.prepared = f.manifest.prepared
\* The weights of the approved release; the trainers here have another model.
ReleaseFile == None
verify_training_checkpoint(f, contents) ==
    /\ validate_full(f.manifest) /\ Framed(f, contents)
    /\ f.manifest.authorization = "release" => f.files[2] = ReleaseFile
    /\ f.configs[1] = f.configs[2]
    /\ inputs_full(f.manifest, f.prepared)
\* The adapters' configurations are the base's, which is what the manifest is authorized for.
Configured(f) ==
    ToSet(f.configs) = {f.manifest.authorization} /\ (f.configs[1] = "release" => f.files[1] = ReleaseFile)
verify_lora_checkpoint(f, contents) ==
    /\ validate_lora(f.manifest) /\ Framed(f, contents) /\ Configured(f)
    /\ changed(contents)
    /\ inputs_lora(f.manifest, f.prepared)
verify_cuda_lora_checkpoint(f, contents) ==
    /\ validate_cuda(f.manifest) /\ Framed(f, contents) /\ Configured(f)
    /\ changed(contents)
    /\ state_ok(f.manifest, contents)
    /\ inputs_cuda(f.manifest, f.prepared)
\* A frame's magic says which contract it is under.
verify(f) ==
    CASE f.manifest.kind = "full" -> verify_training_checkpoint(f, Contents(f))
      [] f.manifest.kind = "lora" -> verify_lora_checkpoint(f, Contents(f))
      [] f.manifest.kind = "cuda" -> verify_cuda_lora_checkpoint(f, Contents(f))

--------------------------------------------------------------------------
(* The trainer, what it saves, and the way to the verifier.                *)

Init ==
    /\ kind \in Kinds /\ prepared \in 1..MaxExamples
    /\ recipe \in [steps : (IF kind = "full" THEN 1 ELSE 2)..MaxSteps,
                   batch : 1..MaxBatch, accumulation : 1..MaxAccumulation]
    /\ at = [next |-> 1, update |-> 1, group |-> 0]
    /\ ledger = <<>> /\ frame = None /\ sealed = None /\ verdict = None /\ faults = 0

Trained == at.update > recipe.steps
Blame(n) == faults + n <= MaxFaults /\ faults' = faults + n
\* One microbatch; an update is due when enough of them are gathered or the epoch ends.  What may
\* go wrong: it is not declared, or the update is not made though the epoch is over.
Train ==
    /\ frame = None /\ ~ Trained
    /\ LET upto == Min({at.next + recipe.batch - 1, prepared})
           over == upto = prepared
           batch == [update |-> at.update, ids |-> [i \in 1..(upto - at.next + 1) |-> at.next + i - 1]]
       IN \E declared, flush \in BOOLEAN :
            LET due == at.group + 1 = recipe.accumulation \/ (over /\ flush) IN
            /\ Blame((IF declared THEN 0 ELSE 1) + (IF flush THEN 0 ELSE 1)) /\ (flush \/ over)
            /\ at' = [next |-> IF over THEN 1 ELSE upto + 1,
                      update |-> at.update + (IF due THEN 1 ELSE 0),
                      group |-> IF due THEN 0 ELSE at.group + 1]
            /\ ledger' = IF declared THEN Append(ledger, batch) ELSE ledger
    /\ UNCHANGED <<kind, recipe, prepared, frame, sealed, verdict>>

\* A file of these values, its tensors in the order of their names or against it; what may go
\* wrong: a cell between two tensors, or a tensor that starts inside the one before it.
Layouts == {"right", "gap", "overlap"}
File(values, dtypes, order, layout) ==
    LET pad == IF layout = "gap" THEN <<0>> ELSE <<>>
        data == FlattenSeq([i \in DOMAIN order |->
                   Cells(values[order[i]], dtypes[order[i]]) \o IF i = 1 THEN pad ELSE <<>>])
        Before(i) == FoldSeq(LAMBDA n, sum : sum + Width[dtypes[n]], 0, SubSeq(order, 1, i - 1))
                     + IF i = 1 THEN 0 ELSE IF layout = "gap" THEN 1 ELSE IF layout = "overlap" THEN -1 ELSE 0
        Index(n) == CHOOSE i \in DOMAIN order : order[i] = n
    IN [header |-> [n \in ToSet(order) |-> [dtype |-> dtypes[n], from |-> Before(Index(n)),
                                            to |-> Before(Index(n)) + Width[dtypes[n]]]],
        data |-> data]
Orders(names) == {SetToSeq(names), Reverse(SetToSeq(names))}
\* What a training may leave: [start, end, base], the base None for a full model.
Clippings == {[c_min |-> NegInf, c_max |-> PosInf], [c_min |-> 0, c_max |-> 1], [c_min |-> 1, c_max |-> 0]}
Bases == {[n \in base_names("lora") |-> IF n \in Clips THEN c[n] ELSE e] : e \in Params, c \in Clippings}
Fulls == {[n \in base_names("full") |-> IF n = "w" THEN w ELSE e] : e, w \in Params}
Starts == IF kind = "full" THEN {f \in Fulls : f.embed = 2} ELSE {[n \in Adapters |-> 0]}
Results == IF kind = "full" THEN Fulls ELSE [Adapters -> {0, 1}]
\* The manifest an honest trainer writes of its files.
Manifest(values, files) ==
    LET m == [kind |-> kind, recipe |-> recipe, ledger |-> ledger, totals |-> Totals(ledger),
              prepared |-> prepared, authorization |-> "fixture", files |-> files,
              ids |-> Ids(values, files),
              trainables |-> Adapters \X {IF kind = "cuda" THEN "cuda:0" ELSE "cpu"}]
    IN IF kind # "cuda" THEN m
       ELSE m @@ [initial_state |-> Typed(values[1]) @@ [adapters |-> values[3]],
                  final_state |-> Typed(values[1]) @@ [adapters |-> values[2]]]
\* What a manifest may say wrong.
Misstatements(m) ==
    {[m EXCEPT !.totals.consumed = @ + 1], [m EXCEPT !.prepared = @ + 1],
     [m EXCEPT !.authorization = "release"], [m EXCEPT !.ids = Reverse(@)],
     [m EXCEPT !.recipe.accumulation = @ + 1], [m EXCEPT !.trainables = @ \ {<<"b", "cpu">>, <<"b", "cuda:0">>}]}
    \cup IF kind # "cuda" THEN {}
         ELSE {[m EXCEPT !.final_state.frozen["embed"] = 0], [m EXCEPT !.final_state.adapters["a"] = 2]}
              \cup {[m EXCEPT !.initial_state.frozen = f, !.final_state.frozen = f] :
                      f \in [DOMAIN m.final_state.frozen -> {0}]}
Seal ==
    /\ frame = None /\ Trained
    /\ \E start \in Starts, end \in Results, base \in IF kind = "full" THEN {None} ELSE Bases,
          layout \in Layouts, dtype \in {"F32", "BF16"}, flip \in BOOLEAN :
        LET values == IF kind = "full" THEN <<end, start>> ELSE <<base, end, start>>
            loose == IF kind = "full" THEN 2 ELSE 1      \* the file that may be bfloat16
            Order(i) == LET names == SetToSeq(DOMAIN values[i] \ IF flip THEN {"head"} ELSE {})
                        IN IF flip THEN Reverse(names) ELSE names
            files == [i \in DOMAIN values |->
                        File(values[i], [n \in DOMAIN values[i] |-> IF i = loose THEN dtype ELSE "F32"],
                             Order(i), IF i = 1 THEN layout ELSE "right")]
            honest == Manifest(values, files)
            Sealed(m, configs) ==
                LET f == [manifest |-> m, configs |-> configs, files |-> files, prepared |-> prepared, tail |-> <<>>]
                IN f @@ [digest |-> body(m, f)]
            same == [i \in DOMAIN files |-> "fixture"]
        IN /\ dtype = "BF16" => \A n \in DOMAIN values[loose] : values[loose][n] % 2 = 0
           /\ \/ Blame(IF layout = "right" THEN 0 ELSE 1) /\ frame' = Sealed(honest, same)
              \/ layout = "right" /\ Blame(1) /\ \E m \in Misstatements(honest) : frame' = Sealed(m, same)
              \/ layout = "right" /\ Blame(1) /\ frame' = Sealed(honest, [same EXCEPT ![2] = "release"])
    /\ sealed' = frame'
    /\ UNCHANGED <<kind, recipe, prepared, at, ledger, verdict>>
\* On its way: a cell, the manifest or the end of the frame.
Damage ==
    /\ frame # None /\ verdict = None /\ frame = sealed /\ Blame(1)
    /\ \/ \E i \in DOMAIN frame.files : frame' = [frame EXCEPT !.files[i].data[1] = @ + 1]
       \/ frame' = [frame EXCEPT !.files = Front(@)]
       \/ \E m \in Misstatements(frame.manifest) : frame' = [frame EXCEPT !.manifest = m]
       \/ frame' = [frame EXCEPT !.tail = <<0>>]
    /\ UNCHANGED <<kind, recipe, prepared, at, ledger, sealed, verdict>>
Verify ==
    /\ frame # None /\ verdict = None
    /\ verdict' = IF verify(frame) THEN "accepted" ELSE "refused"
    /\ UNCHANGED <<kind, recipe, prepared, at, ledger, frame, sealed, faults>>
Next == Train \/ Seal \/ Damage \/ Verify
Spec == Init /\ [][Next]_vars

--------------------------------------------------------------------------
(* Properties.                                                             *)

Accepted == verdict = "accepted"
TypeOK ==
    /\ kind \in Kinds /\ prepared \in 1..MaxExamples /\ faults \in 0..MaxFaults
    /\ verdict \in {None, "accepted", "refused"} /\ (verdict # None => frame # None)
    /\ \A b \in ToSet(ledger) : b.update \in 1..recipe.steps /\ ToSet(b.ids) \subseteq 1..prepared

\* What is accepted was trained on every example in turn: the declared microbatches, one after the
\* other, are the examples from the first to the last, over and over; only an epoch's last one is
\* short of its size and only an epoch's last update short of its microbatches; and the updates
\* declared are those of the recipe.  And a run that did so is not turned away, unless a number it
\* had to change is the same or one it must keep is not finite at its width (validate_inputs of the
\* three verifiers).
InTurn(l, r) ==
    LET ids == FlattenSeq([i \in DOMAIN l |-> l[i].ids])
        EpochEnds(i) == Last(l[i].ids) = prepared
    IN /\ \A k \in DOMAIN ids : ids[k] = ((k - 1) % prepared) + 1
       /\ \A i \in DOMAIN l : Len(l[i].ids) = r.batch \/ EpochEnds(i)
       /\ l[1].update = 1 /\ Last(l).update = r.steps
       /\ \A i \in 1..(Len(l) - 1) :
            LET gathered == Cardinality({j \in 1..i : l[j].update = l[i].update})
            IN l[i + 1].update = l[i].update + IF EpochEnds(i) \/ gathered = r.accumulation THEN 1 ELSE 0
Hopeless(m) == LET last == Len(m.ids) IN
    \/ IF kind = "full" THEN m.ids[1] = m.ids[2]
       ELSE \/ \E n \in Adapters : m.ids[last][n] = m.ids[last - 1][n]
            \/ m.ids[1].c_min > m.ids[1].c_max
    \/ kind = "cuda" /\ m.ids[1].embed = 3
EveryExampleInTurn ==
    /\ Accepted => InTurn(frame.manifest.ledger, frame.manifest.recipe)
    /\ verdict = "refused" /\ faults = 0 => Hopeless(frame.manifest)

\* What a verifier says of tensors is what was sealed and lies at the places the files name: an
\* accepted frame is, in every part, the one the trainer sealed; every cell of its files belongs to
\* exactly one tensor, and the numbers found there are those whose identity the manifest declares
\* (the completion digest; measure, measure_inner, parse_checkpoint_tensor_header).
MeasuredIsStored ==
    Accepted =>
      /\ frame = sealed
      /\ \A i \in DOMAIN frame.files : \A f \in {frame.files[i]} :
           /\ \A c \in DOMAIN f.data :
                Cardinality({n \in DOMAIN f.header : c \in (f.header[n].from + 1)..f.header[n].to}) = 1
           /\ \A n \in DOMAIN f.header :
                LET h == f.header[n]
                IN frame.manifest.ids[i][n] = Number(h.dtype, SubSeq(f.data, h.from + 1, h.to))

\* Training is not claimed where none happened: the last model of an accepted frame differs in some
\* number from the first, however either is stored, and an adapter in every tensor; and what was
\* frozen is, after as before, the base in the frame, rounded once.
TrainingChangedIt ==
    Accepted =>
        LET contents == Contents(frame)
            last == Len(contents)
        IN IF kind = "full" THEN \E n \in DOMAIN contents[1] : contents[1][n] # contents[2][n]
           ELSE /\ \A n \in Adapters : contents[last][n] # contents[last - 1][n]
                /\ kind = "cuda" => \A s \in {frame.manifest.initial_state, frame.manifest.final_state} :
                     \A n \in base_names("cuda") :
                        IF n \in Clips THEN s.buffers[n] = contents[1][n]
                        ELSE s.frozen[n] # None /\ s.frozen[n] - contents[1][n] \in {-1, 0, 1} /\ s.frozen[n] % 2 = 0
=============================================================================
