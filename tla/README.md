# A verification project for Muhuri

Muhuri (`src/muhuri/`) is a library of delegation credentials: a principal
signs a link that delegates to an agent, the agent signs a further link that
narrows it, and a resource server, knowing only the principal's public key,
decides offline whether the holder may do what it asks.  This directory holds
TLA+ models of that library, the TLC runs that check them, and proofs checked
by TLAPS.

## 1. Inventory

| Part | Source | State | Operations | What makes it correct |
|---|---|---|---|---|
| Credential | `credential.py` | list of links (body, signature); its id hashes all link ids; nothing persisted | `mint`, `attenuate`, serialization, `from_string`/`from_bytes`/`from_sealed` | a chain made by the library verifies and only narrows; parsing fails closed |
| Chain verification | `verify.py:82` | locals of one call: `eff_nbf`, `eff_exp`, `eff_caveats` | `verify_chain` | only whole, unspliced, signed, unrevoked, rooted chains pass, with exactly their joint authority |
| Revocation | `revocation.py` | set of revoked link ids, grows | `revoke`, `is_revoked` | a revocation published before a call is never missed |
| Gate | `verify.py:133` | locals of one call; the store | `authorize` | one proof, one action; one approval, one action; consent behind every gate; nothing is burned by a stranger |
| Proof of possession | `pop.py:26` | - | `prove`, `check_pop` | bound to request, credential, nonce, second, audience |
| Nonce store | `pop.py:65` | set of used (scope, nonce) | `issue`, `consume` | True exactly once |
| Caveats | `caveats.py` | - | constructors, `make_approval`, `evaluate` | conjunction, fails closed on anything malformed |
| Keys | `keys.py` | LRU cache of verdicts on keys | `is_acceptable_key`, `verify_sig` | degenerate keys are refused before the library is asked |
| Encoding | `canonical.py` | - | `cenc`, `cdec`, `h256` | distinct contents, distinct messages |

Interaction.  `authorize` calls `verify_chain` (which calls `verify_sig` and
`is_revoked` for every link), `check_pop`, `consume`, `evaluate` and `consume`
again, in this order.  All state shared between calls is in two objects: the
revoker and the nonce store.  Links, proofs and approvals are messages: made by
anyone, copied, kept and presented in any combination and any number of times.

What is hard to test: lists put together from several chains; a deny-list that
grows during the loop; a clock read once at the start of a call whose nonces are
consumed later; two calls with the same proof or the same approvals; a store
that forgets; one of several consumptions failing; chains longer than the cap,
inverted windows, closed boundaries; degenerate keys.  `PROJECT.json` lists each
at its line.  What the library does not have: persistence, retries, messages
between its own processes; no hazard of these kinds is listed except the loss of
the in-memory store at a restart, which `NonceStore.tla` models.

## 2. Modules

The credential side and the gate side each have their own modules; `Muhuri`
composes them, `NonceStore`, `Caveats`, `Parse`, `Keys` and `Framing` model in
detail what the others take by its result.

| Module | Code | Proofs | Runs |
|---|---|---|---|
| `Credential` | `credential.py`: links, `mint`, `attenuate` | `VerifyChainProofs` | through `VerifyChain` |
| `VerifyChain` (extends `Credential`) | `verify_chain`, `RevocationSet` | `VerifyChainProofs` | `structure`, `lifecycle` |
| `Authorize` | `authorize`, `prove`, `check_pop`, `make_approval` | `AuthorizeProofs` | `gate`, `contention`, `retention` |
| `Muhuri` (extends `VerifyChain`) | `authorize` over a chain that was really walked | `MuhuriProofs` | `delegation` |
| `NonceStore`, `SingleUse` | `NonceStore` under threads and restarts; the ledger it implements | `NonceStoreProofs` | `store` |
| `Caveats` | `evaluate`, `_eval_one`, the constructors | `CaveatsProofs` | `caveats`, `malformed` |
| `Parse` | `parse`, `from_string`, `from_bytes`, `from_sealed`, serialization | `ParseProofs` | `wire` |
| `Keys` | `is_acceptable_key` | `KeysProofs` | `keys` |
| `Framing` | `h256` over concatenated parts: what is signed, what an id hashes | `FramingProofs` | `bytes` |

The `MC...` modules hold model values, inputs and lists for the runs, nothing
else.  Definitions marked "faulty variant" are plausible bugs, each placed before
the definition it would replace; nothing uses them.  Putting one in place of its
definition makes TLC find the property that `PROJECT.json` pairs it with violated.

**Credential.**  `links` is every link in circulation, a sequence whose index is
the link id; index 0 is `ZERO32`.  The abstraction says that ids do not collide
(each body holds 16 random bytes) and that a signature is the key it was made with
over exactly that body.  Actions: `MintStep`, `AttenuateStep` (each the whole
function, with the refusal of degenerate delegate keys and the holder check),
`ElsewhereStep` (links made by other software or damaged), `Tick`.  Histories:
`lineage`, the list of ids that a link's hashes commit to, and `lib`, the links
that `mint` and `attenuate` made.  Time does not run backwards, and makers and
verifiers read the same clock.

**VerifyChain.**  `Begin` is the call and the checks before the loop, `CheckLink`
one iteration, `CheckWindow` the checks after it, `Return` the end.  Anything can
happen between two of these: a link is made, a second passes, a link is revoked.
`Valid(c, t, deny)` states validity of a whole list at once and shares no
definition with the loop; `VerdictSound` relates the two.  The `VerifyError`
messages are dropped; the order of the checks is not observable apart from them.
`max_depth` is an argument of the call, from `GivenDepth`; `MAX_DEPTH` bounds it.
`revoker=None` (AllowAll) is a run without revocations.  An empty `trusted_roots`,
a configuration error, is excluded by `VerifierAssumption`.

**Authorize.**  Concurrent calls at several servers.  Each member of `Call` is one
invocation and stops in "authorized" or "rejected", so its final state is its
history.  Steps: `Begin` (the clock, or the explicit `at` of the caller, from
`GivenAt`; the store contract), `VerifyChain` (by its result,
the window of `Decision`), `CheckPop`, `ConsumePop`, `Evaluate`, `ConsumeApproval`
(one turn of the loop over `dict.fromkeys`), `Authorized`.  A proof or approval
whose fields were altered after signing is one that nobody signed (`NoKey`).  The
plain caveats are the set `allow` of admitted requests.  `consume` is one step,
which is what `NonceStore` asks of the cache behind it; `Evict` is that cache
forgetting a nonce `Retention` seconds after it was consumed, `Retention = Forever`
the in-repo set, the only one for which explicit instants are admitted: no store
that forgets is safe against a caller that sets the clock back.  A server has a
store, the opt-out, or an object of another type.  A signature is on the fields of
a proof or an approval, label included; for approvals this rests on nonces of the
signed length (`Framing`, and the observation on `caveats.py:179`).

**Muhuri.**  The library as a whole: `Credential` makes links, `VerifyChain` walks
the presented list, and the gate then acts on that very list, asking it again for
its id and its holder while the deny-list goes on growing.  A credential's id is
the list of its link ids (`muhuri_id()` hashes all of them), and a proof or an
approval may name any list, also of links not made yet.  One server makes one call
after another; concurrency, seconds, audiences and expiries are in `Authorize`.
Signatures are on fields, as in `Authorize`.  The histories `acted` and `taken`
keep, with the deny-list and the second of the
call's beginning, what was authorized and which nonces were taken.

**NonceStore, SingleUse.**  `consume` is two set operations, `LookUp` and `Add`.
With `Gil`, no other thread runs between the two (CPython gives the interpreter up
at jumps back, function entries and after calls; there is none between the look-up
and the addition); without it, one may.  `Restart` stops all threads anywhere,
empties a set that is not `Durable`, and drops the challenges, which the program
around the library keeps in memory.  `SingleUse` is the abstract ledger: every
question decided in one instant, one "yes" for a token; `ImplementsLedger` is the
refinement.

**Caveats.**  `evaluate` turn by turn over values of every Python type that a CBOR
map can hold, with numbers rounded and overflowing as floats do (at a precision of
a few bits), and with texts and bytes that spell numbers, as `float` and `int`
read both.  The outcome is a list of nonces or the exception that is raised.
What a call may bring is bounded by its types only (`InputAssumption`): numbers are
whole, a list is a list.  `pow2` is a recursive function and not `^`, of which the
prover knows nothing.

**Parse.**  Bytes are a length and what decoding finds there; a text adds prefix,
base64 characters, padding of its own, characters the decoder drops, and whether
all of it is ASCII.  `FromSealed` derives what each read of a link's map ends in
from the checks in front of it: a missing field that is read is a KeyError, a
number looped over a TypeError.  `VerifyEncodes` is the encoding that
`verify_chain` makes again of what was parsed, `PassOn` a holder that writes what
it parsed for another reader.  What the library writes is a non-empty list of links with the required fields (`MadeAssumption`);
what others present is a text, bytes or another object (`ForeignAssumption`).

**Keys.**  The code's own arithmetic (decoding, eightfold doubling in extended
coordinates, comparison with the identity) over a small prime of the same class,
on a curve of 8 times a prime points.  A key is the number its bytes spell, with a
sign bit above `Bits` bits; `RootOfMinusOne` is the code's `pow(2, (p - 1) // 4, p)`.
The reference is the group point by point: `Plus` is the addition on the affine
curve, `Times` is repeated addition, and neither knows of extended coordinates.

**Framing.**  Messages are the bytes that are hashed: domain, id, encodings, nonce,
stamp, audience, concatenated with no lengths.  `cenc` is external and used only
as an encoding that tells where it ends.  Signers sign nonces of `Drawn`; verifiers
hold nonces of any length (`Nonce`), as nothing in the code looks at it.

## 3. Runs

| Run | What it asks | Bounds, and why they are enough |
|---|---|---|
| `structure` | Is anything but a whole lineage accepted, or a hop nobody accountable signed? | 3 links, 2 sound keys and a degenerate one, a foreign version, lists up to 4: every mismatch of neighbours needs two links, a third gives the rest something to belong to, and 4 is one over the cap |
| `lifecycle` | Is the Decision exact, is a verdict sound while the deny-list grows, are library chains only narrowed and only refused with reason, the cap at its exact place among the reasons? | 2 links, seconds 0..2, windows that open early, late, invert or pass the initial bound (`Far = 2`), explicit `at` of -1 and 9, a `max_depth` of 1 or 2 (so that two links are at the cap or one over it), 1 revocation anywhere |
| `gate` | Can a nonce be burned by a stranger, or a gate be passed on an approval of something else? | 1 call, a server with a store and a misconfigured one, 2 credentials, 2 requests, 2 labels, 1 proof, 2 approvals of anyone: one to consent and one to mislead, judged at second 0 or 2 with an expiry between |
| `contention` | Does each approval serve once; is a call that loses one behind another; is what was spent followed by an action? | 2 calls, 3 approvals, 3 gates of which 2 are identical: two calls can hold the same approvals in opposite orders, and the first can lose its second gate to the other |
| `retention` | Is the shortest admitted retention enough? | skew 1, ttl 2, calls of 1 s, retention 4, seconds 0..5 (a nonce taken at the first second, 1, is forgotten at 5), a chain open 1..3, 2 calls, a server that opted out |
| `store` | Is the two-step set the ledger, restarts included? | 2 threads, 2 challenges, an approval nonce of the same bytes, 2 restarts |
| `caveats` | Is anything read as weaker than written; are the nonces those of consent? | floats of 3 bits and amounts -17..17, across rounding and overflow; each caveat with each field missing or of each other type; falsy values and others for the list of approvals; pairs of approvals |
| `malformed` | Does `evaluate` raise CaveatError only? (it does not) | malformed caveats, amounts across the range of a float, pairs of approvals genuine or with an infinite expiry |
| `wire` | Is what is written read back; does no read of a presented field raise what `parse` does not catch? | depth cap 3 and byte cap 52 with links of 17 bytes: lists reach both caps and one link over; one thing wrong at a time |
| `keys` | Are exactly the right keys accepted? | all 128 numbers over the field of 61, where 61 = 2^6 - 3 leaves numbers that are no canonical y, and 56 = 8 * 7 points |
| `bytes` | Can one signature serve two purposes? | bytes 0 and 1, values of up to one byte behind their length, nonces of one byte or two, audiences of up to one, 2 signatures |
| `delegation` | Was every authorized action delegated, every bit of it, whatever was presented and revoked? | 2 links, 2 keys, a forbidding caveat and a gate, 1 proof and 1 approval naming the first link or both, lists up to 3, 1 revocation anywhere |

Every bound is a constant named `Max...`, or the size of a set, and is a guard of
the action it bounds.  Calls are interchangeable, so `retention` uses
symmetry over `Call`; `contention`, the run with liveness, uses none.
`Authorize` checks deadlock, `Finished` being the end of a run.

Fairness.  Only `contention` needs it: while calls run, one of them takes a step
(which one is open), because `authorize` is plain sequential code with no wait in
it.  Nothing is assumed of callers, of time or of the store's eviction.

### What the runs say beyond "no error"

* Retention.  An expiring store is safe when it keeps a nonce longer than
  `2 * max_skew` plus the longest call (a proof is accepted from `ts - max_skew` to
  `ts + max_skew`, and the call that judged it may consume late), and longer than
  the approval's ttl plus the longest call (`RetentionAssumption`).  `retention`
  runs at the least such value and fails when the store forgets one second
  earlier.  `AUDIT.md:78` names the lifetime alone.
* Several servers.  Two servers of one audience with separate stores admit one use
  of a proof each; `PopOnce` says so, and the library cannot do more.
* Restarts.  A restart makes approval nonces new again with the in-repo set, once
  per life of the set; challenges stay single-use, because a restarted server
  expects none of its old ones.  A program that kept its challenges over the
  restart but not the set would lose this (the faulty variant `KeepChallenges`).

* Two actions.  `PopOnce` and `ApprovalOnce` also say that two calls on one proof or
  approval are for one action.  Their runs have a single action, so this half is
  not exercised by them; it follows from what `gate` checks of each call
  (`BurnJustified`, `Consented`), and the theorems prove it.

### Findings

All three are violations of `RefusalIsCaveatError` in `malformed`.  TLC prints the
first one that it meets, the TypeError; each of the other two is found as well
when `MalformedInputs` is reduced to the inputs it needs.  `authorize` makes a
VerifyError of all three (`verify.py:187`); a caller of `evaluate` itself gets the
exception.

* `caveats.py:137`, `:156`: a list or a map as `field` raises TypeError, where
  `caveats.py:105` promises CaveatError.
* `caveats.py:140`: an integer amount beyond the range of a float raises
  OverflowError, which line 141 does not catch, where `caveats.py:203` promises
  CaveatError.
* `caveats.py:174`: an approval with an infinite expiry raises OverflowError, which
  line 175 does not catch, where `caveats.py:172` says it is skipped; a genuine
  approval behind it is not looked at.  `ConsentFound` states what holds with these
  approvals left out.

### Observations that no run records

* `caveats.py:179`: the nonce of a presented approval may have any length, and the
  message concatenates nonce, expiry and encoded label without lengths.  Bytes of
  expiry and label can be given to the nonce, and the signature then stands for
  another label, where `caveats.py:76` says that it cannot.  `Authentic` states what
  is bound whatever the lengths: kind, link, credential and request, for a proof as
  for an approval; and everything, where the nonce has the length that was signed.
* `pop.py:90`: in a build without the interpreter lock (`Gil = FALSE`), two threads
  can both find a nonce new, where `pop.py:70` says "True the first time".
* `verify.py:112`: a value that refers to itself is read by the decoder and refused
  by the encoder, whose exception leaves `authorize` outside any `try` (stage
  "EncodeError" of `Parse`), where `verify.py:144` promises VerifyError.  Which values
  these are is a matter of the CBOR library.
* `float()` rounds an integer amount from 2^53 on before it is compared, so an
  amount just above such a limit passes; `tests/test_properties.py:74` has
  amounts far below.  `CapHolds` is stated for the limits below the rounding, on
  either side of zero: for a limit of -(2^53 + 4) an amount one above it would
  pass as well.
* `keys.py:128` says "full prime order"; a point of the prime subgroup plus a
  torsion point is accepted too, as its eightfold is not the identity.
  `AcceptsExactly` states what is accepted.
* A call that loses an approval to another may have spent one of its own for
  nothing; what holds is that a call for the same action is served in the end
  (`ContestedServed`, `SpentServes`).

## 4. Only model-checked

* Liveness (`SpentServes`): fairness and ENABLED are beyond the prover.
* `RefusalIsCaveatError` is false, as the findings say.

## 5. Theorems

For every set of keys, caveats, calls, servers, gates and approvals, every number
of links and every `max_depth`:

* **Credential** (in `VerifyChainProofs`).  `Typing`, `Narrowing`.  The invariant `CredInv` adds to the
  typing what a lineage is (`LineageInv`: the parent's lineage, then the link
  itself, over older ids only).  A new link never joins the lineage of an old one,
  so only the new link has to be looked at: a root has nobody above it,
  `attenuate`'s max and min put the child inside its parent, whose lineage already
  narrows, and a link made elsewhere is not a library link.
* **VerifyChain.**  `VTyping`, `NoSplice`, `Accountability`, `ExactDecision` follow
  from the loop invariant `Walked(i - 1)` of `VInv`: the first `i - 1` links passed
  their checks, are the lineage of the last of them, and the accumulators are exact
  for them.  Other actors cannot disturb it (`OthersKeep`): links are never changed
  and the deny-list only grows.  `SoundVerdict` adds that a refused list stays
  invalid (`Refused`), because neither more links nor more revocations can make it
  valid.  `AcceptsOwn` shows of a library chain (`Made`: how it was minted and
  attenuated) that every check passes but the four that its maker cannot know.
* **Authorize.**  `Typing`, `OneProofOneAction`, `OneApprovalOneAction`, `Consent`,
  `JustifiedBurns`, `NoFalseReplay`.  Single use rests on one argument, made for
  proofs and for approvals: a call that consumed a nonce either still finds it in
  its server's store or is stale, the clock having passed its `at` by the
  retention (`HeldFor`).  A second call about to consume the nonce judged the same
  proof, or leans on the same approval, so its own `at` is at most `2 * max_skew`,
  or the ttl, later, and it has run for at most `MaxCall`; then the first cannot
  be stale, and the second finds the nonce.

  `Consent` compares what was signed with the call: credential, request and the
  gate's label, under the gate's own approver.

  `Contention` says that a call refused for a used approval is behind another for
  the same action.  Its invariant (`Contest`, checked on `contention` and `gate`
  before it was proved): calls consume in the order of the chain's gates, so every
  consumed approval nonce stands for a gate that some call has passed
  (`Consumers`), and a call that lost is behind a call that is discharging or lost
  too (`Blocked`).  Who is furthest among those for one action cannot have lost, so
  it is consuming or authorized.  The step that needs care is a refusal: the
  nonce found in the store belongs to the same gate of the same chain or to an
  identical one, because `evaluate` took the first approval that fits and the loop
  is over distinct nonces.  The hypothesis is `ApproversFaithful`: the key of a gate
  signs approvals in `make_approval` only, where the nonce is drawn at random.
  Without it an approver could sign two approvals under one nonce for two actions,
  and a call for one would take the other's.
* **NonceStore.**  `Typing` for any threads; under `Gil`, `SpendingOnce`,
  `RefusingSpent` and `Implementation` (every step is a step of `SingleUse`, or
  none).  The invariant: at most one thread is about to add, and what it adds is
  not in the set (`OneAdder`); whoever asks for a challenge asks for one that is
  expected (`AsksExpected`); what was granted and can be asked for again is known
  (`GrantedKnown`).
* **Framing.**  `MessageSays`, `ServesItsPurpose`, `LinkIdInjective`, for nonces of
  any length.  Two equal messages have the same domain, as none begins another;
  then the parts are taken off from the left: ids by their width, encodings because
  they tell where they end.  What is left behind the request is one run of bytes, and
  is split alike only where the two nonces are of one length; `SameMeaning` says so.
* **Keys.**  `Typing`, `Doubling`, `Acceptance`, for every prime `P` with
  `P % 8 = 5` and every `D` without a root modulo it, 2^255 - 19 and the code's `_D`
  among them.  That the curve has 8 times a prime points (`OrderAssumption`) is never
  used.  The proof is in five parts.
  - *Arithmetic.*  Congruence modulo `P`; `Pow` obeys the laws of exponents (by
    `Induction`, stated for sets: the library's induction theorem takes an operator);
    a prime divides no product of what it does not divide (`NoZeroDivisors`).
  - *`Fermat`.*  The powers of `a` return after `order` steps, and `1..(P - 1)`, closed
    under multiplication by `a`, falls into classes of that many.  So `pow(b, P - 2, P)`
    is an inverse and `Div` a quotient.
  - *Roots.*  If -1 were no square, all squares but 1 would pair off with their
    inverses, and their number, (P - 1)/2, is even; so -1 has a root `i`, 2 is
    `-i(1 + i)^2`, and `pow(2, (P - 1) // 4, P)` is a root of -1
    (`RootOfMinusOneSquared`).  Then one of the code's two candidates is a root
    whenever there is one (`RootFound`), and decoding finds a point exactly for the
    canonical encodings of points (`DecodedIsEncoded`, `EncodedIsDecoded`).
  - *Group.*  With `D` also `-D` has no root, so no denominator is 0, in `Double`
    (`Denominators`) or in `Plus` (`Complete`).  A sum is on the curve (`SumEquation`),
    `Double` is `Plus` of a point with itself (`DoubleDoubles`), and
    `q + (q + r) = (q + q) + r` (`PlusTwice`, by the polynomial identity `Law`), which
    makes the doublings the multiples 2, 4 and 8 (`NextMultiple`).
  - *Invariant.*  `AcceptsExactly` speaks of a point only at the end.  `KInv` says of
    the one held in between that it stands for the `2^doubled`-fold of the point that
    `pub` encodes (`StandsFor`), and of a refusal which reason it had (`Reason`).  It
    was checked on small curves before it was proved.
* **Parse.**  `Typing`, `ReadBack`, `FailsClosed`, for any caps, link
  lengths and presented values.  What is written passes the checks of length and
  alphabet (`TextFits`, `PaddingFits`: base64 is at most four characters for three
  bytes, and the padding put back is the padding left out), and each link written
  passes `from_sealed` and comes out as it was (`LinkReadBack`); the invariant adds
  that the links read are the links of the list, one by one, up to where the loop
  is (`Prefix`), and that for a credential the library wrote they are its own
  (`Faithful`).
* **Caveats.**  `Typing`, `Completeness`, `Caps`, `NoncesOfConsent`, `Consent`, for any
  lists of caveats and approvals and any precision.  The loop invariant: every
  caveat before `i` evaluated to "ok" (`Passed`), and `used` holds, in the order of
  the gates before `i`, the nonce of the first approval accepted for each
  (`Noted`).  `Completeness` is then a lemma about one caveat (`EveryPartCounts`).
  `Caps` needs how `float()` rounds: an integer with digits for it is kept, any
  other stays outside their range (`NearestKeeps`, from the size of the unit in the
  last place, `UlpFits`), so no amount is carried across a limit with digits for
  it.  The attempt to prove it for limits stated without their sign failed, for
  the reason among the observations above.
* **Muhuri.**  `MTyping`, `Delegation` and `DelegatedTaking`.  The gate's steps leave
  the chain's variables alone, so the invariants of `VerifyChain` hold of the chain
  the gate acts on; past `check_pop` the proof verified (`Proved`), past `evaluate`
  every caveat of the Decision is met (`Agreed`), and an entry of a history stays
  true because links and approvals are never changed.

They assume what the `ASSUME`s of the modules say, which the runs evaluate: good
keys are not degenerate and windows are integers, at least one root, the retention
above, ids and stamps of one width each, domains that do not begin one another, encodings
that tell where they end, values that hold what their type says (`InputAssumption`, `MadeAssumption`,
`ForeignAssumption`), a prime of the class of 2^255 - 19 and a `D` without a root.  `Contention` alone has
a hypothesis of its own.  And they assume the abstraction: link
ids do not collide, a signature is the key and exactly what it was made over, time
does not run backwards.  How far the bytes of a message say what was meant is the part of
this which `Framing` proves; for the label, the expiry and the nonce of an approval
it holds where the nonce has the length that was signed.

## 6. Not modelled

* `demo.py` and `muhuri-demo.html` show the library and keep no state of their own.
* `tools/gen_vectors.py`, `tests/` and CI are evidence of what the code promises,
  not behaviour; the properties were written with them at hand.
* Of `keys.py`: `KeyPair` wraps the signature library, and the `lru_cache` repeats
  verdicts of a pure function, so it cannot be stale.
* `size_report` is a report; `meta` is signed and never read.
* The CBOR and Ed25519 libraries, but for the behaviour the code relies on.
