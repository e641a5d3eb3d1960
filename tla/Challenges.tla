----------------------------- MODULE Challenges -----------------------------
(***************************************************************************)
(* What transcript.rs is for: challenges that depend on all that was       *)
(* written, and the columns to open that are chosen with them.  The choice *)
(* takes samples from a stream and nothing else from the transcript, so    *)
(* that a behaviour is either of transcripts or of the choice.             *)
(***************************************************************************)
EXTENDS Transcript, ColumnSampling

VARIABLE choosing    \* whether the behaviour is of the choice of columns

challenges_vars == <<choosing, vars, sampling_vars>>

\* Samplers that have no more to draw.
NoSamplers ==
    /\ max = 1 /\ count = 0
    /\ list = [s \in Sampler |-> [k \in 0..0 |-> 0]]
    /\ i = [s \in Sampler |-> 0] /\ draws = [s \in Sampler |-> <<>>]

ChallengesInit ==
    \/ choosing = FALSE /\ Init /\ NoSamplers
    \/ /\ choosing = TRUE /\ SamplingInit
       /\ mode = "Normal" /\ fsprf = [p \in Party |-> NoStream]
       /\ seed = [p \in Party |-> begin_byte_array(0)]
       /\ log = [p \in Party |-> <<ByteMessage(<<>>)>>]
       /\ drawn = [p \in Party |-> <<>>] /\ challenges = [p \in Party |-> {}]

WriteOrDraw == ~choosing /\ Next /\ UNCHANGED <<choosing, sampling_vars>>
ChooseColumns == choosing /\ SamplingNext /\ UNCHANGED <<choosing, vars>>

ChallengesNext == WriteOrDraw \/ ChooseColumns

ChallengesSpec == ChallengesInit /\ [][ChallengesNext]_challenges_vars
=============================================================================
