--------------------------- MODULE VoiceAssistant ---------------------------
(***************************************************************************)
(* labs/voice-assistant.  A WebSocket connection: 10 ms chunks of audio    *)
(* are cut into utterances by an energy test and a count of silent chunks; *)
(* each utterance is transcribed, answered with the rolling history of the *)
(* conversation as prompt, and spoken sentence by sentence.  A chunk is    *)
(* its position in the stream and whether it is speech; a text is the      *)
(* utterance it came from and its length.                                  *)
(***************************************************************************)
EXTENDS Naturals, Sequences, SequencesExt, FiniteSetsExt

CONSTANTS VaMaxChunks,         \* bound: chunks a client sends
          VaSilence,           \* silent chunks that end an utterance
          VaMaxTurns,          \* of the history
          VaMaxSeq,            \* length of prompt the model takes
          VaTextLengths, VaSentences

VARIABLES vaHeard, vaBuffer,   \* all chunks received; those of the utterance
          vaStarted, vaSilent,
          vaUtterances,        \* the utterances completed
          vaHistory, vaSeen,   \* messages; what of the last prompt the model saw
          vaPhase,             \* receive, stt, llm, tts, send, closed
          vaAudio, vaSent      \* audio chunks to send; frames sent

vaVars == <<vaHeard, vaBuffer, vaStarted, vaSilent, vaUtterances, vaHistory, vaSeen,
            vaPhase, vaAudio, vaSent>>
vaBufferVars == <<vaHeard, vaBuffer, vaStarted, vaSilent, vaUtterances>>

VaInit ==
    /\ vaHeard = <<>> /\ vaBuffer = <<>> /\ vaStarted = FALSE /\ vaSilent = 0
    /\ vaUtterances = <<>> /\ vaHistory = <<>> /\ vaSeen = <<>>
    /\ vaPhase = "receive" /\ vaAudio = <<>> /\ vaSent = <<>>

\* Mutant: speech does not reset the count of silent chunks.
VaSilentAfterMutant(speech) == IF speech THEN vaSilent ELSE vaSilent + 1
VaSilentAfter(speech) == IF speech THEN 0 ELSE vaSilent + 1

\* AudioBuffer.feed: leading silence is dropped, the utterance ends with the
\* last of VaSilence silent chunks in a row, and the buffer starts anew.
VaFeed(speech) ==
    LET chunk == [at |-> Len(vaHeard) + 1, speech |-> speech]
        buffer == Append(vaBuffer, chunk)
        silent == VaSilentAfter(speech)
    IN  /\ vaPhase = "receive" /\ Len(vaHeard) < VaMaxChunks
        /\ vaHeard' = Append(vaHeard, chunk)
        /\ \/ /\ ~vaStarted /\ ~speech
              /\ UNCHANGED <<vaBuffer, vaStarted, vaSilent, vaUtterances, vaPhase>>
           \/ /\ ~vaStarted /\ speech
              /\ vaStarted' = TRUE /\ vaBuffer' = buffer /\ vaSilent' = 0
              /\ UNCHANGED <<vaUtterances, vaPhase>>
           \/ /\ vaStarted /\ silent < VaSilence
              /\ vaBuffer' = buffer /\ vaSilent' = silent
              /\ UNCHANGED <<vaStarted, vaUtterances, vaPhase>>
           \/ /\ vaStarted /\ silent >= VaSilence
              /\ vaUtterances' = Append(vaUtterances, buffer)
              /\ vaBuffer' = <<>> /\ vaStarted' = FALSE /\ vaSilent' = 0
              /\ vaPhase' = "stt"
        /\ UNCHANGED <<vaHistory, vaSeen, vaAudio, vaSent>>

-----------------------------------------------------------------------------
\* ConversationHistory.add
VaAdd(history, message) ==
    LET all == Append(history, message)
        excess == Len(all) - 2 * VaMaxTurns
    IN  IF Len(all) > 2 * VaMaxTurns THEN SubSeq(all, excess + 1, Len(all)) ELSE all

\* to_prompt: every message with its length, then the cue of the assistant.
VaPrompt(history) ==
    FlattenSeq([i \in DOMAIN history |->
                   [k \in 1..history[i].length |-> <<history[i].role, history[i].of>>]])
        \o << <<"cue", Len(vaUtterances)>> >>

\* generate_response, first half: the prompt is cut to its first VaMaxSeq bytes.
VaTranscribe ==
    /\ vaPhase = "stt"
    /\ \E n \in VaTextLengths :
          LET history == VaAdd(vaHistory, [role |-> "human", of |-> Len(vaUtterances), length |-> n])
              prompt == VaPrompt(history)
          IN  /\ vaHistory' = history
              /\ vaSeen' = SubSeq(prompt, 1, Min({VaMaxSeq, Len(prompt)}))
    /\ vaPhase' = "llm"
    /\ UNCHANGED <<vaBufferVars, vaAudio, vaSent>>

\* Second half: the answer; StreamingTTS makes one chunk of audio per sentence.
VaAnswer ==
    /\ vaPhase = "llm"
    /\ \E n \in VaTextLengths, sentences \in VaSentences :
          /\ vaHistory' = VaAdd(vaHistory, [role |-> "assistant", of |-> Len(vaUtterances),
                                            length |-> n])
          /\ vaAudio' = [i \in 1..sentences |-> <<"audio", Len(vaUtterances), i>>]
    /\ vaPhase' = "send"
    /\ UNCHANGED <<vaBufferVars, vaSeen, vaSent>>

\* Mutant: the summary is sent before the last chunk of audio.
VaSendMutant ==
    /\ vaPhase = "send"
    /\ \/ /\ Len(vaAudio) > 1
          /\ vaSent' = Append(vaSent, Head(vaAudio)) /\ vaAudio' = Tail(vaAudio)
          /\ UNCHANGED vaPhase
       \/ /\ Len(vaAudio) = 1
          /\ vaSent' = vaSent \o << <<"summary", Len(vaUtterances), 0>>, Head(vaAudio) >>
          /\ vaAudio' = <<>> /\ vaPhase' = "receive"
    /\ UNCHANGED <<vaBufferVars, vaHistory, vaSeen>>
\* voice_websocket: chunk after chunk of audio, then the summary.
VaSend ==
    /\ vaPhase = "send"
    /\ \/ /\ vaAudio # <<>>
          /\ vaSent' = Append(vaSent, Head(vaAudio)) /\ vaAudio' = Tail(vaAudio)
          /\ UNCHANGED vaPhase
       \/ /\ vaAudio = <<>>
          /\ vaSent' = Append(vaSent, <<"summary", Len(vaUtterances), 0>>)
          /\ vaPhase' = "receive" /\ UNCHANGED vaAudio
    /\ UNCHANGED <<vaBufferVars, vaHistory, vaSeen>>

\* A disconnect, seen while receiving or sending, or an exception of a stage.
VaClose == /\ vaPhase # "closed" /\ vaPhase' = "closed"
           /\ UNCHANGED <<vaBufferVars, vaHistory, vaSeen, vaAudio, vaSent>>

VaServe == VaTranscribe \/ VaAnswer \/ VaSend
VaNext == VaServe \/ VaClose \/ \E speech \in BOOLEAN : VaFeed(speech)

-----------------------------------------------------------------------------
VaTypeOK ==
    /\ vaPhase \in {"receive", "stt", "llm", "send", "closed"}
    /\ vaStarted <=> vaBuffer # <<>>
    /\ Len(vaHistory) <= 2 * VaMaxTurns

\* A cut of the stream into utterances, told from the whole stream: a range of
\* chunks that starts with speech and whose only VaSilence silent chunks in a row
\* are its last ones.
VaIsUtterance(a, b) ==
    /\ vaHeard[a].speech
    /\ \A i \in a..b : (\A k \in 0..VaSilence - 1 : i - k >= a /\ ~vaHeard[i - k].speech) <=> i = b

\* The utterances are consecutive ranges of the stream that the definition
\* above allows, with nothing but silence between them, and speech heard since
\* the last one is in the buffer.  (AudioBuffer.feed)
VaUtterancesRight ==
    /\ \A u \in DOMAIN vaUtterances :
          LET first == Head(vaUtterances[u]).at
              final == Last(vaUtterances[u]).at
          IN  vaUtterances[u] = SubSeq(vaHeard, first, final) /\ VaIsUtterance(first, final)
    /\ LET kept == FlattenSeq(vaUtterances) \o vaBuffer
       IN  /\ \A i, j \in DOMAIN kept : i < j => kept[i].at < kept[j].at
           /\ \A c \in ToSet(vaHeard) : c.speech => c \in ToSet(kept)

\* Between utterances the history is whole turns, the latest ones, in order,
\* however often it was trimmed.  (ConversationHistory.add)
VaWholeTurns ==
    vaPhase = "receive" =>
        LET turns == Len(vaHistory) \div 2
            answered == Len(vaUtterances)
        IN  /\ turns = (IF answered < VaMaxTurns THEN answered ELSE VaMaxTurns)
            /\ \A t \in 1..turns :
                  /\ vaHistory[2 * t - 1].role = "human" /\ vaHistory[2 * t].role = "assistant"
                  /\ vaHistory[2 * t - 1].of = answered - turns + t
                  /\ vaHistory[2 * t].of = answered - turns + t

\* The frames of the answers come utterance by utterance, the audio in order and
\* complete before the summary.  (voice_websocket)
VaAnswersInOrder ==
    \A i \in DOMAIN vaSent : i > 1 =>
        LET f == vaSent[i - 1]
            g == vaSent[i]
        IN  IF f[1] = "summary" THEN g[1] = "audio" /\ g[2] = f[2] + 1 /\ g[3] = 1
            ELSE g[2] = f[2] /\ (g[1] = "audio" => g[3] = f[3] + 1)

VaFaithful == VaUtterancesRight /\ VaWholeTurns /\ VaAnswersInOrder

\* An utterance is to be answered, unless the connection is lost.
VaOwed == vaPhase \notin {"receive", "closed"}
=============================================================================
