----------------------------- MODULE IotDevice -----------------------------
(***************************************************************************)
(* main.c of "HTTP multithread client to send and receive data" and        *)
(* httpClient.c of "... to send data": three threads on a Raspberry Pi.    *)
(* One reads a button into buttonState, one posts buttonState to a server  *)
(* every 15 seconds, one blinks an LED.  main.c takes the LED's delay from *)
(* the answer; httpClient.c prints the answer of httpServer.php.           *)
(*                                                                         *)
(* The network and the server come and go: a post may get no answer within *)
(* the 10 seconds curl allows it, and may still reach the server later,    *)
(* behind a newer one.  The answer's digits are copied into an array of 16 *)
(* characters that is neither cleared nor terminated, so that atoi goes on *)
(* with whatever digits an earlier answer left behind them, beyond what    *)
(* fits an int and behind the array's end, and a longer answer is copied   *)
(* over the array's end.  httpServer.php makes one or two rows of a post,  *)
(* in statements of their own, so that the rows of a late post can come    *)
(* between those of another.  Frame and serial number only label a post    *)
(* and are left out.                                                       *)
(***************************************************************************)
EXTENDS Naturals, Sequences, SequencesExt

CONSTANTS
  Commands,     \* what the dashboard stores as Command, as sequences of digits
  StaleDigits   \* with how many digits the uninitialised temp may begin

ASSUME CommandsAssumption == Commands \subseteq Seq(0 .. 9) /\ <<>> \in Commands
ASSUME StaleDigitsAssumption == StaleDigits \subseteq 0 .. 16

VARIABLES
  program,      \* "main" or "httpClient"
  known,        \* device_status has a row for the device's serial number
  button,       \* the level of the pin that is read
  buttonState,
  curl,         \* func_thread_curl: "sleep", or in curl_easy_perform: "perform",
                \*   "answered" (by the server), "lost" (no answer will come);
                \*   or "overrun": it wrote behind temp, and whatever follows is
                \*   undefined
  message,      \* the button state in the post
  response,     \* the Command in the answer
  temp,         \* the digits that temp begins with
  delay_value,  \* as the digits atoi read, or Undetermined
  blinking,     \* the delay that the LED's last change is followed by
  online,       \* the server answers within curl's timeout
  left,         \* rows that the server has yet to make of the post
  late,         \* posts that curl gave up, with the rows the server may yet make
  data, command \* the device's row, for httpServer.php the DATA of the newest

curlVars == <<curl, message, response, temp, delay_value>>
serverVars == <<online, left, late, data, command>>
vars == <<program, known, button, buttonState, curlVars, blinking, serverVars>>

Digits == 0 .. 9
TempSize == 16
\* delay(1000) of httpClient.c.
ConstantDelay == <<1, 0, 0, 0>>
\* The rows that become of a post: get_post.php has one per device, httpServer.php
\* inserts one, and another if it finds no status.  If it finds one the malformed
\* UPDATE throws; nobody ever writes device_status.
Rows == IF program = "main" \/ known THEN 1 ELSE 2
Positive(digits) == \E i \in DOMAIN digits : digits[i] # 0
\* 2^31 - 1.
IntMax == <<2, 1, 4, 7, 4, 8, 3, 6, 4, 7>>
\* The digits without leading zeros.
Number(digits) ==
  IF Positive(digits) THEN SubSeq(digits, SelectInSeq(digits, LAMBDA d : d # 0), Len(digits))
                      ELSE <<>>
AtMost(m, n) == m = n \/ \E i \in DOMAIN n : m[i] < n[i] /\ SubSeq(m, 1, i - 1) = SubSeq(n, 1, i - 1)
\* The digits end in the array, and what they say fits an int.
Fits(digits) ==
  /\ Len(digits) < TempSize
  /\ LET n == Number(digits)
     IN Len(n) < Len(IntMax) \/ (Len(n) = Len(IntMax) /\ AtMost(n, IntMax))
\* What atoi may make of the delay: only a positive number is taken over.  Of digits
\* that go on behind the array, or do not fit, it makes INT_MAX or anything else,
\* depending on what follows and on the width of long.
Undetermined == <<10>>
Atoi(digits) ==
  IF ~Fits(digits) THEN {delay_value, Undetermined}
  ELSE IF Positive(digits) THEN {digits} ELSE {delay_value}

TypeOK ==
  /\ program \in {"main", "httpClient"} /\ {online, known} \subseteq BOOLEAN
  /\ {button, buttonState, message, data} \subseteq {0, 1}
  /\ left \in 0 .. 2 /\ late \subseteq {0, 1} \X (1 .. 2)
  /\ curl \in {"sleep", "perform", "answered", "lost", "overrun"}
  /\ {response, command} \subseteq Commands
  /\ temp \in Seq(Digits) /\ Len(temp) <= TempSize
  /\ \A d \in {delay_value, blinking} :
       d = Undetermined \/ (d \in Seq(Digits) /\ Len(d) < TempSize)

\* delay_value starts as 0; temp with whatever the stack held.  Digits are the
\* worst, and 9 stands for them; those behind another character, which show only
\* when an answer is copied over it, are left out.
Init ==
  /\ program \in {"main", "httpClient"} /\ known \in BOOLEAN
  /\ button \in {0, 1} /\ buttonState = 0
  /\ curl = "sleep" /\ message = 0 /\ response = <<>>
  /\ temp \in {[i \in 1 .. n |-> 9] : n \in StaleDigits}
  /\ delay_value = <<0>> /\ blinking = <<0>>
  /\ online = TRUE /\ left = 0 /\ late = {} /\ data = 0 /\ command = <<>>

-----------------------------------------------------------------------------
FuncThreadButton ==
  /\ buttonState' = button
  /\ UNCHANGED <<program, known, button, curlVars, blinking, serverVars>>

\* digitalWrite, and delay(delay_value).
FuncThreadBlink ==
  /\ blinking' = IF program = "main" THEN delay_value ELSE ConstantDelay
  /\ UNCHANGED <<program, known, button, buttonState, curlVars, serverVars>>

\* snprintf and the start of curl_easy_perform.
Post ==
  /\ curl = "sleep"
  /\ curl' = "perform" /\ message' = buttonState /\ left' = Rows
  /\ UNCHANGED <<program, known, button, buttonState, response, temp, delay_value, blinking,
                 online, late, data, command>>

\* Mutant: without CURLOPT_TIMEOUT only a refused connection is an error.
CurlFailsUntimed ==
  /\ curl = "perform" /\ ~online
  /\ curl' = "sleep" /\ response' = <<>>
  /\ UNCHANGED <<program, known, button, buttonState, message, temp, delay_value, blinking, serverVars>>

\* No connection, or no answer in time: the thread prints the error and goes
\* to sleep.
CurlFails ==
  /\ curl = "lost" \/ (curl = "perform" /\ ~online)
  /\ curl' = "sleep" /\ response' = <<>>
  /\ UNCHANGED <<program, known, button, buttonState, message, temp, delay_value, blinking, serverVars>>

\* Mutant: the copy begins one character late.
CopiedLate ==
  IF response = <<>> THEN temp ELSE Tail(response) \o SubSeq(temp, Len(response), Len(temp))

\* What the answer's characters make of temp: it stays where it is on the
\* stack of the thread, and nothing else writes to it.
Copied == response \o SubSeq(temp, Len(response) + 1, Len(temp))

\* The answer is copied into temp and parsed.
Parse ==
  /\ program = "main" /\ curl = "answered" /\ Len(response) <= TempSize
  /\ curl' = "sleep" /\ response' = <<>>
  /\ temp' = Copied
  /\ delay_value' \in Atoi(temp')
  /\ UNCHANGED <<program, known, button, buttonState, message, blinking, serverVars>>

\* The copy is not bounded: a longer Command overwrites what lies behind temp.
ParseOverruns ==
  /\ program = "main" /\ curl = "answered" /\ Len(response) > TempSize
  /\ curl' = "overrun" /\ response' = <<>>
  /\ UNCHANGED <<program, known, button, buttonState, message, temp, delay_value, blinking,
                 serverVars>>

\* httpClient.c prints the answer and that it has finished sending.
FinishSending ==
  /\ program = "httpClient" /\ curl = "answered"
  /\ curl' = "sleep" /\ response' = <<>>
  /\ UNCHANGED <<program, known, button, buttonState, message, temp, delay_value, blinking,
                 serverVars>>

-----------------------------------------------------------------------------
(***************************************************************************)
(* The world: the server, the dashboard, the network and the button.       *)
(***************************************************************************)
\* One statement that stores the post; the answer, get_post.php's with the row's
\* Command, comes after the last.
GetPost ==
  /\ curl = "perform" /\ online
  /\ IF left = 0 THEN UNCHANGED <<left, data>> ELSE left' = left - 1 /\ data' = message
  /\ IF left' = 0 THEN curl' = "answered" /\ response' = command
                  ELSE UNCHANGED <<curl, response>>
  /\ UNCHANGED <<program, known, button, buttonState, message, temp, delay_value, blinking,
                 online, late, command>>

\* The post or its answer gets lost on the way, or the database throws; a lost
\* post may turn up later, and one that the server has begun may go on.
ConnectionLost ==
  /\ curl \in {"perform", "answered"} /\ ~online
  /\ curl' = "lost" /\ response' = <<>> /\ left' = 0
  /\ late' \in IF left > 0 THEN {late, late \cup {<<message, left>>}} ELSE {late}
  /\ UNCHANGED <<program, known, button, buttonState, message, temp, delay_value, blinking,
                 online, data, command>>

LatePost ==
  /\ online
  /\ \E post \in late :
       /\ late' = (late \ {post}) \cup IF post[2] = 1 THEN {} ELSE {<<post[1], post[2] - 1>>}
       /\ data' \in {post[1], data}
  /\ UNCHANGED <<program, known, button, buttonState, curlVars, blinking, online, left, command>>

SetCommand ==
  /\ command' \in Commands \ {<<>>}
  /\ UNCHANGED <<program, known, button, buttonState, curlVars, blinking, online, left, late, data>>

ServerComesOrGoes ==
  /\ online' = ~online
  /\ UNCHANGED <<program, known, button, buttonState, curlVars, blinking, left, late, data, command>>

PressOrRelease ==
  /\ button' = 1 - button
  /\ UNCHANGED <<program, known, buttonState, curlVars, blinking, serverVars>>

CurlThread == Post \/ CurlFails \/ Parse \/ ParseOverruns \/ FinishSending

Next ==
  \/ FuncThreadButton \/ FuncThreadBlink \/ CurlThread
  \/ GetPost \/ ConnectionLost \/ LatePost \/ SetCommand \/ ServerComesOrGoes \/ PressOrRelease

\* The three threads run, and a server that is there answers.
Spec ==
  /\ Init /\ [][Next]_vars
  /\ WF_vars(FuncThreadButton) /\ WF_vars(FuncThreadBlink)
  /\ WF_vars(CurlThread) /\ WF_vars(GetPost) /\ WF_vars(LatePost)

-----------------------------------------------------------------------------
(***************************************************************************)
(* Properties.                                                             *)
(***************************************************************************)
\* Once the server stays up, a button that is held, or left alone, ends up in
\* the database for good, however many posts were lost or arrive late.  (Nothing
\* is claimed of a program that has written behind temp.)
ButtonReachesDatabase ==
  \A b \in {0, 1} : <>[](online /\ button = b /\ curl # "overrun") => <>[](data = b)

\* Once the server stays up, a positive Command that stays reaches the LED: it
\* blinks with a delay that begins with the Command's digits, provided that these,
\* with the digits that temp still has behind them, end in temp and fit an int, and
\* that no Command was ever longer than temp.
CommandReachesLed ==
  \A c \in {d \in Commands : Positive(d)} :
    <>[](program = "main" /\ online /\ command = c /\ curl # "overrun" /\ Fits(temp))
       => <>[]IsPrefix(c, blinking)

\* "Delay for blink": the delay taken from an answer is the one that was sent.
DelayIsCommand ==
  [][program = "main" /\ curl = "answered" /\ curl' = "sleep" /\ Positive(response)
       => delay_value' = response]_vars
=============================================================================
