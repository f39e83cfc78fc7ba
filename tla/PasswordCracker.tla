--------------------------- MODULE PasswordCracker ---------------------------
(***************************************************************************)
(* src/threadpool/src/password_cracker.c: main reads sha512-crypt hashes   *)
(* from stdin, starts a pool of NUM_THREADS workers, and for every         *)
(* dictionary word, every digit and every num_pos from -1 to               *)
(* word_length - 1 forms a candidate with form_word and adds one           *)
(* hashes_match job per hash; thread_pool_finish then enqueues one NULL    *)
(* per worker and joins them.  A worker's hashes_match prints the          *)
(* candidate when its crypt matches the hash.                              *)
(*                                                                         *)
(* A C string is the sequence of its characters before the first NUL.     *)
(* malloc does not clear memory, so the string a fresh buffer already      *)
(* holds (the characters before its first zero byte) is chosen from        *)
(* FreshStrings; << >> is a buffer whose first byte happens to be zero.   *)
(* A hash line is the password it is the crypt of: crypt_r of a candidate *)
(* matches it exactly when the candidate is that password.                *)
(*                                                                         *)
(* The pool's queue is the FIFO of QueueSpec, which the pool run shows     *)
(* queue.c implements; a worker blocked on an empty queue is a worker      *)
(* whose dequeue step is not enabled.                                      *)
(***************************************************************************)
EXTENDS Integers, Sequences, FiniteSets, Bags

CONSTANTS
    Dictionaries,  \* the DICTIONARY arrays the program may be built with
    Digits,        \* the `num` characters of j = 48 .. 57, in order
    FreshStrings,  \* what strcat can find in a fresh malloc'd buffer
    Inputs,        \* what stdin may hold: sequences of lines
    NUM_THREADS,   \* workers of the pool
    NULL           \* the poison value thread_pool_finish enqueues

VARIABLES
    dict,       \* DICTIONARY
    input,      \* the lines on stdin
    line,       \* the index of the next line getline reads
    hashes,     \* hashes[0 .. hash_count - 1]
    phase,      \* "read", "crack", "finish", "done", or "abort" (assert)
    wi, di,     \* the indices i (word) and j (digit) of main's loops
    numPos,     \* num_pos of the loop in main
    k,          \* k of the innermost loop over the hashes
    password,   \* the string form_word returned last
    tried,      \* every password handed to the workers so far
    queue,      \* the pool's work queue
    pills,      \* NULLs thread_pool_finish has enqueued
    joined,     \* workers thread_pool_finish has joined, in order
    wpc,        \* where each worker is in thread_execute
    work,       \* each worker's current hashpass
    out         \* the passwords printed, as a bag

vars == <<dict, input, line, hashes, phase, wi, di, numPos, k, password, tried,
          queue, pills, joined, wpc, work, out>>

Workers == 1 .. NUM_THREADS
Range(f) == {f[x] : x \in DOMAIN f}
word == dict[wi]
digit == Digits[di]

-----------------------------------------------------------------------------
(* form_word                                                               *)

\* Variant with a bug: the loop starts at 0.
FirstPosZero == 0

\* The first num_pos main tries: the digit goes before the word.
FirstPos == -1

\* Variant with a bug: <= for <.
AddsBeforeOffByOne(pos, i) == pos <= i

\* form_word inserts the digit before letter i once num_pos < i.
AddsBefore(pos, i) == pos < i

\* The for loop of form_word from letter i on, over the string built so
\* far (acc) and num_added; after it, the digit is appended if not yet added.
RECURSIVE FormLoop(_, _, _, _, _, _)
FormLoop(pos, num, w, i, acc, added) ==
    IF i = Len(w) THEN IF added THEN acc ELSE acc \o <<num>>
    ELSE LET put == AddsBefore(pos, i) /\ ~added
             acc1 == IF put THEN acc \o <<num>> ELSE acc
         IN FormLoop(pos, num, w, i + 1, acc1 \o <<w[i + 1]>>, added \/ put)

\* form_word(num_pos, num, word, word_length) over a buffer that already
\* holds the string fresh.
FormWord(fresh, pos, num, w) ==
    IF pos = -1 THEN FormLoop(pos, num, w, 0, fresh \o <<num>>, TRUE)
    ELSE FormLoop(pos, num, w, 0, fresh, FALSE)

\* malloc(sizeof(char) * (word_length + 1)): the bytes form_word may use.
AllocSize(w) == Len(w) + 1

-----------------------------------------------------------------------------
(* main: reading the hashes                                                *)

Init ==
    /\ dict \in Dictionaries
    /\ input \in Inputs
    /\ line = 1
    /\ hashes = << >>
    /\ phase = "read"
    /\ wi = 1 /\ di = 1 /\ numPos = FirstPos /\ k = 0
    /\ password = << >>
    /\ tried = {}
    /\ queue = << >>
    /\ pills = 0 /\ joined = 0
    /\ wpc = [w \in Workers |-> "dequeue"]
    /\ work = [w \in Workers |-> NULL]
    /\ out = EmptyBag

Cracking == UNCHANGED <<dict, input, line, hashes>>
PoolIdle == UNCHANGED <<queue, pills, joined, wpc, work, out>>
LoopsIdle == UNCHANGED <<wi, di, numPos, k, password, tried>>

\* One turn of the while loop: getline reads a hash line, the asserts on
\* its length and its "$6$" prefix hold, and it is appended to hashes.
ReadHash ==
    /\ phase = "read"
    /\ line <= Len(input)
    /\ input[line].kind = "hash"
    /\ hashes' = Append(hashes, input[line].pw)
    /\ line' = line + 1
    /\ UNCHANGED <<dict, input, phase>> /\ LoopsIdle /\ PoolIdle

\* A line that is not a hash fails one of the asserts: the process aborts.
ReadBad ==
    /\ phase = "read"
    /\ line <= Len(input)
    /\ input[line].kind = "bad"
    /\ phase' = "abort"
    /\ UNCHANGED <<dict, input, line, hashes>> /\ LoopsIdle /\ PoolIdle

\* getline hits the end of input or an empty line: free(line), then
\* thread_pool_init starts the workers at their first dequeue.
EndInput ==
    /\ phase = "read"
    /\ \/ line > Len(input)
       \/ line <= Len(input) /\ input[line].kind = "blank"
    /\ phase' = "crack"
    /\ k' = Len(hashes)
    /\ UNCHANGED <<dict, input, line, hashes, wi, di, numPos, password, tried>>
    /\ PoolIdle

-----------------------------------------------------------------------------
(* main: the loops over words, digits, positions and hashes               *)

\* Variant with a bug: the loop runs while num_pos <= word_length.
TryPositionPastEnd ==
    /\ phase = "crack"
    /\ k = Len(hashes)
    /\ numPos <= Len(word)
    /\ \E fresh \in FreshStrings :
           password' = FormWord(fresh, numPos, digit, word)
    /\ tried' = tried \cup {password'}
    /\ numPos' = numPos + 1
    /\ k' = 0
    /\ UNCHANGED <<wi, di>> /\ Cracking /\ PoolIdle /\ UNCHANGED phase

\* One iteration of `for (num_pos = -1; num_pos < word_length; num_pos++)`
\* once the hashes of the previous password are all added: form the next
\* password.
TryPosition ==
    /\ phase = "crack"
    /\ k = Len(hashes)
    /\ numPos < Len(word)
    /\ \E fresh \in FreshStrings :
           password' = FormWord(fresh, numPos, digit, word)
    /\ tried' = tried \cup {password'}
    /\ numPos' = numPos + 1
    /\ k' = 0
    /\ UNCHANGED <<wi, di>> /\ Cracking /\ PoolIdle /\ UNCHANGED phase

\* The loop over k: malloc a hashpass for the password and hashes[k] and
\* thread_pool_add_work it.
AddHashpass ==
    /\ phase = "crack"
    /\ k < Len(hashes)
    /\ queue' = Append(queue, [pw |-> password, hash |-> k + 1])
    /\ k' = k + 1
    /\ UNCHANGED <<wi, di, numPos, password, tried, pills, joined, wpc, work, out, phase>>
    /\ Cracking

\* The position loop is over: the next digit, or the next word.
NextDigit ==
    /\ phase = "crack"
    /\ k = Len(hashes) /\ numPos = Len(word)
    /\ \/ di < Len(Digits) /\ di' = di + 1 /\ wi' = wi
       \/ di = Len(Digits) /\ wi < Len(dict) /\ di' = 1 /\ wi' = wi + 1
    /\ numPos' = FirstPos
    /\ UNCHANGED <<k, password, tried, phase>> /\ Cracking /\ PoolIdle

\* Every word is done: main calls thread_pool_finish.
LoopDone ==
    /\ phase = "crack"
    /\ k = Len(hashes) /\ numPos = Len(word) /\ di = Len(Digits) /\ wi = Len(dict)
    /\ phase' = "finish"
    /\ LoopsIdle /\ Cracking /\ PoolIdle

-----------------------------------------------------------------------------
(* thread_pool_finish and the workers                                      *)

\* Variant with a bug: one NULL short.
PillsShort == NUM_THREADS - 1

\* for (i = 0; i < num_workers; i++) queue_enqueue(queue, NULL)
Pills == NUM_THREADS

FinishEnqueue ==
    /\ phase = "finish"
    /\ pills < Pills
    /\ queue' = Append(queue, NULL)
    /\ pills' = pills + 1
    /\ UNCHANGED <<joined, wpc, work, out, phase>> /\ LoopsIdle /\ Cracking

\* Variant with a bug: the join does not wait for the worker.
JoinNoWait ==
    /\ phase = "finish"
    /\ pills = Pills
    /\ joined < NUM_THREADS
    /\ joined' = joined + 1
    /\ UNCHANGED <<queue, pills, wpc, work, out, phase>> /\ LoopsIdle /\ Cracking

\* pthread_join on the next worker in order blocks until it has exited.
Join ==
    /\ phase = "finish"
    /\ pills = Pills
    /\ joined < NUM_THREADS
    /\ wpc[joined + 1] = "exited"
    /\ joined' = joined + 1
    /\ UNCHANGED <<queue, pills, wpc, work, out, phase>> /\ LoopsIdle /\ Cracking

\* Every worker joined: thread_pool_free, and main returns.
Exit ==
    /\ phase = "finish"
    /\ joined = NUM_THREADS
    /\ phase' = "done"
    /\ UNCHANGED <<queue, pills, joined, wpc, work, out>> /\ LoopsIdle /\ Cracking

\* queue_dequeue returns the oldest value once there is one; NULL ends
\* thread_execute.
WorkerTake(w) ==
    /\ phase \in {"crack", "finish"}
    /\ wpc[w] = "dequeue"
    /\ queue # << >>
    /\ work' = [work EXCEPT ![w] = Head(queue)]
    /\ wpc' = [wpc EXCEPT ![w] = IF Head(queue) = NULL THEN "exited" ELSE "run"]
    /\ queue' = Tail(queue)
    /\ UNCHANGED <<pills, joined, out, phase>> /\ LoopsIdle /\ Cracking

\* hashes_match(hashpass): crypt_r with the hash's salt, compare the rest,
\* print the password on a match; then back to queue_dequeue.
WorkerRun(w) ==
    /\ wpc[w] = "run"
    /\ out' = IF work[w].pw = hashes[work[w].hash] THEN out (+) SetToBag({work[w].pw})
              ELSE out
    /\ wpc' = [wpc EXCEPT ![w] = "dequeue"]
    /\ UNCHANGED <<queue, pills, joined, work, phase>> /\ LoopsIdle /\ Cracking

\* The process has ended.
Stopped ==
    /\ phase \in {"done", "abort"}
    /\ UNCHANGED vars

Main == ReadHash \/ ReadBad \/ EndInput \/ TryPosition \/ AddHashpass \/ NextDigit
        \/ LoopDone \/ FinishEnqueue \/ Join \/ Exit

Next == Main \/ (\E w \in Workers : WorkerTake(w) \/ WorkerRun(w)) \/ Stopped

\* Every thread runs when it can: the main thread and each worker.
Spec == Init /\ [][Next]_vars /\ WF_vars(Main)
        /\ \A w \in Workers : WF_vars(WorkerTake(w)) /\ WF_vars(WorkerRun(w))

-----------------------------------------------------------------------------
\* The word with the digit inserted after its first p letters.
Insert(w, d, p) == SubSeq(w, 1, p) \o <<d>> \o SubSeq(w, p + 1, Len(w))

\* Every password the loops are meant to try.
Candidates ==
    UNION {{Insert(w, d, p) : d \in Range(Digits), p \in 0 .. Len(w)} : w \in Range(dict)}

TypeOK ==
    /\ phase \in {"read", "crack", "finish", "done", "abort"}
    /\ numPos \in FirstPos .. Len(word)
    /\ k \in 0 .. Len(hashes)
    /\ pills \in 0 .. NUM_THREADS /\ joined \in 0 .. NUM_THREADS
    /\ wpc \in [Workers -> {"dequeue", "run", "exited"}]
    /\ IsABag(out)

\* Each password form_word returns is the word with the digit inserted
\* after num_pos + 1 letters.
FormWordCorrect ==
    numPos > FirstPos => password = Insert(word, digit, numPos)

\* By the time main calls thread_pool_finish, the nested loops have tried
\* every way to insert every digit into every dictionary word: the loop
\* bounds and the resets of num_pos miss no candidate.
AllInsertionsTried ==
    phase \in {"finish", "done"} => tried = Candidates

\* When main returns, each hash read that is the crypt of a candidate has
\* had its password printed exactly once, whichever worker ran which job
\* in whichever order: every hashpass was run once, and the joins waited
\* for the last of them.
CrackedAll ==
    phase = "done" =>
        out = [p \in {hashes[i] : i \in 1 .. Len(hashes)} \cap Candidates |->
                  Cardinality({i \in 1 .. Len(hashes) : hashes[i] = p})]

\* The program ends: it aborts on a malformed line, or every worker takes
\* its NULL, is joined, and main returns.
Terminates == <>(phase \in {"done", "abort"})

\* The password and its terminating NUL fit in the block form_word mallocs.
FitsAllocation ==
    numPos > FirstPos => Len(password) + 1 <= AllocSize(word)

\* What form_word hands to crypt_r is sound: the word with the digit
\* inserted, held with its NUL inside the block form_word malloc'd.  Both
\* the size of that block (line 47) and the strcat into it (line 49) bear
\* on it.
FormWordSound == FormWordCorrect /\ FitsAllocation
=============================================================================
