# Verification of linux-clouds

linux-clouds is a collection of small Linux C programs, one directory per
topic.  Most of them are short; the ones worth a model are those in which
threads, processes, signals, sockets or datagrams meet.  This directory holds
TLA+ models of them, TLC configurations that check the models on small
instances, and TLAPS proofs for every size.

`PROJECT.json` lists the parts, the runs, the hazards and, for each definition,
the source lines it stands for.

## 1. Inventory

State, operations and interaction of each part; what is hard; what must hold.

| part | source | state | operations and interaction | hard | must hold |
|---|---|---|---|---|---|
| chat server | `10.network/4.tftp/new_code` | fd table, `fds` (mutex), `sem`, `member_max`, one stack per thread | accept thread creates a thread per client and hands `&new_client` over under `sem`; client threads broadcast over a copy of `fds`; `main` sends what is typed | reuse of numbers, copies used without the lock, failing `pthread_create`, SIGPIPE | each client has one thread of its own; places add up to `-l`; nobody waits for ever; who is served is a member |
| chat server, older | `10.network/4.tftp/code`, Backup `client_handle(6797).c`, `msg_handle(4478).c` and others | `fds`, `sem`, `new_client`, one `buffer` or one per thread | a thread per client broadcasts; private texts in the later one | `new_client` is overwritten by each accept; all threads receive into the same buffer; `else if()` does not compile | each thread has its own connection; its own client's blank text never goes out |
| hand-over servers | `10.network/2.tcp_server/code`, `select/old`, `old_source/2.tcp_server_3` | `new_client` of the accepting thread | thread per client reads it through `arg`, with or without `sem` | the number is overwritten before it is read | one thread per accepted client |
| select server | `10.network/2.tcp_server/select/new`, five older versions in Backup | `fds`, global `ret`, one stdin thread per client | select loop and stdin threads share `ret`; loops over numbers up to it | numbers are not contiguous; peers abort, and a send error ends a relay; the lowest number is served first | a text reaches every client below the first send that fails; `select` is asked for open numbers; who has left is closed, unless others come first for ever |
| socket set-up | `serverSocketInit` and its copies, 20 programs | the port in the kernel | `setsockopt`, `bind`, `listen` | start twice, start again after a crash | one server listens; a restart is not refused |
| TFTP clients | `10.network/old_tftp/newtftp`, `old_tftp/tftp`; flow in `10.network/3.udp/TFTP-流程.txt` | block number, file, peer address | request, DATA/ACK in lock step with a server over UDP | loss, duplication, wrap of the block number, last short block | the copy equals the file; an end is reported only when it is one |
| TFTP menu | Backup `tftp(6757).c` | one socket for all transfers, `block_num`, `tem_sin` | transfers one after another | what is left of one arrives in the next | a reported transfer is that file |
| TCP client | `10.network/1.tcp_client`, `old_source/1.tcp_client` | one socket, one or two buffers | a sender thread and a receiver loop | shared buffer and socket in the old one | both directions arrive in order; the client ends when the server closes |
| UDP peers | `3.udp/main.c`, `broadcast/main.c`, three older versions | one socket, `buffer` | main sends, a thread prints | loss, repetition, two processes on one port | a text is printed with the address it was typed at |
| SysV semaphore | `7.IPC/6.sem/fork`, `idenpendence` | a kernel semaphore array | `SETVAL` at every start, P, V with `SEM_UNDO`, `IPC_RMID` | start, end and use of two processes interleave; failures that nobody looks at | mutual exclusion; the last write is read |
| shared memory | `7.IPC/5.shm` | one segment | put a file, get it back | | |
| message queues | `7.IPC/4.msq`, `9.Thread/2.argument/practice` | kernel queues, global `msg` | sender and receiver thread of each process share `msg` | `msg` overwritten between set and send; the end of the input is not looked at | what one side types the other shows, in order |
| FIFO, pipe, fork, fd, signal | `7.IPC/3.fifo`, `7.IPC/7.pipe`, `2.fork`, `1.fd`, `6.signal` | one channel | a reader and a writer | end of file | |
| thread exercises | `9.Thread/3.exit` to `8.clean` | counters, semaphores, conditions, mutexes | threads of one program | lost wake-ups, cleanup not run, check-then-act | see the modules |
| contacts | `5.link-list/dynamic` | sorted linked list, its file | insert, delete, print; save on exit and on SIGINT/SIGQUIT | the handler runs in the middle of an operation; a failing write is not noticed | the file is in order, and has what the list had |
| pictures | `12.imx6ull` | frame buffer, GIF/JPEG rows | pixel formats, interlaced rows | index and width arithmetic | every row once; no write outside |
| commands and examples | `2.own_basic_cmd`, `3.gcc`, `4.make_own_cmd`, `8.Makefile`, `1.environment`, `11.github` | none | straight-line code and notes | | |

The copies that an editor kept in `*.si4project/Backup` are earlier versions of the
servers, of the chat server, of the UDP peers and of a TFTP client; each is listed with
the part it is a version of.  Two more of them that are called tftp, and
`main(816).c`, are empty files.  The copy `4.make_own_cmd/3.file-IO-副本` and the binary
libraries are not parts of their own.

## 2. Plan

Built:

1. `ChatServer` with `Admission` as its abstract specification, `MCChatServer`,
   `ChatServer_proofs`: the largest concurrent program of the repository.
2. The TFTP transfers: `Datagrams` and `TftpNet` (the network and the server),
   `TftpGet`, `TftpDownload`, `TftpUpload` (the clients), `FileCopy` (what a
   transfer promises), composed by `TftpClients`.
3. The thread exercises, composed by `ThreadPrograms`: `LockedCounter`,
   `Alternation`, `TicketOffice`, `CondRelay`, `CleanExit`; proofs about the
   first four.
4. `Handover` and `OldHandover`, `SelectServer` and `SelectVersions`, `SocketSetUp`,
   composed by `TcpServers`.
5. `ForkCounter`, `Mailbox`, `QueuePeers`, `OlderChat`, `TcpClient`, `UdpPeers`,
   `Contacts`, composed by `Programs`.
6. `TftpMenu`, composed with the other transfers by `TftpClients`.
7. Proofs about the transfers, the hand-over, the select servers, the set-up and the
   smaller programs, and their theorems about the composed specifications (section 4).
   Every safety property that a passing run checks has one.

Left:

- the sequential programs: one sends a file through a page of shared memory, others one
  message through a queue or lines through a FIFO (section 5).

Programs that are checked together share a run: a composing module has the
variables of all of them, chooses one program in its initial states and leaves the
variables of the others at "none".  A property of a composed run names the program it is
about and says nothing in the behaviours of the others.

## 3. Modules

### ChatServer, Admission, MCChatServer, ChatServer_proofs

`ChatServer` has the state of the process: `file` (descriptor table: which
connection a number refers to), `fds`, `sem`, `memberMax`, `newClient` (the
variable of the accept thread that new threads read through their argument),
`acc` and `pc` (what the accept thread, the client threads and the main thread
execute next), `sock` (each thread's `client_socket`) and `todo` (what is left of
a thread's copy of `fds`).  `link` and `backlog` are the peers and the listen
queue, `of` is history: the connection a thread was created for.

Each statement that another thread can observe is an action: `SemWait`, `Accept`
(lowest free number, oldest connection), `TryWait`, `TurnAway`, `Create`,
`CreateFails`, `AddUser` for lines 24-41 of `client_handle.c`; `ReadArg`, `Post`,
`Recv`, `CopyFds`, `CheckTarget`, `Send`, `CloseSocket`, `DelUser`, `FreeSlot` for
lines 49-79.  The main thread runs the same handler as a client thread, with
standard output as its socket.  A send has two effects worth a model: none that
the code looks at, or the death of the process when the peer has reset the
connection.  The texts themselves are not modelled, only whether one goes to
everybody or to one number.

`Admission` is what the server promises to a connection: decided in the order of
arrival, at most `Limits` inside, refused only when full, decided in the end.
`ChatServer` implements it with `Deciding \o backlog`, `Admitted` and `Refusals`.

| run | instance | shows |
|---|---|---|
| `chat_safety` | 3 connections, 2 threads, 3 numbers, limit 2, `pthread_create` may fail | types, `HandedOff`, `SlotsAccounted`, `Admission!Safe` |
| `chat_admission` | 3 connections, 1 thread, 2 numbers, limit 1 | `Admission!Spec` with its fairness |
| `chat_leave` | 2 connections, 2 threads, limit 2 | `PlaceReturned` |
| `chat_member` | the same | violated: `ServedIsMember` |
| `chat_stall` | 2 connections, `pthread_create` may fail | violated: `EveryoneAccepted` |

Bounds.  Three connections with two places make one connection wait or be turned
away while two are served, and let a number be used a second time while a thread
that had it is still leaving; a third number lets the refused connection be open
at the same time.  A connection is opened once; a thread that ended can be
created again.  No counter is bounded: `sem` and `memberMax` bound themselves.

Fairness.  `Spec` assumes that the accept thread runs and that a new thread runs
up to its `sem_post`: nothing of the peers, of `accept` failing, or of `send`,
which blocks while a peer does not read.  `FairSpec` adds that threads run to
their end and peers read; `recv` of a connection that is up may block for ever.

Deadlock is not checked: the process really stops after `_exit(-1)` or SIGPIPE.

Findings: `close` before `delUser` (a client that is served loses its
membership), and a failed `pthread_create` (the accept thread waits for ever).
The end of the process by SIGPIPE, when a peer has reset its connection, is a
step of the model (`Broken`); the properties speak of a server that runs.

### Datagrams, FileCopy, TftpNet, TftpGet, TftpDownload, TftpUpload, TftpMenu, TftpClients

`Datagrams` is a network that may lose and may repeat: `up` and `down` are sets of
datagrams, so it also reorders; `faults` says what it does in a behaviour.  A
datagram stands for its block by the position of the block in the file; only the
number on the wire is modulo `Wrap`, for 2^16.  `TftpNet` is the server of the two
downloads as `3.udp/TFTP-流程.txt` describes it: a session per copy of the
request, an acknowledgement of the current block brings the next.  `TftpUpload`
has the server's side of an upload.  All of it is external to the repository.

The clients: `TftpGet` is `start_download` of `tftp/tftp.c`, which compares the
block number with `num + 1`, an `int`; `TftpDownload` is `download` of
`newtftp/tftp.c`, which writes whatever comes; `TftpUpload` is its `upload`.  Every
branch of their receive loops is an action, and so is the failure of a system call
(`IoFails`).  `TftpMenu` is Backup `tftp(6757).c`: `Choose` sends the request of a
download or an upload from a socket that is never closed, so that what earlier
transfers left in it arrives now; the sessions of the server repeat what they sent last.
Its `main` does not compile (`local_addr` is not declared); the loop is modelled as it
reads.  `FileCopy` is the abstract specification of the three single transfers: the copy is a
prefix of the file that grows block by block, and success means the whole file.

| run | instance | shows |
|---|---|---|
| `tftp` | files of 0, 2, 3, 5 blocks, `Wrap` 4, two server sessions, each of three networks; for the menu files of 1 to 3 blocks and two transfers on a network that only reorders | `Copies` (refinement of `FileCopy`), `Ends`, `ServerClosed`, the types of `start_download`, `ReportedWhole`, `BackToMenu` |
| `tftp_get_lossy` | 2 blocks, one session, losing and repeating network | violated: `EndsOverLossyNet` |

Bounds.  Five blocks with numbers modulo four make numbers wrap and be ambiguous;
an empty file and one of three blocks (the last number before the wrap) are the
boundaries.  Two sessions are what a repeated request starts.  Two transfers of the menu
are one and another that it can disturb.

What `Promised` leaves out: on a network that repeats, `newtftp` stores a block
again and again, because it never looks at the number; its upload can take an old
acknowledgement for a new one when numbers have wrapped.  `ServerClosed` has the
premise of a short last block, because `upload` never sends the empty block that a
file of a multiple of 512 bytes needs.  `Ends` has the premise of a faultless
network, because neither client has a timeout, and for `tftp.c` of a file that
does not wrap the number.  `ReportedWhole` has the premise that each transfer before
was refused by the server, or reported and, if an upload, not one with a full last block
(`broken`): otherwise its session still repeats a block, which the next transfer writes
into its own file, because it looks at neither the number nor the sender, or still waits
for a block.

Fairness: the process that is waiting takes a datagram that is there; the server
answers.  In `TftpGet` alone reception is strongly fair: a datagram that is sent
again and again arrives in the end, and so it is in `tftp` for its losing networks;
the menu's transfers and sessions are weakly fair.  This is what makes the counterexample of
`tftp_get_lossy` count.

Finding: after a lost acknowledgement `tftp.c` ignores the repeated block for ever.

### ThreadConstants, LockedCounter, Alternation, TicketOffice, CondRelay, CleanExit, ThreadPrograms

One module for each program of `9.Thread` in which threads meet.  An increment is a
load and a store; `pthread_cond_wait` unlocks and sleeps in one step and may return
spuriously; a return from between `pthread_cleanup_push` and `pop` either unlocks
or does not.  `taken` in `TicketOffice` and `called` in `CondRelay` are history.
In `TicketOffice` main creates the windows one by one (`Create`), and a `pthread_create`
that fails ends the process with the windows that run (`CreateFails`).  It is the only
program of these that looks at the call; in the others it is taken to succeed.

| run | instance | shows |
|---|---|---|
| `threads` | counter with 3 increments each; 3 letters; 3 windows and 4 clients; 2 + 1 threads at the conditions; the clean-up exercise | `CountExact`, `InTurn`, `NumberIsNewEnough`, `OwnerIsAwake`, and the progress of each but the counter |

Four clients for three windows make windows compete for the last client and close
while another serves.  Nothing is cut off but the number of rounds of the counter.

Fairness: each thread runs.  In `CondRelay` it is strong: a thread that goes on
asking for the mutex gets it, which the default mutex does not promise but the
scheduler gives.  Broadcasts and spurious wake-ups are not fair.

`AllServed` says that all clients are served and main has joined every window, or
`pthread_create` has failed, which cuts the office short.
`EndsOtherwise` states the two ways in which `8.clean` stops for ever instead of
leaving them out: main had the mutex first and joins the thread that waits for it,
or the file did not open and the handlers did not run.  A window may print the
same number as another (`practice2`), which `NumberIsNewEnough` allows.

### Handover, OldHandover, SelectServer, SelectVersions, SocketSetUp, TcpServers

`Handover` is the server of `2.tcp_server/code`: acceptor, handlers and the
operator's sends.  `select/old` is the same without the semaphore: the defect
`GoesOn`, with which `OneHandlerEach` fails.  `OldHandover` is `old_source/2.tcp_server_3`,
whose threads are the same without the operator.

`SelectServer` is `select/new`: main with its steps `Scan` (the global `ret` goes through
the numbers of the set), `Select`, `SelectTimesOut`, `Accept`, `Recv`, `Close` and
`Relay`, the operator's threads (`Type`, `Tell`), and the peers.  A peer may close
(`"left"`: it answers with a reset sooner or later, after which a send ends the process by
SIGPIPE) or abort (`"aborted"`: the first send fails without a signal, and so does
`recv`); `Fails` says when `send` returns -1.  A text is one bit, whether it begins with
`/`.  Connections are alike until they are made and while they wait, so `Arrive` and
`Accept` take any one of them, which is a symmetry of the model and not a choice of the
code.  `SelectVersions` has the five older programs of Backup: three
are the same loop in another layout, two only print what they receive (`Show`) and start
no thread (`AcceptOnly`).

`SocketSetUp` has, for 20 programs, the list of calls each makes before it serves
(`Calls`); a process makes them one by one (`Call`), some may fail, and it may be killed
and started again.  The kernel's rules for a port (`MayBind`, `MayListen`, and a
connection that keeps the port for a while, `linger`) are external.

| run | instance | shows |
|---|---|---|
| `servers` | 3 connections, 2 handlers; for the select server 1 unread text of each peer and 1 operator's thread; 2 connections for the older versions; 2 processes of each program, each started up to twice | `OneHandlerEach`, `AcceptedInTheEnd`, `AsksForTheOpen`, `RelayReaches`, `LeaverClosed`, `OneServer`, `RestartWorks` |
| `broadcast` | 2 processes, each started once | violated: `ReuseAllowed` |

With three connections a number in the middle is closed and used again, and a third
client waits while two are served.  The number of texts is not bounded, only how many of
a peer main has not read (`Texts`): a peer that goes on sending is in the run, and a text
is relayed while peers come, close and abort and while the operator sends.  Two processes
make a second start beside the first, and two starts one after a crash that leaves a
connection behind.

`RelayReaches` says who is reached: everybody below the lowest number at which a send
fails, because it is closed or because its peer has aborted.  Who is above it gets
nothing, because the first failing `send` ends the loop.  `LeaverClosed` says that a
connection that its peer has left is closed, with the exceptions that the code has: main
handles one number for each `select`, the listening socket and then the lowest, so that
what comes before again and again (`Before`) starves the others; a `send` to a peer that
does not read may never return; and SIGPIPE or a failing `accept` ends the process.
Without the first or the second exception the property fails in this run.  A semaphore
that a failing `pthread_create` leaves at 0 is named in `AcceptedInTheEnd`.  `OneServer`
is not trivial: with `SO_REUSEADDR` both processes may bind the port before either
listens.  `RestartWorks` leaves out the two oldest servers, which do not set the option,
and the broadcast peers.

Fairness: the acceptor, each handler, and main of the select server where it does not wait
for a peer run (`Main`: all steps but those of a relay); a send need not return, peers and
the operator need not go on.

Finding: `SO_BROADCAST | SO_REUSEADDR` is one option number, that of `SO_BROADCAST`, so a
second broadcast peer on a machine is refused its port.

### ForkCounter, Mailbox, QueuePeers, OlderChat, TcpClient, UdpPeers, Contacts, Programs

`ForkCounter` has the semaphore set of the kernel (`key`, `val`, and `undo` for
SEM_UNDO) and every process with its program counter.  Calls whose failure ends the
process fail in `Fails` (`fork`, `shmget`, `shmat`, the second `ftok`); nobody looks at a
failing `semget` (`SemGetFails`, the program goes on without a set), at a `semop` on a set
that was removed (`PFails`) or one that fails on a set that is there (`PInterrupted`);
`ignored` remembers the first and the last of these.  `Mailbox` has the reader and the
writer of `6.sem/idenpendence`; both initialise the same set and an interrupt removes it; a
line that is being copied is `Torn`.  There, too, `semget` (`GetAFails`, `GetBFails`), P
and V may fail without being looked at, and at the end of the input the writer goes on with
the line it has (`ReadEnd`).  `QueuePeers` has both threads of both programs over one queue,
and the global `msg` that they share; `ReadEnd` is the end of the input, at which the
text in `msg` is sent again and again, and a failing `msgsnd` or `msgrcv` ends a thread or
the process (`SendFails`, `RecvFails`).

`OlderChat` is the chat server from before there were members, in two versions: a buffer
in each thread, or one for all.  The acceptor waits for `sem`, puts what it accepts into
`new`, and a thread takes it from there (`ReadArg`) before it posts.  A thread goes from
`Read` over the message handler (`EarlyHandler`, or `SharedHandler` with `Whisper` and
`Warn`) to `Broadcast` and one `Send` for each target of its copy of `fds`.  A buffer has
the writer of its text and the kind of it.  Sockets are not used a second time.

`TcpClient` has both clients: main with its calls, `Recv`, `Show`, `Wipe`; the sender with
`Gets`, `Send`, `SenderWipes`; and a server that tells and closes.  In the older one the
sender runs before there is a socket (`conn = "zero"` is descriptor 0) and both threads
use one buffer.  A message arrives as a whole.

`UdpPeers` has three processes, main and receiver of each, over a network that loses,
repeats and reorders; two of them have one port where the port may be shared.

`Contacts` has the list in the two steps in which a node is linked, the save with the
buffer of stdio, some of which may reach the file before `fclose` does the rest, a file that
cannot be opened (`CreateFails`) or written (`CloseFails`: once a write has failed the
later ones are taken to fail as well, and nobody notices), and a signal or the end of the
process at any step.  `harmed` is history: what may have cost contacts.

| run | instance | shows |
|---|---|---|
| `programs` | one start of the fork program, 2 increments, a process killed at any step; 2 lines for the mailbox; 2 reads on each side, with or without a line, and a queue of 2; both older chat servers with 2 clients and 1 text; both TCP clients with 2 lines each way; 2 lines of UDP peers; 3 contacts of 4 names | `OneInside`, `NothingLost`, `EveryoneEnds`, `CaughtUp`, `OneWay`, `ServesItsOwn`, `BlankKept`, `FullDuplex`, `ClientEnds`, `NameIsTypist`, `Sorted`, `Saved` |
| `fork_twice` | two starts, 1 increment | violated: `OneInside` |

Two increments make the region of a process longer than one step of the other; two
lines make the second overtake the first where something can; a queue of two fills.
With two clients the second accept can overwrite what the first thread has to read, and
with the operator three threads write into the shared buffer; one text
is enough for another thread's greeting or parting to come between.  The names are a
small and a capital form of one letter, another letter, and that of the head.

`OneInside` and `NothingLost` have the premise that no `semget`, and no `semop` on a set
that is there, has failed: the program does not look at either, and without a
set nothing excludes its two processes.  They hold although the set is removed while the
other process waits in P, whose failure nobody looks at: only a process that is through
removes it.  `EveryoneEnds` needs no premise; with P and V that fail nobody waits.

`CaughtUp` and `OneWay` have premises because the code does not do better.  A reader of the
mailbox has to be ready in time, no set removed, and neither `semget` nor a V failed: then
it has printed the last line once it waits for nothing, also when the input has ended or
its P was interrupted.  On the queue only one side may read its input: when both do, a
message that is received between `fgets` and `msgsnd` is sent instead of the line, and so it
is when one side has reached its end of input.  What the other side shows is then the lines
in order and, after the end of the input, the last one again and again.

`ServesItsOwn` is about the hand-over of `new_client`, which the mutant `WaitNot`, without
the semaphore, breaks; one start of a thread that fails stops the acceptor for ever here,
too.  What the shared buffer of the later chat server does to the texts is no property: one
may go out under another client's name, and a blank text of one client through the
thread of another, which is why `BlankKept` speaks of its own client's.  `FullDuplex` is,
for the client with one buffer, about one direction at a time and what is typed after
the socket is there.  `Sorted` does not say that contacts are kept: between `fopen` and
`fclose` the file has none or a first part of them, and a program that is killed then has
lost the rest.  `Saved` has the premise that nothing has `harmed` the contacts: a handler
that meets a list that is being changed, read or freed loses some or dies, a file that
cannot be opened for writing keeps the old ones, and on a full disk they are lost, because
what `fwrite` returns is compared as an unsigned number with 0 and `fclose` not at all.

Fairness: for `EveryoneEnds` each process runs until it is killed; for `ClientEnds` main of
the client runs.  The sender and the server need not.

Finding: a second start sets the semaphore to 1 while a process is inside.

## 4. Proofs

Every theorem is about the specification that a run checks and for all values of its
constants under the assumptions named here; fairness is not used.  There is one for each
safety property of the passing runs.

| module | theorems | assumptions |
|---|---|---|
| `ChatServer_proofs` | `TypeOKAlways`, `HandedOffAlways`, `SlotsAccountedAlways`, `AdmissionSafeAlways` | `ChatAssumption` |
| `TftpMenu_proofs`, `TftpClients_proofs` | `CopiesAlways`, `ReportedAlways`, `ClosedAlways`, `TypesAlways` | `DatagramsAssumption`, `TransfersAssumption` |
| `ThreadPrograms_proofs` | `CountExactAlways`, `InTurnAlways`, `NumberIsNewEnoughAlways`, `OwnerIsAwakeAlways` | `TargetAssumption`, `KAssumption`, `OfficeAssumption`, `RelayAssumption` |
| `Handover_proofs`, `SelectVersions_proofs`, `TcpServers_proofs` | `OneHandlerEachAlways`, `AsksForTheOpenAlways`, `RelayReachesAlways`, `OneServerAlways`, `RestartWorksAlways` | `ConnsAssumption`: finitely many connections |
| `Programs_proofs` | `CaughtUpAlways`, `OneWayAlways`, `ServesItsOwnAlways`, `BlankKeptAlways`, `FullDuplexAlways`, `NameIsTypistAlways`, `SortedAlways`, `SavedAlways`; `OneInsideAlways` and `NothingLostAlways` for one start | `ProgramsAssumption` |

### The chat server

The inductive invariant is `Inv`, five parts that are proved one after the other:
`Types`; `Baton` (sem is up, or the accept thread is between `sem_wait` and
`pthread_create`, or one thread has not posted: never two of them), without which
`new_client` could be overwritten; `Hands` (a descriptor is in the hands of one
thread, also while it is between two); `Line` (a connection is in one place); and
`Places` (the sum).  The upper bounds of the semaphores in `TypeOK` follow from
`Baton` and `Places`.  The four actions of the message handler are dealt with once,
in `HandlerMoves`.

`AdmissionSafeAlways` is the refinement: with `Deciding \o backlog`, `Admitted` and
`Refusals` every step of the server is one of `Admission` or leaves them alone.  A step
that accepts moves the head of the backlog to `Deciding`, which joins to the same
sequence; one that creates a thread adds to `Admitted` what `Hands` says is nobody's; the
limit comes from `Places`.

### The transfers

`TftpClients_proofs` has an invariant of each program, for every length of a file, every
`Wrap`, any sessions and each network on which the program is promised to work.  They say
what may be under way, because a step that receives has only that to go by:

- `GetInv` (`tftp.c`): an acknowledgement that is under way is of a block that is written
  and has a number below `Wrap`; a block that is under way, and a session, is at
  most the next one.  So what has the number that is waited for is the next block.
- `DownloadInv` (`newtftp`, download): on a network that does not repeat there is one
  datagram or none; this is what makes it the next block, since the number is not looked at.
- `UploadInv`: blocks under way were read, acknowledged ones are stored, and on a network
  that does not repeat there is one datagram at a time; on one that does, the file has
  fewer blocks than there are numbers.  The copy is as long as what was read, or one block
  shorter.
- `MenuInv` (in `TftpMenu_proofs`): unless a transfer was broken off, every earlier session
  has settled, the later ones are untouched, and of the one that is on there is one datagram.
  `ReportedWhole` is not inductive: only that nothing of an earlier transfer is left in the
  socket makes the next datagram this transfer's.

`CopiesAlways` proves that the three single transfers implement `FileCopy`: `TransferSteps`
takes each action to a block that is added or to a stutter, `WholeFile` shows that what is
reported as done is the whole file, and nothing follows success.

### The thread exercises

`CountExact` speaks of the end only, and of an argument twice of which is an `int`;
`CounterInv` adds mutual exclusion, that what a thread has loaded is still the value when
it stores, and that num is what both have stored.  `RingInv`, for `InTurn`, is one token:
one semaphore is up and all wait, or none is and one thread prints or posts, and where
the token is follows from `last`.  For `NumberIsNewEnough` nobody has taken more than has
gone from the semaphore.  `OwnerIsAwake` needs that the name for no owner is no thread's
(`RelayAssumption`).

### The servers

`Handover_proofs` proves `OneHandlerEachAlways` of the component without assumptions.  The
property is not inductive: `Baton` says that the semaphore is up, or the acceptor is in
its round, or one new thread has not posted, never two; then `NewIsFree`: while a
connection waits in `new_client` it is open and nobody's, and so a second thread cannot
take it.

`SelectVersions_proofs` has the lemmas on the select server and its versions: the numbers
of open connections are distinct and above the listening one, and those in `fds` are the
open ones.  For an accept this needs that the lowest free number exists (`FreeIsFree`, by
a pigeonhole argument on the finite set of connections).  `Reached` adds that `ret` is the
highest number in the set when main relays, and that everything below the number that the
relay is at has been sent to; so when it ends, who is left out is above a send that fails.

`TcpServers_proofs` composes them.  The proofs of the components are taken over by
`INSTANCE` of their proof modules; a lemma for each shows that the two instances of the
component are the same.  The invariant of the set-up is one listening socket, which is
stronger than one process that serves.  `RestartWorksAlways` is about single steps, but
what a process has set depends on the calls it has made: the invariant `Called` says that it has
made the first ones of its program's list, and `ReuseBeforeBind`, over all the lists, that
the option is set before the bind, so that what is bound is reusable (`BoundIsReusing`).

### The smaller programs

`Programs_proofs` has an inductive invariant of each program:

- `CaughtUpAlways`: unless `late` is set, each side that is past its initialisation has the
  set that exists, nothing sets it after the first line, and the last line is in the
  memory and counted, or printed.
- `OneWayAlways`: what one side has sent is, in order, what the other has shown, has in
  its `msg`, and is in the queue, each the line of its place or, behind the last one typed,
  that one again.
- `ServesItsOwnAlways`: one baton goes round, the semaphore, the acceptor in its round, or one
  thread that has not posted; until it has, `new` is the connection that the thread was
  created for.
- `BlankKeptAlways`: a thread that is past the message handler has no blank text of its
  own in the shared buffer.
- `FullDuplexAlways`: how far the calls of main are decides the descriptor and the sender;
  what was told is shown, in the buffer, or waits; what was typed is sent or in the buffer.
- `NameIsTypistAlways`: every text in the network, in main's buffer and in the receiver was
  typed at a process with the address.
- `OneInsideAlways`: unless `ignored` is set, the value of the semaphore and what SEM_UNDO has
  noted add up to one.
  This and the next are for one start (`Processes = {one}`); with two, `OneInside` is
  violated, which is the run `fork_twice`.
- `NothingLostAlways`: who is about to store has read what is there, which `OneInside` keeps
  so.  The sum over both processes is a fold of the community modules; `SumOfTwo` shows what
  it is for two, whichever the fold takes first.
- `SortedAlways`: the list with the part that is not linked yet is in order, as one
  sequence.  This survives a signal between the two steps of an insertion, because it
  takes the first part with a part of the rest.
- `SavedAlways`: a list that nothing has harmed is not freed before it is written, and the
  buffer has its first contacts.  In `SortedAlways` `FirstInOrder` shows that what stdio has
  written of them is in order as well.

`Kept` is a fold over a sequence.  Facts about it are by induction on the place: `EachInTurn`
gets the principle for sets of numbers from the well-foundedness of `<` (`WFMin`, whose
parameters are sets, so that it can be cited), `FoldExists` shows that the recursive function
which the fold names exists, and `KeptInTurn` and `KeptInOrder` follow along it.

### Only model-checked

What needs fairness: `AdmissionLive`, `PlaceReturned`, `Ends`, `BackToMenu`, `NobodyStops`,
`AllServed`, `CalledPrints`, `EndsOtherwise`, `EveryoneEnds`, `ClientEnds`,
`AcceptedInTheEnd` and `LeaverClosed`.  Liveness and `ENABLED` are out of the prover's reach.
`AdmissionLive` is proved as far as it is safety.  `SelectSeq` of the standard modules cannot be
expanded in a proof; what is kept of the contacts is therefore a fold.

## 5. Not modelled

The parts that PROJECT.json lists as `not_modelled`, with the reason there: they are
sequential, or one process reads what another has written before.  Within the parts that
are modelled: the wording of messages and the parsing of options, a `send` or `msgsnd`
whose data is truncated, memory beyond a buffer's end except where it can end the
program, and the memory that the contacts free while a signal handler walks the list,
beyond the outcomes that `Signal` names.  The threads that `2.tcp_server_2` has beside the
same ones of `2.tcp_server_3` are never started.
