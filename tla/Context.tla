------------------------------ MODULE Context ------------------------------
(***************************************************************************)
(* What the one CPU of Strata holds while threads take turns on it:        *)
(* interrupt and system call entry, the switch of registers, FPU state,    *)
(* FS and GS bases, address space and kernel stack, and the cache of       *)
(* kernel stacks.  The CPU's two GS values trade places in swapgs.         *)
(*                                                                         *)
(* kmem is the memory of the kernel stacks, the frames on each.  cprog is  *)
(* what the program of every thread last put into its registers, the       *)
(* reference the CPU is compared with.  cpu.lost says why an execution is  *)
(* followed no further: a panic; an interrupt between swapgs and iretq of  *)
(* a first entry to user mode; or a switch between the two writes of a     *)
(* TLS base that leaves the old base to a thread expecting the new value.  *)
(* Which thread is next is the scheduler's choice (module Scheduler).      *)
(***************************************************************************)
EXTENDS Integers, FiniteSets, Sequences, SequencesExt

CONSTANTS
  CtxMain,       \* the boot thread
  CtxKernel,     \* slots for kernel threads
  CtxUser,       \* slots for user threads, each the main thread of a process
  CtxStacks,     \* kernel stacks the VMM can provide
  CtxCacheMax,   \* THREAD_KERNEL_STACK_CACHE_MAX_PAGES, in stacks
  CtxBase,       \* a TLS base other than 0
  CtxLoads,      \* machines (XSAVE or FXSAVE, APIC or PIC) with what happens at most:
                 \* threads created, registers, FPU, bases and handlers changed,
                 \* preemption locked, allocations failing and user faults
  CtxHandlers    \* handlers for device interrupts

VARIABLES machine, cpu, cth, kmem, kcache, kfree, cprog, irq, cleft

ctxVars == <<machine, cpu, cth, kmem, kcache, kfree, cprog, irq, cleft>>

CtxThreads == {CtxMain} \cup CtxKernel \cup CtxUser
NoCtx == "none"
NoTls == [th |-> -1, reg |-> NoCtx, base |-> 0]
BootStack == 0                 \* CtxMain's object names no kernel stack
CpuData == -1                  \* the GS base of the kernel
BaseAsp == 0
CleanFpu == <<"clean">>
NoBuf == <<>>
NoStack == -1
NoOwner == -1
AnyStack == CtxStacks \cup {BootStack}

\* Stacks and slots are numbers; the VMM hands out the lowest stack.
LowestOne(ss) == CHOOSE s \in ss : \A r \in ss : s <= r

RegsOf(t, level, n) == <<t, level, n>>
FrameOf(at, regs) == [at |-> at, regs |-> regs]

\* The parts of the state a switch works on.
AllOfIt == [c |-> cpu, t |-> cth, m |-> kmem]
Apply(x) == cpu' = x.c /\ cth' = x.t /\ kmem' = x.m

-----------------------------------------------------------------------------
(* Entry and return: interrupt.S, thread.S, entry.S *)

swapgs(c) == [c EXCEPT !.gs = c.kgs, !.kgs = c.gs]

PushAt(x, s, d) ==
  [x EXCEPT !.m[s] = Append(SubSeq(@, 1, d), FrameOf(x.c.at, x.c.regs)),
            !.c.sp = <<s, d + 1>>, !.c.at = "kernel"]

\* DEFINE_ISR up to the call: the CPU takes the stack of the TSS when it comes
\* from user mode; testb $3 on the saved CS decides about swapgs.
EnterIsr(x) ==
  IF x.c.at = "user" THEN PushAt([x EXCEPT !.c = swapgs(@)], x.c.tss, 0)
  ELSE PushAt(x, x.c.sp[1], x.c.sp[2])

\* The rest of it: registers and iretq from whatever stack the handler chose.
PopFrame(x, s, d) ==
  [x EXCEPT !.m[s] = SubSeq(@, 1, d - 1), !.c.sp = <<s, d - 1>>,
            !.c.at = x.m[s][d].at, !.c.regs = x.m[s][d].regs]
LeaveIsr(x) ==
  IF x.m[x.c.sp[1]][x.c.sp[2]].at = "user"
  THEN PopFrame([x EXCEPT !.c = swapgs(@)], x.c.sp[1], x.c.sp[2])
  ELSE PopFrame(x, x.c.sp[1], x.c.sp[2])

\* _StSyscallA_Handler takes kernel_rsp, the gate of int 0x80 the TSS's stack.
EnterSyscall(x, top) == PushAt([x EXCEPT !.c = swapgs(@)], top, 0)
LeaveSyscall(x) == PopFrame([x EXCEPT !.c = swapgs(@)], x.c.sp[1], x.c.sp[2])

-----------------------------------------------------------------------------
(* FPU and SIMD state *)

\* With XSAVE a thread without a buffer gets one only when a component of the
\* state is in use, which the CPU may also say of a clean one.  FALSE: no memory.
SaveNeeds(x, t, used) == x.t[t].xbuf = NoBuf /\ (machine.xsave => used)
save_thread_fpu_simd_state(x, t, used) ==
  IF machine.xsave /\ x.t[t].xbuf = NoBuf /\ ~used THEN x
  ELSE [x EXCEPT !.t[t].xbuf = x.c.fpu]

\* A thread that never had a buffer starts from the clean state.
restore_thread_fpu_simd_state(x, t) ==
  [x EXCEPT !.c.fpu = IF x.t[t].xbuf = NoBuf THEN CleanFpu ELSE x.t[t].xbuf]

-----------------------------------------------------------------------------
(* StThreadP_Switch *)

AspOf(t) == IF t \in CtxUser THEN t ELSE BaseAsp
SwitchAsp(x, n) ==
  IF n \in CtxUser \/ x.c.asp # BaseAsp THEN [x EXCEPT !.c.asp = AspOf(n)] ELSE x


\* The bases are written when the two threads' fields differ.
SwitchBases(x, p, n) ==
  [x EXCEPT !.c.fs = IF x.t[n].fs # x.t[p].fs THEN x.t[n].fs ELSE @,
            !.c.kgs = IF x.t[n].gs # x.t[p].gs THEN x.t[n].gs ELSE @]

\* p was between the write of the field and the write of the register, and the
\* register keeps the older base.
HalfSet(x, p) == x.t[p].tls.th = p
Disagree(x, n) == x.c.fs # x.t[n].fs \/ x.c.kgs # x.t[n].gs
Torn(x, p, n) == (x.c.tear \/ HalfSet(x, p)) /\ Disagree(x, n)
NoteTear(x, p, n) ==
  [x EXCEPT !.c.tear = Torn(x, p, n), !.c.lost = IF Torn(x, p, n) /\ n \in CtxUser THEN "tls" ELSE @]

SwitchStack(x, n) ==
  [x EXCEPT !.c.tss = x.t[n].stack, !.c.ksp = x.t[n].stack, !.c.cur = n, !.c.sp = x.t[n].sp]

SwitchTo(x, p, n) ==
  SwitchStack(NoteTear(SwitchBases(restore_thread_fpu_simd_state(SwitchAsp(x, n), n), p, n), p, n), n)

\* The stack pointer is saved before the step that may fail.
SaveStack(x, p) == [x EXCEPT !.t[p].sp = x.c.sp]
StThreadP_Switch(x, p, n, used) ==
  SwitchTo(save_thread_fpu_simd_state(SaveStack(x, p), p, used), p, n)

\* The threads the scheduler may name next; the boot thread can always run.
Runnable(x) == {t \in CtxThreads : x.t[t].state = "ready"}
Others(x) == Runnable(x) \ {x.c.cur}

\* What _StThreadP_DoYield and preempt_isr may come to: nothing else to run, a
\* switch, or a switch refused because there is no memory for the FPU state.
Uses(x) == IF x.c.fpu = CleanFpu THEN BOOLEAN ELSE {TRUE}
Stays(x) == IF x.c.lock # NoOwner \/ x.t[x.c.cur].state = "ready" \/ Others(x) = {} THEN {x} ELSE {}
Switches(x) ==
  IF x.c.lock # NoOwner THEN {}
  ELSE {StThreadP_Switch(x, x.c.cur, n, used) : n \in Others(x), used \in Uses(x)}
Refusals(x) ==
  IF x.c.lock = NoOwner /\ Others(x) # {} /\ cleft.faults > 0 /\ SaveNeeds(x, x.c.cur, TRUE)
  THEN {SaveStack(x, x.c.cur)} ELSE {}

Spend(what) == cleft' = [cleft EXCEPT ![what] = @ - 1]
Follow == cpu.lost = NoCtx
InKernel == Follow /\ cpu.at = "kernel" /\ cth[cpu.cur].state = "ready"

-----------------------------------------------------------------------------
(* Interrupts *)

\* The legacy vectors come through the PIC or the IOAPIC, the CPU's own timer
\* through the local APIC; the line stays in service until it is acknowledged.
Line(v) == IF v = "lapic" \/ machine.apic THEN "apic" ELSE "pic"
Accepted(v) == [irq EXCEPT !.service = IF v = "spurious" THEN @ ELSE @ \cup {Line(v)}]
Deliverable(v) == v = "spurious" \/ Line(v) \notin irq.service

\* The handlers of a vector that are called: one that returns a stack ends the walk.
Called(hs, switched) ==
  IF switched /\ "preempt_isr" \in ToSet(hs)
  THEN ToSet(SubSeq(hs, 1, CHOOSE k \in DOMAIN hs : hs[k] = "preempt_isr")) ELSE ToSet(hs)

\* Nothing but the vector's class decides about the end of interrupt.
EndOfInterrupt(v) ==
  CASE v \in {"timer", "device"} /\ ~machine.apic -> {"pic"}
    [] v = "spurious" -> {}
    [] OTHER -> {"apic"}
pc_isr_common(i, v, switched) ==
  [i EXCEPT !.service = @ \ EndOfInterrupt(v),
            !.missed = @ \/ (v = "timer" /\ "tick_isr" \notin Called(i.on[v], switched))]

Preempts(v) == "preempt_isr" \in ToSet(irq.on[v])

\* An interrupt while they are enabled: entry, handlers, and the return to this
\* or another thread.
CtxInterrupt(v) ==
  /\ Follow
  /\ Deliverable(v)
  /\ cpu.at \in {"user", "kernel", "entry"}
  /\ \E x \in {EnterIsr(AllOfIt)} : \E y \in IF Preempts(v) THEN Stays(x) \cup Switches(x) ELSE {x} :
       /\ Apply(LeaveIsr(y))
       /\ irq' = pc_isr_common(Accepted(v), v, y.c.cur # x.c.cur)
  /\ UNCHANGED <<machine, kcache, kfree, cprog, cleft>>

\* The handler found a thread but no memory for the state of the current one.
CtxInterruptRefused(v) ==
  /\ Follow
  /\ Deliverable(v) /\ Preempts(v)
  /\ cpu.at \in {"user", "kernel", "entry"}
  /\ \E x \in {EnterIsr(AllOfIt)} : \E y \in Refusals(x) :
       /\ Apply(LeaveIsr(y))
       /\ irq' = pc_isr_common(Accepted(v), v, FALSE)
  /\ Spend("faults")
  /\ UNCHANGED <<machine, kcache, kfree, cprog>>

\* Between swapgs and iretq the frame says kernel mode and GS is the user's.
CtxWindowInterrupt ==
  /\ Follow
  /\ cpu.at = "window"
  /\ cpu' = [cpu EXCEPT !.lost = "gs"]
  /\ UNCHANGED <<machine, cth, kmem, kcache, kfree, cprog, irq, cleft>>

\* StIntP_HandleUserFault: the thread ends where it is; the kernel panics when
\* it cannot get away from it.
CtxUserFault ==
  /\ Follow
  /\ cpu.at = "user" /\ cleft.faults > 0
  /\ \E x \in {[EnterIsr(AllOfIt) EXCEPT !.t[cpu.cur].state = "finished"]} :
       \/ \E y \in Switches(x) : Apply(LeaveIsr(y))
       \/ SaveNeeds(x, cpu.cur, TRUE) /\ Apply([x EXCEPT !.c.lost = "panic"])
  /\ Spend("faults")
  /\ UNCHANGED <<machine, kcache, kfree, cprog, irq>>

\* StInt_CreateHandler and StInt_RemoveHandler, called by the ACPI glue
\* in the boot thread.
CtxCreateHandler ==
  /\ InKernel /\ cpu.cur = CtxMain /\ cleft.handlers > 0
  /\ \E h \in CtxHandlers \ ToSet(irq.on["device"]) : irq' = [irq EXCEPT !.on["device"] = Append(@, h)]
  /\ Spend("handlers")
  /\ UNCHANGED <<machine, cpu, cth, kmem, kcache, kfree, cprog>>

CtxRemoveHandler ==
  /\ InKernel /\ cpu.cur = CtxMain
  /\ \E h \in ToSet(irq.on["device"]) : irq' = [irq EXCEPT !.on["device"] = Remove(@, h)]
  /\ UNCHANGED <<machine, cpu, cth, kmem, kcache, kfree, cprog, cleft>>

-----------------------------------------------------------------------------
(* System calls, yielding and exit *)

CtxSyscall ==
  /\ Follow
  /\ cpu.at = "user"
  /\ \E x \in {EnterSyscall(AllOfIt, cpu.ksp), EnterSyscall(AllOfIt, cpu.tss)} :
       Apply([x EXCEPT !.c.regs = cprog[cpu.cur].k])
  /\ UNCHANGED <<machine, kcache, kfree, cprog, irq, cleft>>

CtxSysret ==
  /\ InKernel
  /\ cpu.cur \in CtxUser /\ cpu.lock = NoOwner /\ cth[cpu.cur].tls = NoTls
  /\ Apply(LeaveSyscall(AllOfIt))
  /\ UNCHANGED <<machine, kcache, kfree, cprog, irq, cleft>>

\* StThread_LockPreemption and UnlockPreemption around the kernel's own work.
CtxLock ==
  /\ InKernel /\ cpu.lock = NoOwner /\ cleft.locks > 0
  /\ cpu' = [cpu EXCEPT !.lock = cpu.cur]
  /\ Spend("locks")
  /\ UNCHANGED <<machine, cth, kmem, kcache, kfree, cprog, irq>>

CtxUnlock ==
  /\ InKernel /\ cpu.lock # NoOwner
  /\ cpu' = [cpu EXCEPT !.lock = NoOwner]
  /\ UNCHANGED <<machine, cth, kmem, kcache, kfree, cprog, irq, cleft>>

\* StThreadP_Yield builds the frame an interrupt would have left.
CtxYield ==
  /\ InKernel
  /\ \E x \in {EnterIsr(AllOfIt)} :
       \/ \E y \in Stays(x) \cup Switches(x) : Apply(LeaveIsr(y)) /\ UNCHANGED cleft
       \/ \E y \in Refusals(x) : Apply(LeaveIsr(y)) /\ Spend("faults")
  /\ UNCHANGED <<machine, kcache, kfree, cprog, irq>>

\* StThread_Exit.  When it cannot switch it spins until an interrupt can.
CtxExit ==
  /\ InKernel
  /\ cpu.cur # CtxMain /\ cpu.lock = NoOwner /\ cth[cpu.cur].tls = NoTls
  /\ \E x \in {EnterIsr([AllOfIt EXCEPT !.t[cpu.cur].state = "finished"])} :
       \/ \E y \in Switches(x) : Apply(LeaveIsr(y)) /\ UNCHANGED cleft
       \/ \E y \in Refusals(x) : Apply(LeaveIsr(y)) /\ Spend("faults")
  /\ UNCHANGED <<machine, kcache, kfree, cprog, irq>>

\* _StThreadP_UserThreadEntry: the selectors zero both bases; then iretq.
CtxEnterUser ==
  /\ Follow
  /\ cpu.at = "entry"
  /\ cpu' = [swapgs([cpu EXCEPT !.fs = 0]) EXCEPT !.at = "window", !.gs = 0]
  /\ cth' = [cth EXCEPT ![cpu.cur].begun = TRUE]
  /\ UNCHANGED <<machine, kmem, kcache, kfree, cprog, irq, cleft>>

CtxFirstReturn ==
  /\ Follow
  /\ cpu.at = "window"
  /\ cpu' = [cpu EXCEPT !.at = "user", !.regs = cprog[cpu.cur].u]
  /\ UNCHANGED <<machine, cth, kmem, kcache, kfree, cprog, irq, cleft>>

-----------------------------------------------------------------------------
(* TLS bases *)

\* Two callers do not set the bases of one thread at the same time.
BeingSet(t) == \E u \in CtxUser : cth[u].tls.th = t

\* thr_set_tls_base: first the field of the thread ...
CtxSetBase(r, v) ==
  /\ InKernel
  /\ cpu.cur \in CtxUser /\ cth[cpu.cur].tls = NoTls /\ cleft.bases > 0
  /\ \E t \in {u \in CtxUser : cth[u].begun /\ cth[u].state = "ready" /\ ~BeingSet(u)} :
       /\ cth' = [cth EXCEPT ![t][r] = v, ![cpu.cur].tls = [th |-> t, reg |-> r, base |-> v]]
       /\ cprog' = [cprog EXCEPT ![t][r] = v]
  /\ Spend("bases")
  /\ UNCHANGED <<machine, cpu, kmem, kcache, kfree, irq>>

\* ... then, if that thread is the current one, the register.
CtxWriteBase ==
  /\ InKernel
  /\ cth[cpu.cur].tls # NoTls
  /\ \E w \in {cth[cpu.cur].tls} :
       cpu' = CASE w.th # cpu.cur -> cpu
                [] w.reg = "fs" -> [cpu EXCEPT !.fs = w.base]
                [] OTHER -> [cpu EXCEPT !.kgs = w.base]
  /\ cth' = [cth EXCEPT ![cpu.cur].tls = NoTls]
  /\ UNCHANGED <<machine, kmem, kcache, kfree, cprog, irq, cleft>>

-----------------------------------------------------------------------------
(* Threads and their kernel stacks *)

\* StThreadP_InitializePlatformData, StThreadP_SetupThreadKernelStack: a frame
\* that begins at the entry of a kernel or of a user thread.
EntryOf(t) == IF t \in CtxUser THEN "entry" ELSE "kernel"
NewThread(s) ==
  [state |-> "ready", stack |-> s, sp |-> <<s, 1>>, fs |-> 0, gs |-> 0, xbuf |-> NoBuf, begun |-> FALSE, tls |-> NoTls]
NewProgram(t) ==
  [u |-> RegsOf(t, "u", 0), k |-> RegsOf(t, "k", 0), fpu |-> CleanFpu, fs |-> 0, gs |-> 0]
NoThread ==
  [state |-> "none", stack |-> NoStack, sp |-> <<NoStack, 0>>, fs |-> 0, gs |-> 0, xbuf |-> NoBuf, begun |-> FALSE, tls |-> NoTls]

CtxSetup(t, s) ==
  /\ cth' = [cth EXCEPT ![t] = NewThread(s)]
  /\ kmem' = [kmem EXCEPT ![s] = <<FrameOf(EntryOf(t), RegsOf(t, "k", 0))>>]
  /\ cprog' = [cprog EXCEPT ![t] = NewProgram(t)]

\* A new thread takes the lowest slot of its kind.
SameKind(t) == IF t \in CtxUser THEN CtxUser ELSE CtxKernel

\* StThreadP_AllocateThreadKernelStack: from the cache, or from the VMM.
CtxCreate(t) ==
  /\ InKernel /\ cleft.creates > 0
  /\ cth[t].state = "none" /\ t = LowestOne({u \in SameKind(t) : cth[u].state = "none"})
  /\ \/ /\ kcache # <<>>
        /\ CtxSetup(t, Head(kcache))
        /\ kcache' = Tail(kcache) /\ UNCHANGED kfree
     \/ /\ kcache = <<>> /\ kfree # {}
        /\ CtxSetup(t, LowestOne(kfree))
        /\ kfree' = kfree \ {LowestOne(kfree)} /\ UNCHANGED kcache
  /\ Spend("creates")
  /\ UNCHANGED <<machine, cpu, irq>>

\* finalize_thread_storage: StThreadP_FreeThreadKernelStack keeps the stack while
\* frames are plentiful and the cache has room; StThreadP_FreePlatformData.
CtxReap(t) ==
  /\ InKernel
  /\ cth[t].state = "finished" /\ t # cpu.cur
  /\ \/ /\ Len(kcache) + 1 <= CtxCacheMax
        /\ kcache' = <<cth[t].stack>> \o kcache /\ UNCHANGED kfree
     \/ /\ kfree' = kfree \cup {cth[t].stack} /\ UNCHANGED kcache
  /\ kmem' = [kmem EXCEPT ![cth[t].stack] = <<>>]
  /\ cth' = [cth EXCEPT ![t] = NoThread]
  /\ cprog' = [cprog EXCEPT ![t] = NewProgram(t)]
  /\ UNCHANGED <<machine, cpu, irq, cleft>>

\* StThreadP_ReclaimCachedKernelStacks, a stack's budget at a time.
CtxReclaim ==
  /\ InKernel
  /\ kcache # <<>>
  /\ kcache' = Tail(kcache)
  /\ kfree' = kfree \cup {Head(kcache)}
  /\ UNCHANGED <<machine, cpu, cth, kmem, cprog, irq, cleft>>

-----------------------------------------------------------------------------
(* The programs *)

\* Only user code touches the FPU: the kernel is built without it.
CtxCompute ==
  /\ \/ /\ Follow /\ cpu.at = "user" /\ cleft.regs > 0
        /\ cpu' = [cpu EXCEPT !.regs = RegsOf(cpu.cur, "u", 1)]
        /\ cprog' = [cprog EXCEPT ![cpu.cur].u = RegsOf(cpu.cur, "u", 1)]
        /\ Spend("regs")
     \/ /\ Follow /\ cpu.at = "user" /\ cleft.fpu > 0
        /\ cpu' = [cpu EXCEPT !.fpu = RegsOf(cpu.cur, "f", 1)]
        /\ cprog' = [cprog EXCEPT ![cpu.cur].fpu = RegsOf(cpu.cur, "f", 1)]
        /\ Spend("fpu")
     \/ /\ InKernel /\ cleft.regs > 0
        /\ cpu' = [cpu EXCEPT !.regs = RegsOf(cpu.cur, "k", 1)]
        /\ cprog' = [cprog EXCEPT ![cpu.cur].k = RegsOf(cpu.cur, "k", 1)]
        /\ Spend("regs")
  /\ UNCHANGED <<machine, cth, kmem, kcache, kfree, irq>>

CtxVectors == {"timer", "lapic", "device", "spurious"}

\* The boot thread runs with whatever the loader left in the FPU.
CtxInit ==
  /\ machine \in CtxLoads
  /\ cpu = [cur |-> CtxMain, at |-> "kernel", regs |-> RegsOf(CtxMain, "k", 0), fpu |-> RegsOf(CtxMain, "f", 0),
            fs |-> 0, gs |-> CpuData, kgs |-> 0, asp |-> BaseAsp, tss |-> NoStack, ksp |-> NoStack,
            sp |-> <<BootStack, 0>>, lock |-> NoOwner, tear |-> FALSE, lost |-> NoCtx]
  /\ cth = [t \in CtxThreads |-> IF t = CtxMain THEN [NoThread EXCEPT !.state = "ready"] ELSE NoThread]
  /\ kmem = [s \in AnyStack |-> <<>>]
  /\ kcache = <<>>
  /\ kfree = CtxStacks
  /\ cprog = [t \in CtxThreads |-> [NewProgram(t) EXCEPT !.fpu = IF t = CtxMain THEN RegsOf(t, "f", 0) ELSE @]]
  /\ irq = [on |-> [v \in CtxVectors |->
                      CASE v = "timer" -> IF machine.apic THEN <<"tick_isr">> ELSE <<"tick_isr", "preempt_isr">>
                        [] v = "lapic" -> IF machine.apic THEN <<"preempt_isr">> ELSE <<>>
                        [] OTHER -> <<>>],
            service |-> {}, missed |-> FALSE]
  /\ cleft = machine

CtxNext ==
  \/ \E v \in CtxVectors : CtxInterrupt(v) \/ CtxInterruptRefused(v)
  \/ CtxWindowInterrupt
  \/ CtxUserFault
  \/ CtxCreateHandler \/ CtxRemoveHandler
  \/ CtxSyscall \/ CtxSysret
  \/ CtxLock \/ CtxUnlock \/ CtxYield \/ CtxExit
  \/ CtxEnterUser \/ CtxFirstReturn
  \/ \E r \in {"fs", "gs"} : CtxSetBase(r, CtxBase)
  \/ CtxWriteBase
  \/ \E t \in CtxThreads \ {CtxMain} : CtxCreate(t) \/ CtxReap(t)
  \/ CtxReclaim
  \/ CtxCompute

-----------------------------------------------------------------------------
(* Properties *)

StackOf(t) == IF t = CtxMain THEN BootStack ELSE cth[t].stack
Settled(t) == cth[t].tls.th # t

\* The CPU holds the state of the current thread and nobody else's.
RunsAsItself(t) ==
  /\ cpu.regs = IF cpu.at = "user" THEN cprog[t].u ELSE cprog[t].k
  /\ cpu.fpu = cprog[t].fpu
  /\ cpu.asp = AspOf(t) /\ cpu.tss = cth[t].stack /\ cpu.ksp = cth[t].stack
  /\ cpu.sp[1] = StackOf(t)
  /\ IF cpu.at = "user" THEN cpu.kgs = CpuData /\ cpu.fs = cprog[t].fs /\ cpu.gs = cprog[t].gs
     ELSE cpu.gs = CpuData /\ (t \in CtxUser /\ Settled(t) => cpu.fs = cprog[t].fs /\ cpu.kgs = cprog[t].gs)

\* A thread that waits for its turn will find what it left.
Resumable(t) ==
  LET fs == kmem[StackOf(t)]
      Level(f) == IF f.at = "user" THEN cprog[t].u ELSE cprog[t].k
  IN  /\ cth[t].sp = <<StackOf(t), Len(fs)>> /\ fs # <<>>
      /\ fs[Len(fs)].regs = Level(fs[Len(fs)])
      /\ t \in CtxUser /\ cth[t].begun => fs[1].at = "user" /\ fs[1].regs = cprog[t].u
      /\ cprog[t].fpu = IF cth[t].xbuf = NoBuf THEN CleanFpu ELSE cth[t].xbuf
      /\ cth[t].fs = cprog[t].fs /\ cth[t].gs = cprog[t].gs

\* Every kernel stack is one thread's, cached once, or free.
StacksOwned ==
  LET Live == {t \in CtxThreads \ {CtxMain} : cth[t].state # "none"}
      Of == {cth[t].stack : t \in Live}
  IN  /\ Cardinality(Of) = Cardinality(Live)
      /\ Cardinality(ToSet(kcache)) = Len(kcache) /\ Len(kcache) <= CtxCacheMax
      /\ Cardinality(Of) + Len(kcache) + Cardinality(kfree) = Cardinality(CtxStacks)
      /\ Of \cup ToSet(kcache) \cup kfree = CtxStacks

=============================================================================
