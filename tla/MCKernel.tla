------------------------------ MODULE MCKernel ------------------------------
(* Kernel on a small instance. *)
EXTENDS Kernel

CONSTANTS one, two, three, dropped, clock2

Prog(pbp, kind, attr, short, named) ==
  [pbp |-> pbp, kind |-> kind, attr |-> attr, short |-> short, named |-> named]

\* Every combination that a step tells apart.
MCFiles ==
  {Prog(p, "prx", a, FALSE, FALSE) : p \in BOOLEAN, a \in Attributes}
    \cup {Prog(p, "static", a, FALSE, n) :
            p \in BOOLEAN, a \in {"user", "kernel"}, n \in BOOLEAN}
    \cup {Prog(p, "psp", "kernel", FALSE, FALSE) : p \in BOOLEAN}
    \cup {Prog(FALSE, "prx", "user", TRUE, FALSE)}
MCGameFiles == {Prog(TRUE, "prx", "user", FALSE, FALSE),
                Prog(FALSE, "psp", "kernel", FALSE, FALSE)}

MCTable == <<[libname |-> "SysclibForKernel", nid |-> <<<<one, two>>>>],
             [libname |-> "scePower_driver", nid |-> <<<<one, three>>>>]>>
MCExports ==
  [m \in {"kernel", "scePower_Service"} |->
     IF m = "kernel"
     THEN <<[libname |-> NoName, funcs |-> {}, vars |-> {SdkVersion}],
            [libname |-> "SysclibForKernel", funcs |-> {two, three}, vars |-> {}]>>
     ELSE <<[libname |-> NoName, funcs |-> {}, vars |-> {SdkVersion}],
            [libname |-> "scePower_driver", funcs |-> {one, three}, vars |-> {}],
            [libname |-> "scePower", funcs |-> {SetClock, clock2}, vars |-> {}]>>]
MCSubstitutes == {<<"SysclibForKernel", dropped>>}
MCImports == {<<"SysclibForKernel", n>> : n \in {one, two, three, dropped}}
               \cup {<<"scePower_driver", n>> : n \in {one, two, three, SetClock}}
MCMeant ==
  [i \in MCImports |->
     CASE i = <<"SysclibForKernel", one>> -> <<"SysclibForKernel", two>>
       [] i = <<"scePower_driver", one>> -> <<"scePower_driver", three>>
       [] i = <<"SysclibForKernel", dropped>> -> <<"HEN", "SysclibForKernel", dropped>>
       [] i = <<"scePower_driver", SetClock>> -> <<"scePower", SetClock>>
       [] i = <<"scePower_driver", two>> -> Missing
       [] OTHER -> i]
===============================================================================
