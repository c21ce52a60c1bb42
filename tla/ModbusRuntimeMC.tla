---------------------------- MODULE ModbusRuntimeMC ----------------------------
(***************************************************************************)
(* A device with a register that is read and written, a coil that is only   *)
(* written, and a command that writes both.                                 *)
(***************************************************************************)
EXTENDS ModbusRuntime

DevicePoints ==
    << [access |-> "rw", fc |-> 3, type |-> "float32"],
       [access |-> "wo", fc |-> 5, type |-> "bool"] >>

\* The first caller writes both, the coil in vain, for it is configured by its
\* write function code; the second caller writes the register.
SomeCommands == << {<<1, 2>>}, {<<1>>} >>
================================================================================
