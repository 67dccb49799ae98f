----------------------------- MODULE ModuleShape -----------------------------
(***************************************************************************)
(* validate_module_shape of module.cpp: what serialising, parsing, creating*)
(* a machine and compiling ask of a module's sections and sizes.           *)
(***************************************************************************)
EXTENDS Integers, Sequences, MachineWord

CONSTANT ModuleLimits \* the ModuleLimits it is called with

kModuleHeaderSize == 64

\* A section's size is written as a std::uint32_t.
FitsField(size) == size \div 16777216 < 256

(* validate_module_shape, with the size limits it checks. *)
ModuleShapeValid(module) ==
    /\ module.code_size > 0
    /\ module.carrier_count > 0
    /\ DOMAIN module.initial_carriers = 0 .. (module.carrier_count - 1)
    /\ Len(module.data) <= module.memory_size
    /\ module.argument_count <= kMaximumArguments
    /\ module.memory_size <= ModuleLimits.max_memory_size
    /\ module.carrier_count <= ModuleLimits.max_carriers
    /\ module.code_size <= ModuleLimits.max_code_size
    /\ Len(module.data) <= ModuleLimits.max_data_size
    /\ \A size \in {module.code_size, Len(module.data), WordBytes * module.carrier_count} :
           FitsField(size)
    /\ kModuleHeaderSize + module.code_size + Len(module.data)
           + WordBytes * module.carrier_count <= ModuleLimits.max_file_size
=============================================================================
