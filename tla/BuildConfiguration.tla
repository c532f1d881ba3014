------------------------- MODULE BuildConfiguration -------------------------
(***************************************************************************)
(* How a build of the library chooses its calculation mode, and which       *)
(* instructions it has: the macros of cjm_configuration.hpp and the         *)
(* constants of numerics_configuration.hpp as functions of the macros that  *)
(* the compiler predefines and of the width of a pointer.  The names are    *)
(* those of the code without their prefix CJM_.                             *)
(***************************************************************************)

CONSTANT Predefined   \* macros explored

VARIABLES
  macros,     \* those that the compiler predefines
  pointers64  \* whether a pointer has 64 bits

configurationVars == <<macros, pointers64>>

\* x64 has pointers of 64 bits, as other processors have.
Init ==
  /\ macros \in SUBSET Predefined
  /\ pointers64 \in BOOLEAN
  /\ "_M_X64" \in macros => pointers64

Spec == Init /\ [][FALSE]_configurationVars

-----------------------------------------------------------------------------
(* cjm_configuration.hpp *)

DETECTED_CLANG          == "__clang__" \in macros
DETECTED_INTRINSIC_U128 == "__SIZEOF_INT128__" \in macros
DETECTED_WINDOWS        == "_MSC_VER" \in macros
DETECTED_X64            == "_M_X64" \in macros
DETECTED_GCC            == "__GNUC__" \in macros
DETECTED_INTEL_CLASSIC  == "__ICL" \in macros
DETECTED_INTEL_LLVM     == "__INTEL_LLVM_COMPILER" \in macros

BASE_INTRINSICS_AVAILABLE == DETECTED_WINDOWS /\ DETECTED_X64 /\ ~ DETECTED_GCC

UDIV_INTRINSIC_AVAILABLE ==
  /\ BASE_INTRINSICS_AVAILABLE
  /\ ~ (DETECTED_INTEL_CLASSIC \/ DETECTED_INTEL_LLVM \/ DETECTED_CLANG)

\* Clang says which instructions there are; where AVX2 is, they are taken to be.
NUMERICS_UINT128_INTEL_ADX ==
  /\ DETECTED_WINDOWS /\ DETECTED_X64
  /\ \/ DETECTED_CLANG /\ "__ADX__" \in macros
     \/ ~ DETECTED_GCC /\ "__AVX2__" \in macros

NUMERICS_UINT128_INTEL_BMI2 ==
  /\ DETECTED_WINDOWS /\ DETECTED_X64
  /\ \/ DETECTED_CLANG /\ "__BMI2__" \in macros
     \/ ~ DETECTED_GCC /\ "__AVX2__" \in macros

-----------------------------------------------------------------------------
(* numerics_configuration.hpp *)

USE_INTRINSIC_U128 == ~ DETECTED_WINDOWS /\ DETECTED_INTRINSIC_U128

Undefined == "cjm_bad"   \* one of the declarations of functions that have no body

\* What the macro of an instruction stands for.
Instruction ==
  IF ~ BASE_INTRINSICS_AVAILABLE
  THEN [name \in {"ADDCARRY64", "SUBBORROW_64", "UMUL128", "LSHIFT128", "RSHIFT128",
                  "BITSCAN_REV_64", "UDIV128"} |-> Undefined]
  ELSE [ADDCARRY64     |-> IF NUMERICS_UINT128_INTEL_ADX THEN "_addcarryx_u64" ELSE "_addcarry_u64",
        SUBBORROW_64   |-> "_subborrow_u64",
        UMUL128        |-> IF NUMERICS_UINT128_INTEL_BMI2 THEN "_mulx_u64" ELSE "_umul128",
        LSHIFT128      |-> "__shiftleft128",
        RSHIFT128      |-> "__shiftright128",
        BITSCAN_REV_64 |-> "_BitScanReverse64",
        UDIV128        |-> IF UDIV_INTRINSIC_AVAILABLE THEN "_udiv128" ELSE Undefined]

is_windows == DETECTED_WINDOWS

is_x64 == DETECTED_X64 \/ pointers64

is_windows_x64 == is_x64 /\ is_windows

compiler ==
  CASE DETECTED_WINDOWS /\ DETECTED_INTEL_CLASSIC -> "msvc_intel_classic"
    [] DETECTED_WINDOWS /\ ~ DETECTED_INTEL_CLASSIC /\ DETECTED_INTEL_LLVM -> "msvc_intel_llvm"
    [] DETECTED_WINDOWS /\ ~ DETECTED_INTEL_CLASSIC /\ ~ DETECTED_INTEL_LLVM ->
         IF DETECTED_CLANG THEN "msvc_clang" ELSE "msvc"
    [] ~ DETECTED_WINDOWS /\ DETECTED_GCC -> IF DETECTED_CLANG THEN "clang_gcc" ELSE "gcc"
    [] ~ DETECTED_WINDOWS /\ ~ DETECTED_GCC -> IF DETECTED_CLANG THEN "clang" ELSE "other"

natuint128_t == IF USE_INTRINSIC_U128 THEN "unsigned __int128" ELSE "uint128"

\* Mutant of is_microsoft_windows_x64: Clang for Windows is taken for Microsoft's.
is_microsoft_or_clang_windows_x64 == is_windows_x64 /\ compiler \in {"msvc", "msvc_clang"}

is_microsoft_windows_x64 == is_windows_x64 /\ compiler = "msvc"

is_clang_or_intel_llvm_msvc_x64 ==
  is_windows_x64 /\ compiler \in {"msvc_clang", "msvc_intel_llvm"}

init_eval_mode ==
  IF USE_INTRINSIC_U128 THEN "intrinsic_u128"
  ELSE IF is_microsoft_windows_x64 THEN "msvc_x64"
  ELSE IF is_clang_or_intel_llvm_msvc_x64 THEN "msvc_x64_clang_or_intel_llvm"
  ELSE "default_eval"

-----------------------------------------------------------------------------
(* What uint128.inl makes of it *)

\* The instructions that the operators, the carry functions and the scans execute;
\* the division has its own.
Executed ==
  IF init_eval_mode \in {"msvc_x64", "msvc_x64_clang_or_intel_llvm"}
  THEN {"ADDCARRY64", "SUBBORROW_64", "UMUL128", "LSHIFT128", "RSHIFT128", "BITSCAN_REV_64"}
         \cup (IF UDIV_INTRINSIC_AVAILABLE /\ init_eval_mode = "msvc_x64"
               THEN {"UDIV128"} ELSE {})
  ELSE {}

\* div_mod_msc_x64_impl without its instruction: both results are zero.
DividesToZero == init_eval_mode = "msvc_x64" /\ ~ UDIV_INTRINSIC_AVAILABLE

-----------------------------------------------------------------------------
(* Properties *)

\* A Windows with pointers of 64 bits whose processor is no x64, or whose compiler
\* claims to be GNU's too.
OddWindows ==
  /\ DETECTED_WINDOWS /\ pointers64 /\ ~ DETECTED_INTEL_CLASSIC
  /\ (~ DETECTED_X64 \/ DETECTED_GCC)

\* The functions without a body are used, and every division gives zero, exactly in
\* the builds for such a Windows; everywhere else a build executes only the
\* instructions it has.  In the mode of the compiler's integer there is such an
\* integer, so that unsafe_div_mod, which never throws, is right not to.
BuildIsComplete ==
  /\ (\E i \in Executed : Instruction[i] = Undefined) <=> OddWindows
  /\ DividesToZero <=> (OddWindows /\ compiler = "msvc")
  /\ init_eval_mode = "intrinsic_u128" => natuint128_t # "uint128"
=============================================================================
