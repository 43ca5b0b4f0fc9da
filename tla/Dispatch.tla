------------------------------- MODULE Dispatch -------------------------------
(***************************************************************************)
(* The tool registry (src/src/tools.rs), the flags that enable it          *)
(* (src/src/lib.rs) and the gate of tools/call (src/src/server.rs).        *)
(*                                                                         *)
(* Three lists name the tools and must agree: tools.json, which tools/list *)
(* answers from; ALL_TOOLS, which says what is available and what writes;  *)
(* and the arms of the match in handle_tools_call.                         *)
(***************************************************************************)
EXTENDS FiniteSets

Categories == {"read", "write", "delete", "compress", "crypto", "csv"}

(* ALL_TOOLS, by category *)
ReadTools ==
  {"read_text_file", "read_media_file", "list_directory",
   "list_directory_with_sizes", "search_files", "directory_tree",
   "get_file_info", "list_allowed_directories", "hash_file", "grep_files",
   "get_disk_usage", "read_file_range"}

FileWriteTools ==
  {"write_file", "edit_file", "create_directory", "move_file", "copy_file",
   "set_permissions", "create_symlink"}

DeleteTools == {"delete_file", "delete_directory"}

CompressTools ==
  {"compress_gzip", "decompress_gzip", "compress_zstd", "decompress_zstd",
   "compress_tar", "decompress_tar"}

CryptoTools == {"encrypt_file", "decrypt_file", "generate_key"}

CsvWriteTools ==
  {"csv_create", "csv_add_row", "csv_update_cell", "csv_remove_row",
   "csv_add_column", "csv_remove_column", "csv_rename_column"}

CsvReadTools ==
  {"csv_read", "csv_read_column_values_range", "csv_read_row_range",
   "csv_select_column_range"}

AllTools ==
  ReadTools \cup FileWriteTools \cup DeleteTools \cup CompressTools
    \cup CryptoTools \cup CsvWriteTools \cup CsvReadTools

(* category_of, for a name of AllTools *)
CategoryOf(tool) ==
  CASE tool \in ReadTools -> "read"
    [] tool \in FileWriteTools -> "write"
    [] tool \in DeleteTools -> "delete"
    [] tool \in CompressTools -> "compress"
    [] tool \in CryptoTools -> "crypto"
    [] tool \in CsvWriteTools \cup CsvReadTools -> "csv"

(* Mutant: one row of the table has the wrong flag. *)
IsWriteToolMisses(tool) ==
  tool \in AllTools \ (ReadTools \cup CsvReadTools \cup {"csv_rename_column"})

(* is_write_tool: the `write` flag; FALSE for a name that is no tool *)
IsWriteTool(tool) == tool \in AllTools \ (ReadTools \cup CsvReadTools)

(* is_tool_available *)
Available(tool, enabled) == tool \in AllTools /\ CategoryOf(tool) \in enabled

(* Args::enabled_categories: `flags` are the --enable-* switches given. *)
EnabledCategories(flags) ==
  IF "all" \in flags THEN Categories ELSE flags \cap Categories

(* The names of tools.json. *)
Described == AllTools

(* build_tools_list_response *)
ToolsList(enabled) == {tool \in Described : Available(tool, enabled)}

(* The arms of the match in handle_tools_call. *)
Handled == AllTools

(* What handle_tools_call does with a name: an error of the protocol, a    *)
(* tool result that is an error, or the tool.                              *)
Gate(tool, enabled, mode) ==
  IF ~Available(tool, enabled) THEN "notFound"
  ELSE IF mode = "readonly" /\ IsWriteTool(tool) THEN "readOnly"
  ELSE IF tool \in Handled THEN "run" ELSE "notFound"
=============================================================================
