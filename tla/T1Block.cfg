\* The BWT alarm against the worker's own use of the UART.
CONSTANTS
  ReaderPcbs <- MCReaderPcbs
  UndefPcbs <- MCUndefPcbs
  IfsValues = {1, 3}
  DefaultIFS = 2
  Responses = {1, 3}
  MaxReads = 6
  MaxResponses = 3
  MaxWtx = 3
SPECIFICATION Spec
INVARIANT TypeOK WtxOnlyWhileHostWaits
\* prot_t1 stops for good when the host never answers (read_usb_uart_apdu
\* blocks); once the reader is silent its loop only times out.
CHECK_DEADLOCK FALSE
